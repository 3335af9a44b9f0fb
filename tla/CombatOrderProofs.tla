-------------------------- MODULE CombatOrderProofs --------------------------
(* More theorems about CombatTurns: the stored order, the current combatant,*)
(* the turns a round owes, and what holds a turn.                           *)
EXTENDS CombatTurnsProofs

------------------------------------------------------------------------------
(* The stored order.  What is inductive is that the places are those of a  *)
(* line without gaps to fill: distinct, below the number of fighters (so   *)
(* that who joins, after the last, takes a place of its own), and going    *)
(* the other way than the totals.                                          *)

Lined(x) ==
    /\ \A a \in x.fighters : x.place[a] < Cardinality(x.fighters)
    /\ \A a, b \in x.fighters : a # b => x.place[a] # x.place[b]
    /\ \A a, b \in x.fighters : x.initiative[a] > x.initiative[b] => x.place[a] < x.place[b]

(* Nobody shares a place: enough to put everybody in order again.          *)
Placed(x) == \A a, b \in x.fighters : a # b => x.place[a] # x.place[b]

(* Where no two fighters share a place, one of any two comes first.        *)
LEMMA PrecedesTotal ==
  ASSUME NEW x \in CombatType, Placed(x), NEW a \in x.fighters, NEW b \in x.fighters, a # b
  PROVE  Precedes(x, a, b) \/ Precedes(x, b, a)
<1>1. a \in Combatants /\ b \in Combatants
  BY DEF CombatType
<1>2. x.initiative[a] \in Nat /\ x.initiative[b] \in Nat
  BY <1>1, BoundsAssumption DEF CombatType
<1>3. x.place[a] \in Nat /\ x.place[b] \in Nat /\ x.place[a] # x.place[b]
  BY <1>1 DEF CombatType, Placed
<1>4. Bonus[a] \in Int /\ Bonus[b] \in Int
  BY <1>1, CombatantsAssumption
<1> QED BY <1>2, <1>3, <1>4 DEF Precedes

(* To come before is transitive, and nobody comes before itself.           *)
LEMMA PrecedesOrder ==
  ASSUME NEW x \in CombatType
  PROVE  /\ \A a \in x.fighters : ~Precedes(x, a, a)
         /\ \A a, b, c \in x.fighters :
               Precedes(x, a, b) /\ Precedes(x, b, c) => Precedes(x, a, c)
<1>1. \A a \in x.fighters : /\ x.initiative[a] \in Nat /\ x.place[a] \in Nat
                            /\ Bonus[a] \in Int
  BY CombatantsAssumption, BoundsAssumption DEF CombatType
<1>2. ASSUME NEW a \in x.fighters
      PROVE  ~Precedes(x, a, a)
  BY <1>1 DEF Precedes
<1>3. ASSUME NEW a \in x.fighters, NEW b \in x.fighters, NEW c \in x.fighters,
             Precedes(x, a, b), Precedes(x, b, c)
      PROVE  Precedes(x, a, c)
  BY <1>1, <1>3 DEF Precedes
<1> QED BY <1>2, <1>3

(* saveOrder makes a line: who comes before somebody has fewer before it.  *)
LEMMA OrderedLined ==
  ASSUME NEW x \in CombatType, Placed(x)
  PROVE  Lined(Ordered(x))
<1> DEFINE before(c) == {o \in x.fighters : Precedes(x, o, c)}
<1>0. IsFiniteSet(x.fighters) /\ Cardinality(x.fighters) \in Nat
  BY CombatantsFinite, FS_Subset, FS_CardinalityType DEF CombatType
<1>1. \A c \in x.fighters : /\ IsFiniteSet(before(c)) /\ Cardinality(before(c)) \in Nat
                            /\ Cardinality(before(c)) < Cardinality(x.fighters)
  <2> TAKE c \in x.fighters
  <2>1. before(c) \in SUBSET x.fighters /\ c \notin before(c)
    BY PrecedesOrder
  <2>2. IsFiniteSet(before(c)) /\ Cardinality(before(c)) \in Nat
    BY <1>0, <2>1, FS_Subset, FS_CardinalityType
  <2>3. before(c) # x.fighters
    BY <2>1
  <2> HIDE DEF before
  <2>4. Cardinality(before(c)) <= Cardinality(x.fighters)
        /\ Cardinality(before(c)) # Cardinality(x.fighters)
    BY <1>0, <2>1, <2>3, FS_Subset
  <2> QED BY <1>0, <2>2, <2>4
<1>2. ASSUME NEW a \in x.fighters, NEW b \in x.fighters, Precedes(x, a, b)
      PROVE  Cardinality(before(a)) < Cardinality(before(b))
  <2>1. before(a) \in SUBSET before(b)
    BY <1>2, PrecedesOrder
  <2>2. a \in before(b) /\ a \notin before(a)
    BY <1>2, PrecedesOrder
  <2>3. IsFiniteSet(before(b)) /\ Cardinality(before(a)) \in Nat /\ Cardinality(before(b)) \in Nat
    BY <1>1
  <2> HIDE DEF before
  <2>4. Cardinality(before(a)) <= Cardinality(before(b))
        /\ Cardinality(before(a)) # Cardinality(before(b))
    BY <2>1, <2>2, <2>3, FS_Subset
  <2> QED BY <2>3, <2>4
<1> DEFINE y == Ordered(x)
<1>3. /\ y.fighters = x.fighters /\ y.initiative = x.initiative
      /\ y.place = [c \in Combatants |-> IF c \in x.fighters THEN Cardinality(before(c)) ELSE 0]
  BY DEF Ordered, CombatType
<1>4. \A c \in x.fighters : y.place[c] = Cardinality(before(c))
  BY <1>3 DEF CombatType
<1> HIDE DEF y, before
<1>5. ASSUME NEW a \in x.fighters, NEW b \in x.fighters, a # b
      PROVE  y.place[a] # y.place[b]
  BY <1>1, <1>2, <1>4, <1>5, PrecedesTotal
<1>6. ASSUME NEW a \in x.fighters, NEW b \in x.fighters, x.initiative[a] > x.initiative[b]
      PROVE  y.place[a] < y.place[b]
  <2>1. Precedes(x, a, b)
    BY <1>6 DEF Precedes
  <2> QED BY <1>2, <1>4, <2>1
<1>7. \A a \in x.fighters : y.place[a] < Cardinality(y.fighters)
  BY <1>1, <1>3, <1>4
<1> QED BY <1>3, <1>5, <1>6, <1>7 DEF Lined, y

(* What decides the line.                                                  *)
SameOrder(x, y) ==
    /\ y.fighters = x.fighters /\ y.place = x.place /\ y.initiative = x.initiative

(* A turn that starts leaves the order alone.                              *)
LEMMA StartTurnOrder ==
  ASSUME NEW x \in CombatType, NEW ids, NEW r, NEW y \in StartTurn(x, ids, r)
  PROVE  SameOrder(x, y)
<1>1. PICK struck, asked, first : y = Started(x, ids, r, struck, asked, first)
  BY DEF StartTurn
<1>2. y.fighters = x.fighters /\ y.place = x.place /\ y.initiative = x.initiative
  BY <1>1 DEF Started, Defeat, Recorded, CombatType
<1> QED BY <1>2 DEF SameOrder

(* Who leaves the turn leaves the order alone.                             *)
LEMMA LeaveTurnOrder ==
  ASSUME NEW x \in CombatType, NEW seen, NEW who, NEW y \in LeaveTurn(x, seen, who)
  PROVE  SameOrder(x, y)
<1>1. \A c : SameOrder(x, [x EXCEPT !.current = c])
  BY DEF SameOrder, CombatType
<1>2. SameOrder(x, [x EXCEPT !.turn = [c \in Combatants |-> "idle"], !.current = Nobody])
  BY DEF SameOrder, CombatType
<1>3. SameOrder(x, x)
  BY DEF SameOrder
<1>4. \A ids, r : y \in StartTurn(x, ids, r) => SameOrder(x, y)
  BY StartTurnOrder
<1> QED BY <1>1, <1>2, <1>3, <1>4 DEF LeaveTurn

(* The settling leaves the order alone.                                    *)
LEMMA SettleOrder ==
  ASSUME NEW x \in CombatType, NEW y \in Settle(x)
  PROVE  SameOrder(x, y)
<1> DEFINE z == Closed(x)
<1>1. z \in CombatType /\ SameOrder(x, z)
  <2>1. z.fighters = x.fighters /\ z.place = x.place /\ z.initiative = x.initiative
    BY DEF Closed, CombatType
  <2> QED BY <2>1, ClosedType DEF SameOrder
<1>2. CASE y = x \/ y = z
  BY <1>1, <1>2 DEF SameOrder
<1>3. CASE \E m \in FirstOf(z, Members(z)) :
              y \in StartTurn(z, NextGroup(z, m, {}), NextRound(z, z, m, {}))
  <2>1. SameOrder(z, y)
    BY <1>1, <1>3, StartTurnOrder
  <2> QED BY <1>1, <2>1 DEF SameOrder
<1> QED BY <1>2, <1>3 DEF Settle, ReleaseHeldTurn

InLine == {x \in CombatType : Lined(x)}

(* A record with the order of one in line is in line.                      *)
LEMMA SameOrderInLine ==
  ASSUME NEW x \in InLine, NEW y \in CombatType, SameOrder(x, y)
  PROVE  y \in InLine
  BY DEF InLine, Lined, SameOrder

(* A call whose records are in line leaves a combat in line.               *)
LEMMA WriteInLine ==
  ASSUME NEW S, S \subseteq InLine, Write(S)
  PROVE  combat' \in InLine
<1>1. PICK x \in S : combat' \in Settle(x)
  BY DEF Write
<1> QED BY <1>1, SettleType, SettleOrder, SameOrderInLine DEF InLine

(* Who joins takes places after everybody's, and then its own in the line. *)
LEMMA JoinedInLine ==
  ASSUME NEW x \in InLine, NEW S \in SUBSET (Combatants \ x.fighters), NEW y \in Joined(x, S)
  PROVE  y \in InLine
<1>0. x \in CombatType /\ S \in SUBSET Combatants /\ y \in CombatType
  BY JoinedType DEF InLine
<1>1. PICK seat \in Seats(S), total \in [S \cap NPCs -> 1..MaxInitiative] :
        y = Seated(x, S, seat, total)
  BY DEF Joined
<1> DEFINE n == Cardinality(x.fighters)
           place == [c \in Combatants |-> IF c \in S THEN n + seat[c] ELSE x.place[c]]
           initiative == [c \in Combatants |-> IF c \in S \cap NPCs THEN total[c] ELSE x.initiative[c]]
           z == [x EXCEPT !.fighters = @ \cup S, !.place = place, !.initiative = initiative]
<1>2. n \in Nat /\ Cardinality(S) \in Nat
  BY <1>0, PlacesAreNumbers DEF CombatType
<1>3. \A c \in S : seat[c] \in Nat /\ seat[c] >= 1
  BY <1>2 DEF Seats
<1>4. \A a, b \in S : a # b => seat[a] # seat[b]
  BY DEF Seats
<1>5. place \in [Combatants -> Nat]
  BY <1>0, <1>2, <1>3 DEF CombatType
<1>6. initiative \in [Combatants -> 0..MaxInitiative]
  BY <1>0, BoundsAssumption DEF CombatType
<1>7. x.fighters \cup S \in SUBSET Combatants
  BY <1>0 DEF CombatType
<1> HIDE DEF n
<1>8. \A a, b \in x.fighters \cup S : a # b => place[a] # place[b]
  <2> SUFFICES ASSUME NEW a \in x.fighters \cup S, NEW b \in x.fighters \cup S, a # b
               PROVE  place[a] # place[b]
    OBVIOUS
  <2>1. a \in Combatants /\ b \in Combatants
    BY <1>7
  <2>2. \A c \in x.fighters : x.place[c] \in Nat /\ x.place[c] < n /\ c \notin S
    BY <1>0 DEF InLine, Lined, CombatType, n
  <2>3. CASE a \in S /\ b \in S
    BY <1>2, <1>3, <1>4, <2>1, <2>3
  <2>4. CASE a \in S /\ b \in x.fighters
    BY <1>2, <1>3, <2>1, <2>2, <2>4
  <2>5. CASE a \in x.fighters /\ b \in S
    BY <1>2, <1>3, <2>1, <2>2, <2>5
  <2>6. CASE a \in x.fighters /\ b \in x.fighters
    BY <2>1, <2>2, <2>6 DEF InLine, Lined
  <2> QED BY <2>3, <2>4, <2>5, <2>6
<1> HIDE DEF place, initiative
<1>9. z \in CombatType /\ z.fighters = x.fighters \cup S /\ z.place = place
  BY <1>0, <1>5, <1>6, <1>7 DEF CombatType
<1>10. y = Ordered(z)
  BY <1>1 DEF Seated, place, initiative, n
<1> HIDE DEF z
<1>11. Placed(z)
  BY <1>8, <1>9 DEF Placed
<1> QED BY <1>0, <1>9, <1>10, <1>11, OrderedLined DEF InLine

(* Who stays when rows go is put in line again.                            *)
LEMMA WithoutInLine ==
  ASSUME NEW x \in InLine, NEW S \in SUBSET Combatants
  PROVE  Without(x, S) \in InLine
<1>0. x \in CombatType /\ Without(x, S) \in CombatType
  BY WithoutType DEF InLine
<1> DEFINE z == [x EXCEPT !.fighters = @ \ S, !.defeated = @ \ S,
        !.saves = {w \in @ : w[1] \notin S},
        !.turn = [c \in Combatants |-> IF c \in S THEN "idle" ELSE @[c]],
        !.initiative = [c \in Combatants |-> IF c \in S THEN 0 ELSE @[c]],
        !.damage = {d \in @ : {d[1], d[2]} \cap S = {}},
        !.asks = {d \in @ : {d[1], d[2]} \cap S = {}},
        !.owed = @ \ S, !.had = @ \ S]
<1>1. z.turn \in [Combatants -> TurnState]
  BY <1>0 DEF CombatType, TurnState
<1>2. z.initiative \in [Combatants -> 0..MaxInitiative]
  BY <1>0, BoundsAssumption DEF CombatType
<1>3. /\ z.saves \subseteq x.saves /\ z.damage \subseteq x.damage /\ z.asks \subseteq x.asks
      /\ z.fighters \subseteq x.fighters /\ z.defeated \subseteq x.defeated
      /\ z.owed \subseteq x.owed /\ z.had \subseteq x.had
  BY <1>0 DEF CombatType
<1>4. z \in CombatType
  BY <1>0, <1>1, <1>2, <1>3 DEF CombatType
<1>5. z.place = x.place
  BY <1>0 DEF CombatType
<1>6. Without(x, S) = Ordered(z)
  BY DEF Without
<1> HIDE DEF z
<1>7. Placed(z)
  BY <1>3, <1>5 DEF Placed, InLine, Lined
<1> QED BY <1>0, <1>4, <1>6, <1>7, OrderedLined DEF InLine

------------------------------------------------------------------------------
(* The records the operations hand to the settling.                        *)

(* A part that ends keeps the type.                                        *)
LEMMA PartEndedType ==
  ASSUME combat \in CombatType, NEW c \in Combatants, NEW dropped, NEW saves \in SUBSET {<<c, "end">>}
  PROVE  PartEnded(c, dropped, saves) \in CombatType
<1>1. {<<c, "end">>} \subseteq Combatants \X Phases
  BY DEF Phases
<1>2. combat.saves \cup saves \in SUBSET (Combatants \X Phases)
  BY <1>1 DEF CombatType
<1> QED BY <1>2 DEF PartEnded, CombatType, TurnState

(* A hit that opens a damage keeps the type.                               *)
LEMMA AttackType ==
  ASSUME combat \in CombatType, NEW a \in Combatants, NEW t \in Combatants, NEW asks \in BOOLEAN
  PROVE  [combat EXCEPT !.damage = @ \cup {<<a, t>>},
                        !.asks = IF asks THEN @ \cup {<<a, t>>} ELSE @] \in CombatType
<1>1. {<<a, t>>} \subseteq Combatants \X Combatants
  OBVIOUS
<1>2. /\ combat.damage \cup {<<a, t>>} \in SUBSET (Combatants \X Combatants)
      /\ (IF asks THEN combat.asks \cup {<<a, t>>} ELSE combat.asks) \in SUBSET (Combatants \X Combatants)
  BY <1>1 DEF CombatType
<1> QED BY <1>2 DEF CombatType

(* Whoever falls, and whatever effects that ends, the order is the same.   *)
LEMMA FallOrder ==
  ASSUME combat \in CombatType, NEW S \in SUBSET Combatants, NEW asked
  PROVE  /\ EffectsEnd(Defeat(combat, S), asked) \in CombatType
         /\ SameOrder(combat, EffectsEnd(Defeat(combat, S), asked))
<1>1. EffectsEnd(Defeat(combat, S), asked) \in CombatType
  BY DefeatType, EffectsEndType
<1> QED BY <1>1 DEF Defeat, EffectsEnd, SameOrder, CombatType

(* A turn passed on leaves the order alone.                                *)
LEMMA PassTheTurnOrder ==
  ASSUME combat \in CombatType, NEW x \in CombatType, NEW c \in Combatants,
         NEW y \in PassTheTurn(x, c)
  PROVE  y \in CombatType /\ SameOrder(x, y)
<1>1. CASE y = x
  BY <1>1 DEF SameOrder
<1>2. CASE \E o \in FirstOf(x, OthersActing(combat, c)) : y = [x EXCEPT !.current = o]
  <2>1. PICK o \in Combatants : y = [x EXCEPT !.current = o]
    BY <1>2 DEF FirstOf, OthersActing, Acting, CombatType
  <2> QED BY <2>1 DEF SameOrder, CombatType
<1>3. CASE y \in StartTurn(x, NextGroup(x, c, {}), NextRound(x, x, c, {}))
  BY <1>3, NextGroupType, NextRoundType, StartTurnType, StartTurnOrder
<1> QED BY <1>1, <1>2, <1>3 DEF PassTheTurn

(* A call whose records keep the order leaves the combat in line.          *)
LEMMA WriteSameOrder ==
  ASSUME combat \in InLine, NEW S, Write(S),
         \A x \in S : x \in CombatType /\ SameOrder(combat, x)
  PROVE  combat' \in InLine
<1>1. S \subseteq InLine
  BY SameOrderInLine
<1> QED BY <1>1, WriteInLine

(* Rolls, ties, reinforcements and the beginning keep the line.            *)
LEMMA SetupInLine ==
  ASSUME combat \in InLine, Setup
  PROVE  combat' \in InLine
<1>0. combat \in CombatType
  BY DEF InLine
<1>1. CASE StartEncounter
  <2>1. PICK S \in SUBSET Combatants : Write(Joined([Empty EXCEPT !.status = "setup"], S))
    BY <1>1 DEF StartEncounter
  <2> DEFINE x == [Empty EXCEPT !.status = "setup"]
  <2>2. x \in CombatType /\ x.fighters = {}
    BY EmptyType DEF Empty, CombatType, Status
  <2> HIDE DEF x
  <2>3. x \in InLine
    BY <2>2 DEF InLine, Lined
  <2>4. S \in SUBSET (Combatants \ x.fighters)
    BY <2>2
  <2>5. Joined(x, S) \subseteq InLine
    BY <2>3, <2>4, JoinedInLine
  <2> QED BY <2>1, <2>5, WriteInLine DEF x
<1>2. CASE AddCombatants
  <2>1. PICK S \in SUBSET (Combatants \ combat.fighters) : Write(Joined(combat, S))
    BY <1>2 DEF AddCombatants
  <2> QED BY <2>1, JoinedInLine, WriteInLine
<1>3. CASE BeginCombat
  <2>1. PICK groups \in SUBSET SUBSET Combatants :
           Write(UNION {StartTurn(combat, ids, 1) : ids \in groups})
    <3>1. Highest(combat, Living(combat)) \in SUBSET Combatants
      BY <1>0 DEF CombatType, Highest, Living
    <3>2. FirstOf(combat, combat.fighters) \in SUBSET Combatants
      BY <1>0 DEF CombatType, FirstOf
    <3> QED BY <1>3, <3>1, <3>2 DEF BeginCombat
  <2> QED BY <1>0, <2>1, StartTurnType, StartTurnOrder, WriteSameOrder
<1>4. ASSUME NEW c \in Combatants, NEW total \in 1..MaxInitiative, SubmitInitiative(c, total)
      PROVE  combat' \in InLine
  <2> DEFINE x == [combat EXCEPT !.initiative =
                     [d \in Combatants |-> IF d \in RollGroup(c) THEN total ELSE @[d]]]
  <2>1. x \in CombatType
    BY <1>0, BoundsAssumption DEF CombatType
  <2>2. x.place = combat.place /\ x.fighters = combat.fighters
    BY <1>0 DEF CombatType
  <2>3. Write({Ordered(x)})
    BY <1>4 DEF SubmitInitiative
  <2> HIDE DEF x
  <2>4. Placed(x)
    BY <2>2 DEF Placed, InLine, Lined
  <2>5. Ordered(x) \in InLine
    BY <2>1, <2>4, OrderedType, OrderedLined DEF InLine
  <2> QED BY <2>3, <2>5, WriteInLine
<1>5. ASSUME NEW T \in SUBSET Combatants, SetInitiativeOrder(T)
      PROVE  combat' \in InLine
  <2>1. PICK place \in [T -> {combat.place[c] : c \in T}] :
           /\ \A a, b \in T : place[a] = place[b] => a = b
           /\ Write({[combat EXCEPT !.place =
                [c \in Combatants |-> IF c \in T THEN place[c] ELSE @[c]]]})
    BY <1>5 DEF SetInitiativeOrder
  <2> DEFINE new == [c \in Combatants |-> IF c \in T THEN place[c] ELSE combat.place[c]]
             x == [combat EXCEPT !.place = new]
  <2>2. T \subseteq combat.fighters /\ \A a, b \in T : combat.initiative[a] = combat.initiative[b]
    BY <1>5 DEF SetInitiativeOrder, SameTie
  <2>3. \A a \in T : \E t \in T : new[a] = combat.place[t]
    OBVIOUS
  <2>4. \A a \in combat.fighters \ T : new[a] = combat.place[a]
    BY <1>0 DEF CombatType
  <2>5. x \in CombatType /\ x.fighters = combat.fighters /\ x.initiative = combat.initiative
        /\ x.place = new
    BY <1>0 DEF CombatType
  <2>6. \A a, b \in T : new[a] = new[b] => a = b
    BY <2>1
  <2> HIDE DEF new, x
  <2> DEFINE n == Cardinality(combat.fighters)
  <2> HIDE DEF n
  <2>0. \A a \in combat.fighters : combat.place[a] < n
    BY DEF InLine, Lined, n
  <2>7. \A a \in combat.fighters : new[a] < n
    <3> TAKE a \in combat.fighters
    <3>1. \E t \in combat.fighters : new[a] = combat.place[t]
      BY <2>2, <2>3, <2>4
    <3> QED BY <2>0, <3>1
  <2>8. \A a, b \in combat.fighters : a # b => new[a] # new[b]
    <3> SUFFICES ASSUME NEW a \in combat.fighters, NEW b \in combat.fighters, a # b
                 PROVE  new[a] # new[b]
      OBVIOUS
    <3>1. \A s, t \in combat.fighters : s # t => combat.place[s] # combat.place[t]
      BY DEF InLine, Lined
    <3>2. CASE a \in T /\ b \in T
      BY <2>6, <3>2
    <3>3. CASE a \in T /\ b \notin T
      <4>1. PICK t \in T : new[a] = combat.place[t]
        BY <2>3, <3>3
      <4> QED BY <2>2, <2>4, <3>1, <3>3, <4>1
    <3>4. CASE a \notin T /\ b \in T
      <4>1. PICK t \in T : new[b] = combat.place[t]
        BY <2>3, <3>4
      <4> QED BY <2>2, <2>4, <3>1, <3>4, <4>1
    <3>5. CASE a \notin T /\ b \notin T
      BY <2>4, <3>1, <3>5
    <3> QED BY <3>2, <3>3, <3>4, <3>5
  <2>9. ASSUME NEW a \in combat.fighters, NEW b \in combat.fighters,
               combat.initiative[a] > combat.initiative[b]
        PROVE  new[a] < new[b]
    <3>1. PICK s \in combat.fighters :
             combat.initiative[s] = combat.initiative[a] /\ new[a] = combat.place[s]
      BY <2>2, <2>3, <2>4
    <3>2. PICK t \in combat.fighters :
             combat.initiative[t] = combat.initiative[b] /\ new[b] = combat.place[t]
      BY <2>2, <2>3, <2>4
    <3> QED BY <2>9, <3>1, <3>2 DEF InLine, Lined
  <2>10. x \in InLine
    BY <2>5, <2>7, <2>8, <2>9 DEF InLine, Lined, n
  <2> QED BY <2>1, <2>10, WriteInLine DEF x, new
<1> QED BY <1>1, <1>2, <1>3, <1>4, <1>5 DEF Setup

(* Parts that end, turns that start again and saves keep the line.         *)
LEMMA TurnsInLine ==
  ASSUME combat \in InLine, Turns
  PROVE  combat' \in InLine
<1>0. combat \in CombatType
  BY DEF InLine
<1>1. ASSUME NEW c \in Combatants, NEW drop \in BOOLEAN, EndTurn(c, drop)
      PROVE  combat' \in InLine
  <2>1. PICK saves \in SUBSET {<<c, "end">>} :
           Write(PassTheTurn(PartEnded(c, PendingOf(c), saves), c))
    BY <1>1 DEF EndTurn
  <2> DEFINE x == PartEnded(c, PendingOf(c), saves)
  <2>2. x \in CombatType
    BY <1>0, PartEndedType
  <2>3. SameOrder(combat, x)
    BY <1>0 DEF PartEnded, SameOrder, CombatType
  <2> HIDE DEF x
  <2>4. \A y \in PassTheTurn(x, c) : y \in CombatType /\ SameOrder(combat, y)
    BY <1>0, <2>2, <2>3, PassTheTurnOrder DEF SameOrder
  <2> QED BY <2>1, <2>4, WriteSameOrder DEF x
<1>2. CASE RestartTurns
  <2> DEFINE x == [combat EXCEPT !.had = {}, !.owed = Living(combat)]
             ids == Highest(combat, Living(combat))
  <2>1. x \in CombatType /\ ids \in SUBSET Combatants /\ combat.round \in Nat
    BY <1>0 DEF CombatType, Living, Highest
  <2>2. SameOrder(combat, x)
    BY <1>0 DEF SameOrder, CombatType
  <2>3. Write(StartTurn(x, ids, combat.round))
    BY <1>2 DEF RestartTurns
  <2> HIDE DEF x, ids
  <2>4. \A y \in StartTurn(x, ids, combat.round) : y \in CombatType /\ SameOrder(x, y)
    BY <2>1, StartTurnType, StartTurnOrder
  <2>5. \A y \in StartTurn(x, ids, combat.round) : SameOrder(combat, y)
    BY <2>2, <2>4 DEF SameOrder
  <2> QED BY <2>3, <2>4, <2>5, WriteSameOrder
<1>3. ASSUME NEW w \in combat.saves, RollEffectSave(w)
      PROVE  combat' \in InLine
  <2>1. /\ [combat EXCEPT !.saves = @ \ {w}] \in CombatType
        /\ SameOrder(combat, [combat EXCEPT !.saves = @ \ {w}])
    BY <1>0 DEF SameOrder, CombatType
  <2> QED BY <1>3, <2>1, WriteSameOrder DEF RollEffectSave
<1> QED BY <1>1, <1>2, <1>3 DEF Turns

(* Hits and damage keep the line.                                          *)
LEMMA HitsInLine ==
  ASSUME combat \in InLine, Hits
  PROVE  combat' \in InLine
<1>0. combat \in CombatType
  BY DEF InLine
<1>1. ASSUME NEW a \in Combatants, NEW t \in Combatants, NEW asks \in BOOLEAN, RollAttack(a, t, asks)
      PROVE  combat' \in InLine
  <2> DEFINE x == [combat EXCEPT !.damage = @ \cup {<<a, t>>},
                                 !.asks = IF asks THEN @ \cup {<<a, t>>} ELSE @]
  <2>1. x \in CombatType
    BY <1>0, AttackType
  <2>2. SameOrder(combat, x)
    BY <1>0 DEF SameOrder, CombatType
  <2> QED BY <1>1, <2>1, <2>2, WriteSameOrder DEF RollAttack
<1>2. ASSUME NEW d \in combat.asks, NEW miss \in BOOLEAN, AnswerReaction(d, miss)
      PROVE  combat' \in InLine
  <2> DEFINE x == [combat EXCEPT !.asks = @ \ {d}, !.damage = IF miss THEN @ \ {d} ELSE @]
  <2>1. x \in CombatType /\ SameOrder(combat, x)
    BY <1>0 DEF SameOrder, CombatType
  <2> QED BY <1>2, <2>1, WriteSameOrder DEF AnswerReaction
<1>3. ASSUME NEW d \in combat.damage, NEW down \in BOOLEAN, LandDamage(d, down)
      PROVE  combat' \in InLine
  <2>1. PICK asked \in DamageAsks(d[2]) : Write({Landed(d, down, asked)})
    BY <1>3 DEF LandDamage
  <2> DEFINE x == Landed(d, down, asked)
  <2>2. x \in CombatType /\ SameOrder(combat, x)
    BY <1>0, LandedFields DEF SameOrder
  <2> QED BY <2>1, <2>2, WriteSameOrder
<1>4. ASSUME NEW d \in combat.damage, DiscardPendingDamage(d)
      PROVE  combat' \in InLine
  <2>1. /\ [combat EXCEPT !.damage = @ \ {d}] \in CombatType
        /\ SameOrder(combat, [combat EXCEPT !.damage = @ \ {d}])
    BY <1>0 DEF SameOrder, CombatType
  <2> QED BY <1>4, <2>1, WriteSameOrder DEF DiscardPendingDamage
<1> QED BY <1>1, <1>2, <1>3, <1>4 DEF Hits

(* Falling, dying, coming back and leaving keep the line.                  *)
LEMMA LeavingInLine ==
  ASSUME combat \in InLine, Leaving
  PROVE  combat' \in InLine
<1>0. combat \in CombatType
  BY DEF InLine
<1>1. ASSUME NEW c \in Combatants, NEW down \in BOOLEAN, AdjustHitPoints(c, down)
      PROVE  combat' \in InLine
  <2>1. \A asked : /\ EffectsEnd(Defeat(combat, {c}), asked) \in CombatType
                   /\ SameOrder(combat, EffectsEnd(Defeat(combat, {c}), asked))
    BY <1>0, FallOrder
  <2>2. /\ [combat EXCEPT !.defeated = @ \ {c}] \in CombatType
        /\ SameOrder(combat, [combat EXCEPT !.defeated = @ \ {c}])
    BY <1>0 DEF SameOrder, CombatType
  <2> QED BY <1>1, <2>1, <2>2, WriteSameOrder DEF AdjustHitPoints
<1>2. ASSUME NEW p \in Players, ConfirmDeath(p)
      PROVE  combat' \in InLine
  <2>1. PICK asked : Write(LeaveTurn(EffectsEnd(Defeat(combat, {p}), asked), combat, p))
    BY <1>2 DEF ConfirmDeath
  <2> DEFINE x == EffectsEnd(Defeat(combat, {p}), asked)
  <2>2. p \in Combatants
    BY DEF Combatants
  <2>3. x \in CombatType /\ SameOrder(combat, x)
    BY <1>0, <2>2, FallOrder
  <2> HIDE DEF x
  <2>4. \A y \in LeaveTurn(x, combat, p) : y \in CombatType /\ SameOrder(x, y)
    BY <1>0, <2>2, <2>3, LeaveTurnType, LeaveTurnOrder
  <2>5. \A y \in LeaveTurn(x, combat, p) : SameOrder(combat, y)
    BY <2>3, <2>4 DEF SameOrder
  <2> QED BY <2>1, <2>4, <2>5, WriteSameOrder DEF x
<1>3. ASSUME NEW p \in Players, ReviveInCombat(p)
      PROVE  combat' \in InLine
  <2>1. combat' \in CombatType
    BY <1>0, <1>3 DEF ReviveInCombat, CombatType, TurnState
  <2>2. SameOrder(combat, combat')
    BY <1>0, <1>3 DEF ReviveInCombat, SameOrder, CombatType
  <2> QED BY <2>1, <2>2, SameOrderInLine
<1>4. ASSUME NEW c \in Combatants, RemoveCombatant(c)
      PROVE  combat' \in InLine
  <2>1. Leavers(c) \in SUBSET Combatants
    BY DEF Leavers, Combatants
  <2>2. ASSUME NEW asked
        PROVE  \A x \in LeaveTurn(EffectsEnd(combat, asked), combat, c) : x \in InLine
    <3> DEFINE y == EffectsEnd(combat, asked)
    <3>1. y \in CombatType /\ SameOrder(combat, y)
      BY <1>0, EffectsEndFields DEF SameOrder
    <3> HIDE DEF y
    <3>2. y \in InLine
      BY <3>1, SameOrderInLine
    <3>3. \A x \in LeaveTurn(y, combat, c) : x \in InLine
      BY <1>0, <3>1, <3>2, LeaveTurnType, LeaveTurnOrder, SameOrderInLine
    <3> QED BY <3>3 DEF y
  <2>3. \A asked : {Without(x, Leavers(c)) : x \in LeaveTurn(EffectsEnd(combat, asked), combat, c)} \subseteq InLine
    BY <2>1, <2>2, WithoutInLine
  <2> QED BY <1>4, <2>3, WriteInLine DEF RemoveCombatant
<1>5. CASE EndEncounter
  <2>1. combat' \in CombatType
    BY <1>0, <1>5 DEF EndEncounter, CombatType, Status
  <2>2. SameOrder(combat, combat')
    BY <1>0, <1>5 DEF EndEncounter, SameOrder, CombatType
  <2> QED BY <2>1, <2>2, SameOrderInLine
<1> QED BY <1>1, <1>2, <1>3, <1>4, <1>5 DEF Leaving

(* The strengthening is inductive.                                         *)
LEMMA NextInLine ==
  ASSUME combat \in InLine, [Next]_combat
  PROVE  combat' \in InLine
<1>1. CASE UNCHANGED combat
  BY <1>1
<1> QED BY <1>1, SetupInLine, TurnsInLine, HitsInLine, LeavingInLine DEF Next

(* A combat in line from the first state on.                               *)
LEMMA AlwaysInLine == Spec => [](combat \in InLine)
<1>1. Init => combat \in InLine
  <2>1. Empty \in CombatType /\ Empty.fighters = {}
    BY EmptyType DEF Empty
  <2> QED BY <2>1 DEF Init, InLine, Lined
<1>2. combat \in InLine /\ [Next]_combat => (combat \in InLine)'
  BY NextInLine
<1> QED BY <1>1, <1>2, PTL DEF Spec

(* Through every roll, tie, reinforcement and removal the stored order is a*)
(* line in which the totals go down, so a group is a run of it.            *)
THEOREM OrderIsALine == Spec => []GroupsAreRuns
<1>1. combat \in InLine => GroupsAreRuns
  BY DEF InLine, Lined, GroupsAreRuns
<1> QED BY <1>1, AlwaysInLine, PTL
=============================================================================
