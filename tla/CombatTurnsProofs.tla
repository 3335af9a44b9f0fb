-------------------------- MODULE CombatTurnsProofs --------------------------
(* Theorems about CombatTurns, for every set of combatants, every bonus and *)
(* every bound.                                                             *)
EXTENDS CombatTurns, FiniteSetTheorems, TLAPS

(* The combatants are a finite set, so a place (a count of them) is a      *)
(* number.                                                                 *)
LEMMA CombatantsFinite == IsFiniteSet(Combatants)
  BY CombatantsAssumption, FS_Union DEF Combatants

(* The place of a fighter, the count of those before it, is a number.      *)
LEMMA PlacesAreNumbers ==
  ASSUME NEW S \in SUBSET Combatants
  PROVE  Cardinality(S) \in Nat
  BY CombatantsFinite, FS_Subset, FS_CardinalityType

(* The order is a place for everybody: saveOrder keeps the type.           *)
LEMMA OrderedType ==
  ASSUME NEW x \in CombatType
  PROVE  Ordered(x) \in CombatType
<1> DEFINE place == [c \in Combatants |->
              IF c \in x.fighters
              THEN Cardinality({o \in x.fighters : Precedes(x, o, c)}) ELSE 0]
<1>1. x.fighters \subseteq Combatants
  BY DEF CombatType
<1>2. place \in [Combatants -> Nat]
  <2>1. ASSUME NEW c \in Combatants
        PROVE  Cardinality({o \in x.fighters : Precedes(x, o, c)}) \in Nat
    <3>1. {o \in x.fighters : Precedes(x, o, c)} \in SUBSET Combatants
      BY <1>1
    <3> QED BY <3>1, PlacesAreNumbers
  <2> QED BY <2>1
<1> HIDE DEF place
<1>3. [x EXCEPT !.place = place] \in CombatType
  BY <1>2 DEF CombatType
<1> QED BY <1>3 DEF Ordered, place

(* The history of a turn that starts keeps the type.                       *)
LEMMA RecordedType ==
  ASSUME NEW x \in CombatType, NEW ids \in SUBSET Combatants, NEW r \in Nat
  PROVE  Recorded(x, ids, r) \in CombatType
  BY DEF Recorded, CombatType, Living

(* Bringing somebody down keeps the type.                                  *)
LEMMA DefeatType ==
  ASSUME NEW x \in CombatType, NEW S \in SUBSET Combatants
  PROVE  Defeat(x, S) \in CombatType
  BY DEF Defeat, CombatType

(* Effects that end close saving throws and nothing else.                  *)
LEMMA EffectsEndType ==
  ASSUME NEW x \in CombatType, NEW asked
  PROVE  EffectsEnd(x, asked) \in CombatType
BY DEF EffectsEnd, CombatType

(* The end of an effect closes saving throws, and nothing more.            *)
LEMMA EffectsEndFields ==
  ASSUME NEW x \in CombatType, NEW asked, NEW y, y = EffectsEnd(x, asked)
  PROVE  /\ y \in CombatType /\ y.saves \subseteq x.saves
         /\ y.status = x.status /\ y.round = x.round /\ y.fighters = x.fighters
         /\ y.initiative = x.initiative /\ y.place = x.place /\ y.turn = x.turn
         /\ y.defeated = x.defeated /\ y.current = x.current
         /\ y.damage = x.damage /\ y.asks = x.asks
         /\ y.owed = x.owed /\ y.had = x.had
         /\ y.skipped = x.skipped /\ y.repeated = x.repeated
<1>1. y \in CombatType
  BY EffectsEndType
<1> QED BY <1>1 DEF EffectsEnd, CombatType

(* A turn that starts, whoever it brings down and whatever saves it asks.  *)
LEMMA StartTurnType ==
  ASSUME NEW x \in CombatType, NEW ids \in SUBSET Combatants, NEW r \in Nat,
         NEW y \in StartTurn(x, ids, r)
  PROVE  y \in CombatType
<1>1. PICK struck \in MayFall(x, ids), asked \in MayAsk(x, ids), first \in FirstOf(x, ids) :
        y = Started(x, ids, r, struck, asked, first)
  BY DEF StartTurn
<1> DEFINE z == Defeat(Recorded(x, ids, r), struck)
<1>2. struck \in SUBSET Combatants
  BY DEF MayFall, Members, CombatType
<1>3. z \in CombatType
  BY <1>2, RecordedType, DefeatType
<1>4. asked \in SUBSET (Combatants \X Phases)
  <2>1. NPCs \subseteq Combatants
    BY DEF Combatants
  <2>2. asked \subseteq (Combatants \X {"start"}) \cup (Combatants \X {"damage"})
    BY <2>1 DEF MayAsk
  <2> QED BY <2>2 DEF Phases
<1>5. first \in Combatants
  BY DEF FirstOf
<1> HIDE DEF z
<1>6. [z EXCEPT !.status = "active", !.round = r,
               !.turn = [c \in Combatants |-> IF c \in ids THEN "acting" ELSE "idle"],
               !.saves = @ \cup asked, !.current = first] \in CombatType
  BY <1>3, <1>4, <1>5 DEF CombatType, Status, TurnState
<1> QED BY <1>1, <1>6 DEF z, Started

(* The next group is made of combatants.                                   *)
LEMMA NextGroupType ==
  ASSUME NEW x \in CombatType, NEW from, NEW leaver
  PROVE  NextGroup(x, from, leaver) \in SUBSET Combatants
  BY DEF NextGroup, Highest, Below, Living, CombatType

(* Nobody is in the group that takes the turn but the living.              *)
LEMMA NextGroupLives ==
  ASSUME NEW x, NEW from, NEW leaver
  PROVE  NextGroup(x, from, leaver) \subseteq Living(x) \ leaver
  BY DEF NextGroup, Highest, Below

(* The round of the next turn is a number.                                 *)
LEMMA NextRoundType ==
  ASSUME NEW x \in CombatType, NEW seen, NEW from, NEW leaver
  PROVE  NextRound(x, seen, from, leaver) \in Nat
  BY DEF NextRound, CombatType

(* Who leaves leaves the turn to the others, to nobody, or to a turn that  *)
(* starts.                                                                 *)
LEMMA LeaveTurnType ==
  ASSUME NEW x \in CombatType, NEW seen \in CombatType, NEW who \in Combatants,
         NEW y \in LeaveTurn(x, seen, who)
  PROVE  y \in CombatType
<1>1. CASE y = x
  BY <1>1
<1>2. CASE \E c \in FirstOf(seen, OthersActing(seen, who)) : y = [x EXCEPT !.current = c]
  <2>1. PICK c \in Combatants : y = [x EXCEPT !.current = c]
    BY <1>2 DEF FirstOf, OthersActing, Acting, CombatType
  <2> QED BY <2>1 DEF CombatType
<1>3. CASE y = [x EXCEPT !.turn = [c \in Combatants |-> "idle"], !.current = Nobody]
  BY <1>3 DEF CombatType, TurnState
<1>4. CASE y \in StartTurn(x, NextGroup(seen, who, {who}), NextRound(x, seen, who, {who}))
  BY <1>4, NextGroupType, NextRoundType, StartTurnType
<1> QED BY <1>1, <1>2, <1>3, <1>4 DEF LeaveTurn

(* The settling of every change.                                           *)
LEMMA ClosedType ==
  ASSUME NEW x \in CombatType
  PROVE  Closed(x) \in CombatType
  BY DEF Closed, CombatType

(* Settling a change keeps the type.                                       *)
LEMMA SettleType ==
  ASSUME NEW x \in CombatType, NEW y \in Settle(x)
  PROVE  y \in CombatType
<1> DEFINE z == Closed(x)
<1>1. z \in CombatType
  BY ClosedType
<1>2. CASE y = x \/ y = z
  BY <1>1, <1>2
<1>3. CASE \E m \in FirstOf(z, Members(z)) :
              y \in StartTurn(z, NextGroup(z, m, {}), NextRound(z, z, m, {}))
  BY <1>1, <1>3, NextGroupType, NextRoundType, StartTurnType
<1> QED BY <1>2, <1>3 DEF Settle, ReleaseHeldTurn

(* A call whose records have the type leaves a combat that has it.         *)
LEMMA WriteType ==
  ASSUME NEW S, S \subseteq CombatType, Write(S)
  PROVE  TypeOK'
  BY SettleType DEF Write, TypeOK

(* Joining keeps the type, in any order and with any rolls.                *)
LEMMA JoinedType ==
  ASSUME NEW x \in CombatType, NEW S \in SUBSET Combatants, NEW y \in Joined(x, S)
  PROVE  y \in CombatType
<1>1. PICK seat \in Seats(S), total \in [S \cap NPCs -> 1..MaxInitiative] :
        y = Seated(x, S, seat, total)
  BY DEF Joined
<1> seat \in [S -> 1..Cardinality(S)]
  BY DEF Seats
<1>2. Cardinality(x.fighters) \in Nat /\ Cardinality(S) \in Nat
  BY PlacesAreNumbers DEF CombatType
<1>3. [c \in Combatants |-> IF c \in S THEN Cardinality(x.fighters) + seat[c] ELSE x.place[c]]
        \in [Combatants -> Nat]
  BY <1>2 DEF CombatType
<1>4. [c \in Combatants |-> IF c \in S \cap NPCs THEN total[c] ELSE x.initiative[c]]
        \in [Combatants -> 0..MaxInitiative]
  BY BoundsAssumption DEF CombatType
<1> DEFINE z == [x EXCEPT !.fighters = @ \cup S,
          !.place = [c \in Combatants |-> IF c \in S THEN Cardinality(x.fighters) + seat[c] ELSE @[c]],
          !.initiative = [c \in Combatants |-> IF c \in S \cap NPCs THEN total[c] ELSE @[c]]]
<1>5. z \in CombatType
  BY <1>3, <1>4 DEF CombatType
<1> QED BY <1>1, <1>5, OrderedType DEF Seated

(* Rows that go keep the type.                                             *)
LEMMA WithoutType ==
  ASSUME NEW x \in CombatType, NEW S \in SUBSET Combatants
  PROVE  Without(x, S) \in CombatType
<1> DEFINE z == [x EXCEPT !.fighters = @ \ S, !.defeated = @ \ S,
        !.saves = {w \in @ : w[1] \notin S},
        !.turn = [c \in Combatants |-> IF c \in S THEN "idle" ELSE @[c]],
        !.initiative = [c \in Combatants |-> IF c \in S THEN 0 ELSE @[c]],
        !.damage = {d \in @ : {d[1], d[2]} \cap S = {}},
        !.asks = {d \in @ : {d[1], d[2]} \cap S = {}},
        !.owed = @ \ S, !.had = @ \ S]
<1>1. z.turn \in [Combatants -> TurnState]
  BY DEF CombatType, TurnState
<1>2. z.initiative \in [Combatants -> 0..MaxInitiative]
  BY BoundsAssumption DEF CombatType
<1>3. /\ z.saves \subseteq x.saves /\ z.damage \subseteq x.damage /\ z.asks \subseteq x.asks
      /\ z.fighters \subseteq x.fighters /\ z.defeated \subseteq x.defeated
      /\ z.owed \subseteq x.owed /\ z.had \subseteq x.had
  BY DEF CombatType
<1>4. z \in CombatType
  BY <1>1, <1>2, <1>3 DEF CombatType
<1> QED BY <1>4, OrderedType DEF Without

------------------------------------------------------------------------------
(* Type correctness: whatever sequence of calls, over any set of           *)
(* combatants, every field of the record stays in its range.               *)

(* A session with no combat has the type.                                  *)
LEMMA EmptyType == Empty \in CombatType
  BY BoundsAssumption DEF Empty, CombatType, Status, TurnState

(* Setting the combat up keeps the type.                                   *)
LEMMA SetupType ==
  ASSUME TypeOK, Setup
  PROVE  TypeOK'
<1>1. CASE StartEncounter
  <2>1. PICK S \in SUBSET Combatants : Write(Joined([Empty EXCEPT !.status = "setup"], S))
    BY <1>1 DEF StartEncounter
  <2>2. [Empty EXCEPT !.status = "setup"] \in CombatType
    BY EmptyType DEF CombatType, Status
  <2> QED BY <2>1, <2>2, JoinedType, WriteType
<1>2. CASE AddCombatants
  <2>1. PICK S \in SUBSET Combatants : Write(Joined(combat, S))
    BY <1>2 DEF AddCombatants
  <2> QED BY <2>1, JoinedType, WriteType DEF TypeOK
<1>3. CASE BeginCombat
  <2>1. PICK groups \in SUBSET SUBSET Combatants :
           Write(UNION {StartTurn(combat, ids, 1) : ids \in groups})
    <3>1. Highest(combat, Living(combat)) \in SUBSET Combatants
      BY DEF TypeOK, CombatType, Highest, Living
    <3>2. FirstOf(combat, combat.fighters) \in SUBSET Combatants
      BY DEF TypeOK, CombatType, FirstOf
    <3> QED BY <1>3, <3>1, <3>2 DEF BeginCombat
  <2> QED BY <2>1, StartTurnType, WriteType DEF TypeOK
<1>4. ASSUME NEW c \in Combatants, NEW total \in 1..MaxInitiative, SubmitInitiative(c, total)
      PROVE  TypeOK'
  <2> DEFINE x == [combat EXCEPT !.initiative =
                     [d \in Combatants |-> IF d \in RollGroup(c) THEN total ELSE @[d]]]
  <2>1. x \in CombatType
    BY BoundsAssumption DEF TypeOK, CombatType
  <2> QED BY <1>4, <2>1, OrderedType, WriteType DEF SubmitInitiative
<1>5. ASSUME NEW T \in SUBSET Combatants, SetInitiativeOrder(T)
      PROVE  TypeOK'
  <2>1. PICK place \in [T -> {combat.place[c] : c \in T}] :
           Write({[combat EXCEPT !.place =
                [c \in Combatants |-> IF c \in T THEN place[c] ELSE @[c]]]})
    BY <1>5 DEF SetInitiativeOrder
  <2>2. [combat EXCEPT !.place = [c \in Combatants |-> IF c \in T THEN place[c] ELSE @[c]]] \in CombatType
    BY DEF TypeOK, CombatType
  <2> QED BY <2>1, <2>2, WriteType
<1> QED BY <1>1, <1>2, <1>3, <1>4, <1>5 DEF Setup

(* Ending parts, restarting and saving throws keep the type.               *)
LEMMA TurnsType ==
  ASSUME TypeOK, Turns
  PROVE  TypeOK'
<1>1. ASSUME NEW c \in Combatants, NEW drop \in BOOLEAN, EndTurn(c, drop)
      PROVE  TypeOK'
  <2>1. PICK saves \in SUBSET {<<c, "end">>} :
           Write(PassTheTurn(PartEnded(c, PendingOf(c), saves), c))
    BY <1>1 DEF EndTurn
  <2> DEFINE x == PartEnded(c, PendingOf(c), saves)
  <2>2. x \in CombatType
    <3>1. {<<c, "end">>} \subseteq Combatants \X Phases
      BY DEF Phases
    <3>2. combat.saves \cup saves \in SUBSET (Combatants \X Phases)
      BY <3>1 DEF TypeOK, CombatType
    <3> QED BY <3>2 DEF PartEnded, TypeOK, CombatType, TurnState
  <2> HIDE DEF x
  <2>3. ASSUME NEW y \in PassTheTurn(x, c)
        PROVE  y \in CombatType
    <3>1. CASE y = x
      BY <2>2, <3>1
    <3>2. CASE \E o \in FirstOf(x, OthersActing(combat, c)) : y = [x EXCEPT !.current = o]
      <4>1. PICK o \in Combatants : y = [x EXCEPT !.current = o]
        BY <3>2 DEF FirstOf, OthersActing, Acting, TypeOK, CombatType
      <4> QED BY <2>2, <4>1 DEF CombatType
    <3>3. CASE y \in StartTurn(x, NextGroup(x, c, {}), NextRound(x, x, c, {}))
      BY <2>2, <3>3, NextGroupType, NextRoundType, StartTurnType
    <3> QED BY <3>1, <3>2, <3>3 DEF PassTheTurn
  <2> QED BY <2>1, <2>3, WriteType DEF x
<1>2. CASE RestartTurns
  <2> DEFINE x == [combat EXCEPT !.had = {}, !.owed = Living(combat)]
             ids == Highest(combat, Living(combat))
  <2>1. x \in CombatType /\ ids \in SUBSET Combatants /\ combat.round \in Nat
    BY DEF TypeOK, CombatType, Living, Highest
  <2>2. Write(StartTurn(x, ids, combat.round))
    BY <1>2 DEF RestartTurns
  <2> HIDE DEF x, ids
  <2> QED BY <2>1, <2>2, StartTurnType, WriteType
<1>3. ASSUME NEW w \in combat.saves, RollEffectSave(w)
      PROVE  TypeOK'
  <2>1. [combat EXCEPT !.saves = @ \ {w}] \in CombatType
    BY DEF TypeOK, CombatType
  <2> QED BY <1>3, <2>1, WriteType DEF RollEffectSave
<1> QED BY <1>1, <1>2, <1>3 DEF Turns

(* Damage asks a save, if any, only of who was hurt and owes one.          *)
LEMMA DamageAsksOf ==
  ASSUME NEW c \in Combatants, NEW asked \in DamageAsks(c)
  PROVE  /\ asked \subseteq {<<c, "damage">>} /\ asked \in SUBSET (Combatants \X Phases)
         /\ asked # {} => c \notin Creatures
<1>1. asked \subseteq {<<c, "damage">>} /\ (asked # {} => c \notin Creatures)
  BY DEF DamageAsks
<1>2. <<c, "damage">> \in Combatants \X Phases
  BY DEF Phases
<1> QED BY <1>1, <1>2

(* What a damage that lands changes: it goes, its target may fall and may  *)
(* be asked a save.                                                        *)
LEMMA LandedFields ==
  ASSUME combat \in CombatType, NEW d \in combat.damage, NEW down \in BOOLEAN,
         NEW asked \in DamageAsks(d[2]), NEW y, y = Landed(d, down, asked)
  PROVE  /\ y \in CombatType /\ d[2] \in Combatants
         /\ y.status = combat.status /\ y.round = combat.round /\ y.fighters = combat.fighters
         /\ y.initiative = combat.initiative /\ y.place = combat.place /\ y.turn = combat.turn
         /\ y.current = combat.current /\ y.asks = combat.asks /\ y.damage = combat.damage \ {d}
         /\ y.saves = combat.saves \cup asked
         /\ y.defeated = combat.defeated \cup (IF down THEN {d[2]} ELSE {})
         /\ y.owed = combat.owed \ (IF down THEN {d[2]} ELSE {}) /\ y.had = combat.had
         /\ y.skipped = combat.skipped /\ y.repeated = combat.repeated
<1> DEFINE S == IF down THEN {d[2]} ELSE {}
           x == Defeat(combat, S)
<1>1. d[2] \in Combatants /\ S \in SUBSET Combatants
  BY DEF CombatType
<1>2. x \in CombatType
  BY <1>1, DefeatType
<1>3. asked \in SUBSET (Combatants \X Phases)
  BY <1>1, DamageAsksOf
<1>4. y = [x EXCEPT !.damage = @ \ {d}, !.saves = @ \cup asked]
  BY DEF Landed
<1> HIDE DEF x
<1>5. y \in CombatType
  <2> DEFINE z == [x EXCEPT !.damage = @ \ {d}]
  <2>1. z \in CombatType
    BY <1>2 DEF CombatType
  <2>2. y = [z EXCEPT !.saves = @ \cup asked]
    BY <1>2, <1>4 DEF CombatType
  <2> HIDE DEF z
  <2> QED BY <1>3, <2>1, <2>2 DEF CombatType
<1> HIDE DEF S
<1>6. /\ x.status = combat.status /\ x.round = combat.round /\ x.fighters = combat.fighters
      /\ x.initiative = combat.initiative /\ x.place = combat.place /\ x.turn = combat.turn
      /\ x.current = combat.current /\ x.asks = combat.asks /\ x.damage = combat.damage
      /\ x.saves = combat.saves /\ x.defeated = combat.defeated \cup S
      /\ x.owed = combat.owed \ S /\ x.had = combat.had
      /\ x.skipped = combat.skipped /\ x.repeated = combat.repeated
  BY DEF x, Defeat, CombatType
<1>7. /\ y.status = x.status /\ y.round = x.round /\ y.fighters = x.fighters
      /\ y.initiative = x.initiative /\ y.place = x.place /\ y.turn = x.turn
      /\ y.current = x.current /\ y.asks = x.asks /\ y.damage = x.damage \ {d}
      /\ y.saves = x.saves \cup asked /\ y.defeated = x.defeated
      /\ y.owed = x.owed /\ y.had = x.had
      /\ y.skipped = x.skipped /\ y.repeated = x.repeated
  BY <1>2, <1>4 DEF CombatType
<1>8. /\ y.damage = combat.damage \ {d} /\ y.saves = combat.saves \cup asked
      /\ y.defeated = combat.defeated \cup S /\ y.owed = combat.owed \ S
  BY <1>6, <1>7
<1> QED BY <1>1, <1>5, <1>6, <1>7, <1>8 DEF S

(* Hits and damage keep the type.                                          *)
LEMMA HitsType ==
  ASSUME TypeOK, Hits
  PROVE  TypeOK'
<1>1. ASSUME NEW a \in Combatants, NEW t \in Combatants, NEW asks \in BOOLEAN, RollAttack(a, t, asks)
      PROVE  TypeOK'
  <2>1. [combat EXCEPT !.damage = @ \cup {<<a, t>>},
                       !.asks = IF asks THEN @ \cup {<<a, t>>} ELSE @] \in CombatType
    <3>1. {<<a, t>>} \subseteq Combatants \X Combatants
      OBVIOUS
    <3>2. /\ combat.damage \cup {<<a, t>>} \in SUBSET (Combatants \X Combatants)
          /\ (IF asks THEN combat.asks \cup {<<a, t>>} ELSE combat.asks) \in SUBSET (Combatants \X Combatants)
      BY <3>1 DEF TypeOK, CombatType
    <3> QED BY <3>2 DEF TypeOK, CombatType
  <2> QED BY <1>1, <2>1, WriteType DEF RollAttack
<1>2. ASSUME NEW d \in combat.asks, NEW miss \in BOOLEAN, AnswerReaction(d, miss)
      PROVE  TypeOK'
  <2>1. [combat EXCEPT !.asks = @ \ {d}, !.damage = IF miss THEN @ \ {d} ELSE @] \in CombatType
    BY DEF TypeOK, CombatType
  <2> QED BY <1>2, <2>1, WriteType DEF AnswerReaction
<1>3. ASSUME NEW d \in combat.damage, NEW down \in BOOLEAN, LandDamage(d, down)
      PROVE  TypeOK'
  <2>1. PICK asked \in DamageAsks(d[2]) : Write({Landed(d, down, asked)})
    BY <1>3 DEF LandDamage
  <2>2. Landed(d, down, asked) \in CombatType
    BY LandedFields DEF TypeOK
  <2> QED BY <2>1, <2>2, WriteType
<1>4. ASSUME NEW d \in combat.damage, DiscardPendingDamage(d)
      PROVE  TypeOK'
  <2>1. [combat EXCEPT !.damage = @ \ {d}] \in CombatType
    BY DEF TypeOK, CombatType
  <2> QED BY <1>4, <2>1, WriteType DEF DiscardPendingDamage
<1> QED BY <1>1, <1>2, <1>3, <1>4 DEF Hits

(* Falling, dying, coming back and leaving keep the type.                  *)
LEMMA LeavingType ==
  ASSUME TypeOK, Leaving
  PROVE  TypeOK'
<1>1. ASSUME NEW c \in Combatants, NEW down \in BOOLEAN, AdjustHitPoints(c, down)
      PROVE  TypeOK'
  <2>1. \A asked : EffectsEnd(Defeat(combat, {c}), asked) \in CombatType
    BY DefeatType, EffectsEndType DEF TypeOK
  <2>2. [combat EXCEPT !.defeated = @ \ {c}] \in CombatType
    BY DEF TypeOK, CombatType
  <2> QED BY <1>1, <2>1, <2>2, WriteType DEF AdjustHitPoints
<1>2. ASSUME NEW p \in Players, ConfirmDeath(p)
      PROVE  TypeOK'
  <2>1. p \in Combatants
    BY DEF Combatants
  <2>2. \A asked : EffectsEnd(Defeat(combat, {p}), asked) \in CombatType
    BY <2>1, DefeatType, EffectsEndType DEF TypeOK
  <2> QED BY <1>2, <2>1, <2>2, LeaveTurnType, WriteType DEF ConfirmDeath, TypeOK
<1>3. ASSUME NEW p \in Players, ReviveInCombat(p)
      PROVE  TypeOK'
  BY <1>3 DEF ReviveInCombat, TypeOK, CombatType, TurnState
<1>4. ASSUME NEW c \in Combatants, RemoveCombatant(c)
      PROVE  TypeOK'
  <2>1. Leavers(c) \in SUBSET Combatants
    BY DEF Leavers, Combatants
  <2>2. \A asked : EffectsEnd(combat, asked) \in CombatType
    BY EffectsEndType DEF TypeOK
  <2> QED BY <1>4, <2>1, <2>2, LeaveTurnType, WithoutType, WriteType DEF RemoveCombatant, TypeOK
<1>5. CASE EndEncounter
  BY <1>5 DEF EndEncounter, TypeOK, CombatType, Status
<1> QED BY <1>1, <1>2, <1>3, <1>4, <1>5 DEF Leaving

(* The combat record keeps its type, whoever fights and whatever is called.*)
THEOREM TypeCorrect == Spec => []TypeOK
<1>1. Init => TypeOK
  BY EmptyType DEF Init, TypeOK
<1>2. TypeOK /\ [Next]_combat => TypeOK'
  <2>1. TypeOK /\ UNCHANGED combat => TypeOK'
    BY DEF TypeOK
  <2> QED BY <2>1, SetupType, TurnsType, HitsType, LeavingType DEF Next
<1> QED BY <1>1, <1>2, PTL DEF Spec

------------------------------------------------------------------------------
(* The joint turn.  That the members of a running turn share one total is  *)
(* not inductive by itself: a roll (SubmitInitiative) would break it if    *)
(* somebody were in a turn while the combat is set up, and a reinforcement *)
(* (whose total is rolled as it joins) if somebody outside the fight were. *)

GoodTurn(x) ==
    /\ x.status = "setup" => \A c \in Combatants : x.turn[c] = "idle"
    /\ \A c \in Combatants : x.turn[c] # "idle" => c \in x.fighters
    /\ \A a, b \in Combatants :
          x.turn[a] # "idle" /\ x.turn[b] # "idle" => x.initiative[a] = x.initiative[b]

Good == {x \in CombatType : GoodTurn(x)}

OneTotal(x, ids) == \A a, b \in ids : x.initiative[a] = x.initiative[b]

(* saveOrder moves places and nothing else.                                *)
LEMMA OrderedKeeps ==
  ASSUME NEW x \in CombatType
  PROVE  /\ Ordered(x).turn = x.turn /\ Ordered(x).fighters = x.fighters
         /\ Ordered(x).initiative = x.initiative /\ Ordered(x).status = x.status
  BY DEF Ordered, CombatType

(* saveOrder leaves a good turn good.                                      *)
LEMMA OrderedGood ==
  ASSUME NEW x \in Good
  PROVE  Ordered(x) \in Good
  BY OrderedType, OrderedKeeps DEF Good, GoodTurn

(* A turn that starts for fighters with one total is a joint turn, whatever*)
(* was left of the old one.                                                *)
LEMMA StartTurnGood ==
  ASSUME NEW x \in CombatType, NEW ids \in SUBSET x.fighters, OneTotal(x, ids),
         NEW r \in Nat, NEW y \in StartTurn(x, ids, r)
  PROVE  /\ y \in Good
         /\ y.fighters = x.fighters /\ y.initiative = x.initiative
<1>0. ids \in SUBSET Combatants
  BY DEF CombatType
<1>1. y \in CombatType
  BY <1>0, StartTurnType
<1>2. PICK struck, asked, first : y = Started(x, ids, r, struck, asked, first)
  BY DEF StartTurn
<1>3. /\ y.status = "active"
      /\ y.turn = [c \in Combatants |-> IF c \in ids THEN "acting" ELSE "idle"]
      /\ y.fighters = x.fighters /\ y.initiative = x.initiative
  BY <1>2 DEF Started, Defeat, Recorded, CombatType
<1> QED BY <1>0, <1>1, <1>3 DEF Good, GoodTurn, OneTotal

(* Those with the highest total have one total.                            *)
LEMMA HighestGood ==
  ASSUME NEW x \in CombatType, NEW S \in SUBSET x.fighters
  PROVE  Highest(x, S) \in SUBSET x.fighters /\ OneTotal(x, Highest(x, S))
  BY BoundsAssumption DEF Highest, OneTotal, CombatType

(* The next group has one total.                                           *)
LEMMA NextGroupGood ==
  ASSUME NEW x \in CombatType, NEW from, NEW leaver
  PROVE  NextGroup(x, from, leaver) \in SUBSET x.fighters /\ OneTotal(x, NextGroup(x, from, leaver))
<1>1. Living(x) \ leaver \in SUBSET x.fighters /\ Below(x, from, leaver) \in SUBSET x.fighters
  BY DEF Living, Below
<1> QED BY <1>1, HighestGood DEF NextGroup

(* Who leaves the turn changes neither who fights nor a total.             *)
LEMMA LeaveTurnGood ==
  ASSUME NEW x \in Good, NEW seen \in CombatType, NEW who \in Combatants,
         x.fighters = seen.fighters, x.initiative = seen.initiative,
         NEW y \in LeaveTurn(x, seen, who)
  PROVE  y \in Good
<1>0. y \in CombatType /\ x \in CombatType
  BY LeaveTurnType DEF Good
<1>1. CASE y = x
  BY <1>1
<1>2. CASE \E c \in FirstOf(seen, OthersActing(seen, who)) : y = [x EXCEPT !.current = c]
  <2>1. y.turn = x.turn /\ y.status = x.status /\ y.fighters = x.fighters /\ y.initiative = x.initiative
    BY <1>0, <1>2 DEF CombatType
  <2> QED BY <1>0, <2>1 DEF Good, GoodTurn
<1>3. CASE y = [x EXCEPT !.turn = [c \in Combatants |-> "idle"], !.current = Nobody]
  BY <1>0, <1>3 DEF Good, GoodTurn, CombatType
<1>4. CASE y \in StartTurn(x, NextGroup(seen, who, {who}), NextRound(x, seen, who, {who}))
  <2> DEFINE ids == NextGroup(seen, who, {who})
  <2>0. ids \in SUBSET seen.fighters /\ OneTotal(seen, ids)
    BY NextGroupGood
  <2> HIDE DEF ids
  <2>1. ids \in SUBSET x.fighters /\ OneTotal(x, ids)
    BY <2>0 DEF OneTotal
  <2> QED BY <1>0, <1>4, <2>1, NextRoundType, StartTurnGood DEF ids
<1> QED BY <1>1, <1>2, <1>3, <1>4 DEF LeaveTurn

(* Settling leaves a good turn good.                                       *)
LEMMA SettleGood ==
  ASSUME NEW x \in Good, NEW y \in Settle(x)
  PROVE  y \in Good
<1> DEFINE z == Closed(x)
<1>0. z \in CombatType /\ x \in CombatType
  BY ClosedType DEF Good
<1>1. z \in Good
  BY <1>0 DEF Closed, Good, GoodTurn, CombatType
<1>2. CASE y = x \/ y = z
  BY <1>1, <1>2
<1>3. CASE \E m \in FirstOf(z, Members(z)) :
              y \in StartTurn(z, NextGroup(z, m, {}), NextRound(z, z, m, {}))
  BY <1>0, <1>3, NextGroupGood, NextRoundType, StartTurnGood
<1> QED BY <1>2, <1>3 DEF Settle, ReleaseHeldTurn

(* A call whose records are good leaves a good combat.                     *)
LEMMA WriteGood ==
  ASSUME NEW S, S \subseteq Good, Write(S)
  PROVE  combat' \in Good
  BY SettleGood DEF Write

(* Rows that go leave a good turn good: nobody else's total moves.         *)
LEMMA WithoutGood ==
  ASSUME NEW x \in Good, NEW S \in SUBSET Combatants
  PROVE  Without(x, S) \in Good
<1>1. x \in CombatType /\ Without(x, S) \in CombatType
  BY WithoutType DEF Good
<1> DEFINE z == [x EXCEPT !.fighters = @ \ S, !.defeated = @ \ S,
        !.saves = {w \in @ : w[1] \notin S},
        !.turn = [c \in Combatants |-> IF c \in S THEN "idle" ELSE @[c]],
        !.initiative = [c \in Combatants |-> IF c \in S THEN 0 ELSE @[c]],
        !.damage = {d \in @ : {d[1], d[2]} \cap S = {}},
        !.asks = {d \in @ : {d[1], d[2]} \cap S = {}},
        !.owed = @ \ S, !.had = @ \ S]
<1>2. /\ z.turn = [c \in Combatants |-> IF c \in S THEN "idle" ELSE x.turn[c]]
      /\ z.fighters = x.fighters \ S /\ z.status = x.status
      /\ z.initiative = [c \in Combatants |-> IF c \in S THEN 0 ELSE x.initiative[c]]
  BY <1>1 DEF CombatType
<1>3. /\ Without(x, S).turn = z.turn /\ Without(x, S).fighters = z.fighters
      /\ Without(x, S).initiative = z.initiative /\ Without(x, S).status = z.status
  BY <1>1 DEF Without, Ordered, CombatType
<1> HIDE DEF z
<1> QED BY <1>1, <1>2, <1>3 DEF Good, GoodTurn

(* Who joins is out of the turn, so the turn stays good.                   *)
LEMMA JoinedGood ==
  ASSUME NEW x \in Good, NEW S \in SUBSET (Combatants \ x.fighters), NEW y \in Joined(x, S)
  PROVE  y \in Good
<1>1. x \in CombatType /\ y \in CombatType
  BY JoinedType DEF Good
<1>2. PICK seat, total : y = Seated(x, S, seat, total)
  BY DEF Joined
<1>3. /\ y.turn = x.turn /\ y.status = x.status /\ y.fighters = x.fighters \cup S
      /\ y.initiative = [c \in Combatants |-> IF c \in S \cap NPCs THEN total[c] ELSE x.initiative[c]]
  BY <1>1, <1>2 DEF Seated, Ordered, CombatType
<1> QED BY <1>1, <1>3 DEF Good, GoodTurn

(* An update that touches neither the marks, the totals, the fighters nor  *)
(* the status is good.                                                     *)
LEMMA SameTurnGood ==
  ASSUME NEW x \in Good, NEW y \in CombatType,
         y.turn = x.turn, y.status = x.status, y.fighters = x.fighters, y.initiative = x.initiative
  PROVE  y \in Good
  BY DEF Good, GoodTurn

(* Setting up and beginning leave a good turn.                             *)
LEMMA SetupGood ==
  ASSUME combat \in Good, Setup
  PROVE  combat' \in Good
<1>0. combat \in CombatType
  BY DEF Good
<1>1. CASE StartEncounter
  <2>1. PICK S \in SUBSET Combatants : Write(Joined([Empty EXCEPT !.status = "setup"], S))
    BY <1>1 DEF StartEncounter
  <2> DEFINE x == [Empty EXCEPT !.status = "setup"]
  <2>2. /\ x \in CombatType /\ x.fighters = {}
        /\ x.turn = [c \in Combatants |-> "idle"]
    BY EmptyType DEF Empty, CombatType, Status
  <2> HIDE DEF x
  <2>3. x \in Good
    BY <2>2 DEF Good, GoodTurn
  <2>4. S \in SUBSET (Combatants \ x.fighters)
    BY <2>2
  <2>5. Joined(x, S) \subseteq Good
    BY <2>3, <2>4, JoinedGood
  <2> QED BY <2>1, <2>5, WriteGood DEF x
<1>2. CASE AddCombatants
  <2>1. PICK S \in SUBSET (Combatants \ combat.fighters) : Write(Joined(combat, S))
    BY <1>2 DEF AddCombatants
  <2> QED BY <2>1, JoinedGood, WriteGood
<1>3. CASE BeginCombat
  <2> DEFINE top == Highest(combat, Living(combat))
             head == FirstOf(combat, combat.fighters)
  <2>1. top \in SUBSET combat.fighters /\ OneTotal(combat, top)
    BY <1>0, HighestGood DEF Living
  <2>2. head \in SUBSET combat.fighters /\ OneTotal(combat, head)
    <3>1. ASSUME NEW a \in head, NEW b \in head
          PROVE  combat.initiative[a] = combat.initiative[b]
      <4>1. ~Precedes(combat, a, b) /\ ~Precedes(combat, b, a)
        BY DEF FirstOf
      <4>2. combat.initiative[a] \in Nat /\ combat.initiative[b] \in Nat
        BY <1>0, BoundsAssumption DEF CombatType, FirstOf
      <4> HIDE DEF head
      <4> QED BY <4>1, <4>2 DEF Precedes
    <3> QED BY <3>1 DEF OneTotal, FirstOf
  <2>3. PICK groups \in SUBSET {top, head} :
           Write(UNION {StartTurn(combat, ids, 1) : ids \in groups})
    BY <1>3 DEF BeginCombat
  <2> HIDE DEF top, head
  <2>4. UNION {StartTurn(combat, ids, 1) : ids \in groups} \subseteq Good
    BY <1>0, <2>1, <2>2, StartTurnGood
  <2> QED BY <2>3, <2>4, WriteGood
<1>4. ASSUME NEW c \in Combatants, NEW total \in 1..MaxInitiative, SubmitInitiative(c, total)
      PROVE  combat' \in Good
  <2> DEFINE x == [combat EXCEPT !.initiative =
                     [d \in Combatants |-> IF d \in RollGroup(c) THEN total ELSE @[d]]]
  <2>1. x \in CombatType
    BY <1>0, BoundsAssumption DEF CombatType
  <2>2. combat.status = "setup"
    BY <1>4 DEF SubmitInitiative
  <2>3. x.turn = combat.turn /\ x.status = combat.status /\ x.fighters = combat.fighters
    BY <1>0 DEF CombatType
  <2>4. x \in Good
    BY <2>1, <2>2, <2>3 DEF Good, GoodTurn
  <2> HIDE DEF x
  <2> QED BY <1>4, <2>4, OrderedGood, WriteGood DEF SubmitInitiative, x
<1>5. ASSUME NEW T \in SUBSET Combatants, SetInitiativeOrder(T)
      PROVE  combat' \in Good
  <2>1. PICK place \in [T -> {combat.place[c] : c \in T}] :
           Write({[combat EXCEPT !.place =
                [c \in Combatants |-> IF c \in T THEN place[c] ELSE @[c]]]})
    BY <1>5 DEF SetInitiativeOrder
  <2> DEFINE x == [combat EXCEPT !.place = [c \in Combatants |-> IF c \in T THEN place[c] ELSE @[c]]]
  <2>2. x \in CombatType
    BY <1>0 DEF CombatType
  <2>3. x \in Good
    BY <1>0, <2>2, SameTurnGood DEF CombatType
  <2> QED BY <2>1, <2>3, WriteGood
<1> QED BY <1>1, <1>2, <1>3, <1>4, <1>5 DEF Setup

(* Ending parts, restarting and saving throws leave a good turn.           *)
LEMMA TurnsGood ==
  ASSUME combat \in Good, Turns
  PROVE  combat' \in Good
<1>0. combat \in CombatType
  BY DEF Good
<1>1. ASSUME NEW c \in Combatants, NEW drop \in BOOLEAN, EndTurn(c, drop)
      PROVE  combat' \in Good
  <2>1. PICK saves \in SUBSET {<<c, "end">>} :
           Write(PassTheTurn(PartEnded(c, PendingOf(c), saves), c))
    BY <1>1 DEF EndTurn
  <2> DEFINE x == PartEnded(c, PendingOf(c), saves)
  <2>2. x \in CombatType
    <3>1. {<<c, "end">>} \subseteq Combatants \X Phases
      BY DEF Phases
    <3>2. combat.saves \cup saves \in SUBSET (Combatants \X Phases)
      BY <1>0, <3>1 DEF CombatType
    <3> QED BY <1>0, <3>2 DEF PartEnded, CombatType, TurnState
  <2>3. /\ x.turn = [combat.turn EXCEPT ![c] = "ended"]
        /\ x.status = combat.status /\ x.fighters = combat.fighters /\ x.initiative = combat.initiative
    BY <1>0 DEF PartEnded, CombatType
  <2>4. combat.status = "active" /\ combat.turn[c] = "acting"
    BY <1>1 DEF EndTurn
  <2> HIDE DEF x
  <2>5. x \in Good
    BY <1>0, <2>2, <2>3, <2>4 DEF Good, GoodTurn, CombatType
  <2>6. ASSUME NEW y \in PassTheTurn(x, c)
        PROVE  y \in Good
    <3>1. CASE y = x
      BY <2>5, <3>1
    <3>2. CASE \E o \in FirstOf(x, OthersActing(combat, c)) : y = [x EXCEPT !.current = o]
      <4>1. PICK o \in Combatants : y = [x EXCEPT !.current = o]
        BY <1>0, <3>2 DEF FirstOf, OthersActing, Acting, CombatType
      <4> QED BY <2>2, <2>5, <4>1, SameTurnGood DEF CombatType
    <3>3. CASE y \in StartTurn(x, NextGroup(x, c, {}), NextRound(x, x, c, {}))
      BY <2>2, <3>3, NextGroupGood, NextRoundType, StartTurnGood
    <3> QED BY <3>1, <3>2, <3>3 DEF PassTheTurn
  <2> QED BY <2>1, <2>6, WriteGood DEF x
<1>2. CASE RestartTurns
  <2> DEFINE x == [combat EXCEPT !.had = {}, !.owed = Living(combat)]
             ids == Highest(combat, Living(combat))
  <2>1. x \in CombatType /\ x.fighters = combat.fighters /\ x.initiative = combat.initiative
    BY <1>0 DEF CombatType, Living
  <2>2. ids \in SUBSET combat.fighters /\ OneTotal(combat, ids)
    BY <1>0, HighestGood DEF Living
  <2>3. combat.round \in Nat
    BY <1>0 DEF CombatType
  <2>4. Write(StartTurn(x, ids, combat.round))
    BY <1>2 DEF RestartTurns
  <2> HIDE DEF x, ids
  <2>5. ids \in SUBSET x.fighters /\ OneTotal(x, ids)
    BY <2>1, <2>2 DEF OneTotal
  <2> QED BY <2>1, <2>3, <2>4, <2>5, StartTurnGood, WriteGood
<1>3. ASSUME NEW w \in combat.saves, RollEffectSave(w)
      PROVE  combat' \in Good
  <2>1. [combat EXCEPT !.saves = @ \ {w}] \in Good
    BY <1>0, SameTurnGood DEF CombatType
  <2> QED BY <1>3, <2>1, WriteGood DEF RollEffectSave
<1> QED BY <1>1, <1>2, <1>3 DEF Turns

(* Hits and damage leave a good turn.                                      *)
LEMMA HitsGood ==
  ASSUME combat \in Good, Hits
  PROVE  combat' \in Good
<1>0. combat \in CombatType /\ TypeOK
  BY DEF Good, TypeOK
<1>1. ASSUME NEW a \in Combatants, NEW t \in Combatants, NEW asks \in BOOLEAN, RollAttack(a, t, asks)
      PROVE  combat' \in Good
  <2> DEFINE x == [combat EXCEPT !.damage = @ \cup {<<a, t>>},
                                 !.asks = IF asks THEN @ \cup {<<a, t>>} ELSE @]
  <2>1. x \in CombatType
    <3>1. {<<a, t>>} \subseteq Combatants \X Combatants
      OBVIOUS
    <3>2. /\ combat.damage \cup {<<a, t>>} \in SUBSET (Combatants \X Combatants)
          /\ (IF asks THEN combat.asks \cup {<<a, t>>} ELSE combat.asks) \in SUBSET (Combatants \X Combatants)
      BY <1>0, <3>1 DEF CombatType
    <3> QED BY <1>0, <3>2 DEF CombatType
  <2>2. x \in Good
    BY <1>0, <2>1, SameTurnGood DEF CombatType
  <2> QED BY <1>1, <2>2, WriteGood DEF RollAttack
<1>2. ASSUME NEW d \in combat.asks, NEW miss \in BOOLEAN, AnswerReaction(d, miss)
      PROVE  combat' \in Good
  <2>1. [combat EXCEPT !.asks = @ \ {d}, !.damage = IF miss THEN @ \ {d} ELSE @] \in Good
    BY <1>0, SameTurnGood DEF CombatType
  <2> QED BY <1>2, <2>1, WriteGood DEF AnswerReaction
<1>3. ASSUME NEW d \in combat.damage, NEW down \in BOOLEAN, LandDamage(d, down)
      PROVE  combat' \in Good
  <2>1. PICK asked \in DamageAsks(d[2]) : Write({Landed(d, down, asked)})
    BY <1>3 DEF LandDamage
  <2> DEFINE x == Landed(d, down, asked)
  <2>2. /\ x \in CombatType /\ x.turn = combat.turn /\ x.fighters = combat.fighters
        /\ x.initiative = combat.initiative /\ x.status = combat.status
    BY <1>0, LandedFields
  <2>3. x \in Good
    BY <2>2, SameTurnGood
  <2> QED BY <2>1, <2>3, WriteGood
<1>4. ASSUME NEW d \in combat.damage, DiscardPendingDamage(d)
      PROVE  combat' \in Good
  <2>1. [combat EXCEPT !.damage = @ \ {d}] \in Good
    BY <1>0, SameTurnGood DEF CombatType
  <2> QED BY <1>4, <2>1, WriteGood DEF DiscardPendingDamage
<1> QED BY <1>1, <1>2, <1>3, <1>4 DEF Hits

(* Who falls changes neither the marks nor a total.                        *)
LEMMA DefeatGood ==
  ASSUME NEW x \in Good, NEW S \in SUBSET Combatants
  PROVE  /\ Defeat(x, S) \in Good
         /\ Defeat(x, S).fighters = x.fighters /\ Defeat(x, S).initiative = x.initiative
<1>1. x \in CombatType /\ Defeat(x, S) \in CombatType
  BY DefeatType DEF Good
<1> QED BY <1>1, SameTurnGood DEF Defeat, CombatType

(* Effects that end leave a good turn good.                                *)
LEMMA EffectsEndGood ==
  ASSUME NEW x \in Good, NEW asked
  PROVE  /\ EffectsEnd(x, asked) \in Good
         /\ EffectsEnd(x, asked).fighters = x.fighters
         /\ EffectsEnd(x, asked).initiative = x.initiative
<1>1. x \in CombatType /\ EffectsEnd(x, asked) \in CombatType
  BY EffectsEndType DEF Good
<1> QED BY <1>1, SameTurnGood DEF EffectsEnd, CombatType

(* Falling, dying, coming back and leaving leave a good turn.              *)
LEMMA LeavingGood ==
  ASSUME combat \in Good, Leaving
  PROVE  combat' \in Good
<1>0. combat \in CombatType
  BY DEF Good
<1>1. ASSUME NEW c \in Combatants, NEW down \in BOOLEAN, AdjustHitPoints(c, down)
      PROVE  combat' \in Good
  <2>1. \A asked : EffectsEnd(Defeat(combat, {c}), asked) \in Good
    BY DefeatGood, EffectsEndGood
  <2>2. [combat EXCEPT !.defeated = @ \ {c}] \in Good
    BY <1>0, SameTurnGood DEF CombatType
  <2> QED BY <1>1, <2>1, <2>2, WriteGood DEF AdjustHitPoints
<1>2. ASSUME NEW p \in Players, ConfirmDeath(p)
      PROVE  combat' \in Good
  <2>1. p \in Combatants
    BY DEF Combatants
  <2>2. ASSUME NEW asked
        PROVE  LeaveTurn(EffectsEnd(Defeat(combat, {p}), asked), combat, p) \subseteq Good
    <3> DEFINE x == EffectsEnd(Defeat(combat, {p}), asked)
    <3>1. x \in Good /\ x.fighters = combat.fighters /\ x.initiative = combat.initiative
      BY <2>1, DefeatGood, EffectsEndGood
    <3> HIDE DEF x
    <3>2. LeaveTurn(x, combat, p) \subseteq Good
      BY <1>0, <2>1, <3>1, LeaveTurnGood
    <3> QED BY <3>2 DEF x
  <2> QED BY <1>2, <2>2, WriteGood DEF ConfirmDeath
<1>3. ASSUME NEW p \in Players, ReviveInCombat(p)
      PROVE  combat' \in Good
  <2>1. combat' \in CombatType
    BY <1>0, <1>3 DEF ReviveInCombat, CombatType, TurnState
  <2>2. /\ combat'.turn = [combat.turn EXCEPT ![p] = "idle"]
        /\ combat'.status = combat.status /\ combat'.fighters = combat.fighters
        /\ combat'.initiative = combat.initiative
    BY <1>0, <1>3 DEF ReviveInCombat, CombatType
  <2> QED BY <1>0, <2>1, <2>2 DEF Good, GoodTurn, CombatType
<1>4. ASSUME NEW c \in Combatants, RemoveCombatant(c)
      PROVE  combat' \in Good
  <2>1. Leavers(c) \in SUBSET Combatants
    BY DEF Leavers, Combatants
  <2>2. ASSUME NEW asked
        PROVE  {Without(x, Leavers(c)) : x \in LeaveTurn(EffectsEnd(combat, asked), combat, c)} \subseteq Good
    <3> DEFINE y == EffectsEnd(combat, asked)
    <3>1. y \in Good /\ y.fighters = combat.fighters /\ y.initiative = combat.initiative
      BY EffectsEndGood
    <3> HIDE DEF y
    <3>2. \A x \in LeaveTurn(y, combat, c) : x \in Good
      BY <1>0, <3>1, LeaveTurnGood
    <3> QED BY <2>1, <3>2, WithoutGood DEF y
  <2> QED BY <1>4, <2>2, WriteGood DEF RemoveCombatant
<1>5. CASE EndEncounter
  <2>1. combat' \in CombatType
    BY <1>0, <1>5 DEF EndEncounter, CombatType, Status
  <2>2. /\ combat'.turn = combat.turn /\ combat'.status = "ended"
        /\ combat'.fighters = combat.fighters /\ combat'.initiative = combat.initiative
    BY <1>0, <1>5 DEF EndEncounter, CombatType
  <2> QED BY <2>1, <2>2 DEF Good, GoodTurn
<1> QED BY <1>1, <1>2, <1>3, <1>4, <1>5 DEF Leaving

(* The strengthening is inductive.                                         *)
LEMMA NextGood ==
  ASSUME combat \in Good, [Next]_combat
  PROVE  combat' \in Good
<1>1. CASE UNCHANGED combat
  BY <1>1
<1> QED BY <1>1, SetupGood, TurnsGood, HitsGood, LeavingGood DEF Next

(* However the order is rolled, changed, reinforced or thinned out in the  *)
(* middle of a turn, the members of the turn that runs share one total.    *)
THEOREM TurnIsJoint == Spec => []JointTurn
<1>1. Init => combat \in Good
  <2>1. Empty \in CombatType /\ \A c \in Combatants : Empty.turn[c] = "idle"
    BY EmptyType DEF Empty
  <2> QED BY <2>1 DEF Init, Good, GoodTurn
<1>2. combat \in Good /\ [Next]_combat => (combat \in Good)'
  BY NextGood
<1>3. combat \in Good => JointTurn
  BY DEF Good, GoodTurn, JointTurn, Members, CombatType
<1> QED BY <1>1, <1>2, <1>3, PTL DEF Spec
=============================================================================
