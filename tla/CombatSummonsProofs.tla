------------------------- MODULE CombatSummonsProofs -------------------------
(* Theorems about CombatSummons: creatures of one casting play together, no *)
(* creature that is gone holds a turn, and none leaves a turn that waits    *)
(* for nothing, however many leave in one call.                             *)
EXTENDS CombatSummons, CombatRoundProofs, WellFoundedInduction

Creature(x) == Creatures \cap x.fighters

(* The players that are dead; in a combat that goes on only a return to    *)
(* life takes one of them out of the turn it died in.                      *)
Dead(x) == x.defeated \cap Players

(* The creatures in the fight have one total and are with their owner; who *)
(* is not in it has no total, so who joins brings none from another fight. *)
Casting(x) ==
    /\ \A c, d \in Creature(x) : x.initiative[c] = x.initiative[d]
    /\ Creature(x) # {} => Owner \in x.fighters
    /\ \A c \in Combatants \ x.fighters : x.initiative[c] = 0

(* Nothing waits where no combat runs, nor has anybody been hit before.    *)
Quiet(x) ==
    /\ x.status # "active" => x.saves = {} /\ x.asks = {}
    /\ x.status = "setup" => x.damage = {}

(* A turn in which nobody acts (but dead players) waits for no reaction,   *)
(* and for no creature's saving throw but a member's.  So it is nobody     *)
(* else's dismissal that ends the waiting.                                 *)
WaitsOwn(x) ==
    x.status = "active" /\ Acting(x) \subseteq Dead(x) /\ Members(x) # {} =>
        x.asks = {} /\ \A w \in x.saves : w[1] \in Creatures => w[1] \in Members(x)

(* A turn just begun: its members act, and none is a dead player.          *)
Alert(x) == Members(x) = Acting(x) /\ Acting(x) \cap Dead(x) = {}

(* Only who is in the fight is waited for.                                 *)
Fenced(x) ==
    x.status = "active" =>
        /\ \A w \in x.saves : w[1] \in x.fighters
        /\ \A d \in x.asks : d[2] \in x.fighters

(* What of the saves of y was not open in x is asked of somebody of S.     *)
Asked(x, y, S) == \A w \in y.saves : w \in x.saves \/ w[1] \in S

Fit == {x \in CombatType : Casting(x) /\ Quiet(x) /\ WaitsOwn(x)}

------------------------------------------------------------------------------
(* Facts about one record.                                                 *)

(* A turn just begun waits for nobody else.                                *)
LEMMA AlertWaits ==
  ASSUME NEW x, Alert(x)
  PROVE  WaitsOwn(x)
  BY DEF Alert, WaitsOwn

(* An update that closes windows and touches neither the marks nor the     *)
(* fighters, nor who of the players is dead.                               *)
LEMMA SameFit ==
  ASSUME NEW x \in Fit, NEW y \in CombatType,
         y.status = x.status, y.turn = x.turn, y.fighters = x.fighters,
         y.initiative = x.initiative, Dead(y) = Dead(x),
         Asked(x, y, Combatants \ Creatures), x.status # "active" => y.saves \subseteq x.saves,
         y.asks \subseteq x.asks, x.status = "setup" => y.damage \subseteq x.damage
  PROVE  y \in Fit
<1>1. Members(y) = Members(x) /\ Acting(y) = Acting(x) /\ Creature(y) = Creature(x)
  BY DEF Members, Acting, Creature
<1>2. Casting(y) /\ Quiet(y)
  BY <1>1 DEF Fit, Casting, Quiet
<1>3. WaitsOwn(y)
  BY <1>1 DEF Fit, WaitsOwn, Asked
<1> QED BY <1>2, <1>3 DEF Fit

(* A turn that starts brings no player down.                               *)
LEMMA StartedDead ==
  ASSUME NEW x \in CombatType, NEW ids \in SUBSET x.fighters, NEW r \in Nat,
         NEW y \in StartTurn(x, ids, r)
  PROVE  /\ y \in CombatType /\ y.status = "active" /\ Dead(y) = Dead(x)
         /\ Members(y) = ids /\ Acting(y) = ids
         /\ y.fighters = x.fighters /\ y.initiative = x.initiative /\ y.asks = x.asks
         /\ Asked(x, y, ids \cup (x.fighters \cap NPCs))
<1>0. ids \in SUBSET Combatants
  BY DEF CombatType
<1>1. Begun(x, ids, r, y)
  BY <1>0, StartedFields
<1>2. y \in CombatType /\ Members(y) = ids /\ Acting(y) = ids
  BY StartedMembers
<1>3. Dead(y) = Dead(x)
  <2>1. PICK struck \in SUBSET NonPlayers : y.defeated = x.defeated \cup struck
    BY <1>1 DEF Begun
  <2> QED BY <2>1, NoPlayerIsNot DEF Dead
<1>4. Asked(x, y, ids \cup (x.fighters \cap NPCs))
  <2>1. PICK asked \in SUBSET MayOpen(x, ids) : y.saves = x.saves \cup asked
    BY <1>1 DEF Begun
  <2>2. ASSUME NEW w \in MayOpen(x, ids)
        PROVE  w[1] \in ids \cup (x.fighters \cap NPCs)
    <3>1. (Members(x) \cup ids) \cap NPCs \subseteq x.fighters \cap NPCs
      BY DEF Members
    <3>2. CASE w \in ids \X {"start"}
      BY <3>2
    <3>3. CASE w \in (((Members(x) \cup ids) \cap NPCs) \ x.defeated) \X {"damage"}
      BY <3>1, <3>3
    <3> QED BY <3>2, <3>3 DEF MayOpen
  <2> QED BY <2>1, <2>2 DEF Asked
<1>5. /\ y.status = "active" /\ y.fighters = x.fighters
      /\ y.initiative = x.initiative /\ y.asks = x.asks
  BY <1>1 DEF Begun
<1> QED BY <1>2, <1>3, <1>4, <1>5

(* A turn that starts for the living is a fit one.                         *)
LEMMA StartTurnFit ==
  ASSUME NEW x \in CombatType, Casting(x), NEW ids \in SUBSET x.fighters, ids \cap Dead(x) = {},
         NEW r \in Nat, NEW y \in StartTurn(x, ids, r)
  PROVE  y \in Fit /\ Alert(y)
<1>1. /\ y \in CombatType /\ y.status = "active" /\ Dead(y) = Dead(x)
      /\ Members(y) = ids /\ Acting(y) = ids
      /\ y.fighters = x.fighters /\ y.initiative = x.initiative
  BY StartedDead
<1>2. Alert(y)
  BY <1>1 DEF Alert
<1>3. Casting(y) /\ Quiet(y)
  BY <1>1 DEF Casting, Quiet, Creature
<1> QED BY <1>1, <1>2, <1>3, AlertWaits DEF Fit

(* So is the turn of one fighter over which nothing waits: the first turn  *)
(* of a combat that begins with everybody defeated.                        *)
LEMMA StartAloneFit ==
  ASSUME NEW x \in CombatType, Casting(x), x.saves = {}, x.asks = {},
         NEW ids \in SUBSET x.fighters, NEW r \in Nat, NEW y \in StartTurn(x, ids, r)
  PROVE  y \in Fit
<1>1. /\ y \in CombatType /\ y.status = "active" /\ Members(y) = ids
      /\ y.fighters = x.fighters /\ y.initiative = x.initiative /\ y.asks = x.asks
      /\ Asked(x, y, ids \cup (x.fighters \cap NPCs))
  BY StartedDead
<1>2. WaitsOwn(y)
  BY <1>1, CombatantsAssumption DEF WaitsOwn, Asked
<1>3. Casting(y) /\ Quiet(y)
  BY <1>1 DEF Casting, Quiet, Creature
<1> QED BY <1>1, <1>2, <1>3 DEF Fit

(* What settleOnce closes.                                                 *)
LEMMA ClosedFields ==
  ASSUME NEW x \in CombatType
  PROVE  /\ Closed(x) \in CombatType
         /\ Closed(x).status = x.status /\ Closed(x).turn = x.turn
         /\ Closed(x).fighters = x.fighters /\ Closed(x).initiative = x.initiative
         /\ Closed(x).defeated = x.defeated /\ Closed(x).damage = x.damage
         /\ Closed(x).saves \subseteq x.saves /\ Closed(x).asks \subseteq x.asks
         /\ \A w \in Closed(x).saves : w[1] \in x.fighters
         /\ \A d \in Closed(x).asks : d[2] \in x.fighters
<1> DEFINE saves == {w \in x.saves : w[1] \in x.fighters /\ ~(w[1] \in NonPlayers /\ w[1] \in x.defeated)}
           asks == {d \in x.asks : d \in x.damage /\ d[2] \in Living(x)}
<1>1. /\ saves \subseteq x.saves /\ asks \subseteq x.asks
      /\ \A w \in saves : w[1] \in x.fighters
      /\ \A d \in asks : d[2] \in x.fighters
  BY DEF Living
<1>2. Closed(x) = [x EXCEPT !.saves = saves, !.asks = asks]
  BY DEF Closed
<1> HIDE DEF saves, asks
<1>3. /\ Closed(x).status = x.status /\ Closed(x).turn = x.turn
      /\ Closed(x).fighters = x.fighters /\ Closed(x).initiative = x.initiative
      /\ Closed(x).defeated = x.defeated /\ Closed(x).damage = x.damage
      /\ Closed(x).saves = saves /\ Closed(x).asks = asks
  BY <1>2 DEF CombatType
<1> QED BY <1>1, <1>3, ClosedType

(* Settling closes what waits for who is gone, and hands the turn on.      *)
LEMMA SettleFit ==
  ASSUME NEW x \in Fit, NEW y \in Settle(x)
  PROVE  y \in Fit /\ Fenced(y) /\ y.fighters = x.fighters
<1>0. x \in CombatType
  BY DEF Fit
<1> DEFINE z == Closed(x)
<1>1. /\ z \in CombatType
      /\ z.status = x.status /\ z.turn = x.turn
      /\ z.fighters = x.fighters /\ z.initiative = x.initiative /\ z.defeated = x.defeated
      /\ z.damage = x.damage
      /\ z.saves \subseteq x.saves /\ z.asks \subseteq x.asks
      /\ \A w \in z.saves : w[1] \in x.fighters
      /\ \A d \in z.asks : d[2] \in x.fighters
  BY <1>0, ClosedFields
<1> HIDE DEF z
<1>2. z \in Fit /\ Fenced(z)
  BY <1>1, SameFit DEF Dead, Fenced, Asked
<1>3. CASE x.status # "active"
  BY <1>3 DEF Settle, Fenced
<1>4. CASE x.status = "active" /\ y = z
  BY <1>1, <1>2, <1>4
<1>5. ASSUME NEW m, y \in StartTurn(z, NextGroup(z, m, {}), NextRound(z, z, m, {}))
      PROVE  y \in Fit /\ Fenced(y) /\ y.fighters = x.fighters
  <2> DEFINE ids == NextGroup(z, m, {})
             r == NextRound(z, z, m, {})
  <2>1. ids \in SUBSET z.fighters /\ ids \cap Dead(z) = {} /\ r \in Nat
    BY <1>1, NextGroupLives, NextRoundType DEF Living, Dead
  <2>2. y \in StartTurn(z, ids, r)
    BY <1>5
  <2> HIDE DEF ids, r
  <2>3. y \in Fit
    BY <1>1, <1>2, <2>1, <2>2, StartTurnFit DEF Fit
  <2>4. /\ y.fighters = z.fighters /\ y.asks = z.asks
        /\ Asked(z, y, ids \cup (z.fighters \cap NPCs))
    BY <1>1, <2>1, <2>2, StartedDead
  <2>5. Fenced(y)
    BY <1>1, <2>1, <2>4 DEF Fenced, Asked
  <2> QED BY <1>1, <2>3, <2>4, <2>5
<1> QED BY <1>3, <1>4, <1>5 DEF Settle, ReleaseHeldTurn, z

(* A call whose records are fit leaves a fit combat, in which nobody who is*)
(* gone is waited for and no turn waits for nothing.                       *)
Handed == \E x \in Fit : combat' \in Settle(x)

LEMMA HandedFit ==
  ASSUME Handed
  PROVE  combat' \in Fit /\ Fenced(combat') /\ ~HeldForNothing(combat')
  BY SettleFit, SettleMovesOn DEF Handed, Fit

------------------------------------------------------------------------------
(* Who joins and who goes.                                                 *)

(* Joining touches no mark, no window and no other total.                  *)
LEMMA JoinedFields ==
  ASSUME NEW x \in CombatType, NEW S \in SUBSET Combatants, NEW y \in Joined(x, S)
  PROVE  /\ y \in CombatType
         /\ y.status = x.status /\ y.turn = x.turn /\ y.fighters = x.fighters \cup S
         /\ y.defeated = x.defeated /\ y.saves = x.saves /\ y.asks = x.asks /\ y.damage = x.damage
         /\ \A c \in Combatants \ (S \cap NPCs) : y.initiative[c] = x.initiative[c]
<1>1. y \in CombatType
  BY JoinedType
<1>2. PICK seat, total : y = Seated(x, S, seat, total)
  BY DEF Joined
<1>3. /\ y.turn = x.turn /\ y.status = x.status /\ y.fighters = x.fighters \cup S
      /\ y.initiative = [c \in Combatants |-> IF c \in S \cap NPCs THEN total[c] ELSE x.initiative[c]]
  BY <1>2 DEF Seated, Ordered, CombatType
<1>4. y.defeated = x.defeated /\ y.saves = x.saves /\ y.asks = x.asks /\ y.damage = x.damage
  BY <1>2 DEF Seated, Ordered, CombatType
<1> QED BY <1>1, <1>3, <1>4

(* Who joins is out of the turn: it waits for what it waited.              *)
LEMMA JoinedWaits ==
  ASSUME NEW x \in Fit, NEW S \in SUBSET (Combatants \ x.fighters), x \in Good,
         NEW y \in CombatType, y.status = x.status, y.turn = x.turn, y.fighters = x.fighters \cup S,
         Dead(y) = Dead(x), y.saves = x.saves, y.asks = x.asks, y.damage \subseteq x.damage
  PROVE  Quiet(y) /\ WaitsOwn(y)
<1>1. \A c \in S : x.turn[c] = "idle"
  BY DEF Good, GoodTurn
<1>2. Members(y) = Members(x) /\ Acting(y) = Acting(x)
  BY <1>1 DEF Members, Acting
<1> QED BY <1>2 DEF Fit, Quiet, WaitsOwn

(* Creatures join with their owner, and with no total yet.                 *)
LEMMA JoinedFit ==
  ASSUME NEW x \in Fit, x \in Good, NEW S \in SUBSET (Combatants \ x.fighters), MayBring(S),
         NEW y \in Joined(x, S)
  PROVE  y \in Fit
<1>0. x \in CombatType /\ Casting(x) /\ S \in SUBSET Combatants
  BY DEF Fit
<1>1. /\ y \in CombatType
      /\ y.status = x.status /\ y.turn = x.turn /\ y.fighters = x.fighters \cup S
      /\ y.defeated = x.defeated /\ y.saves = x.saves /\ y.asks = x.asks /\ y.damage = x.damage
      /\ \A c \in Combatants \ (S \cap NPCs) : y.initiative[c] = x.initiative[c]
  BY <1>0, JoinedFields
<1>2. Quiet(y) /\ WaitsOwn(y)
  BY <1>1, JoinedWaits DEF Dead
<1>3. \A c \in Creatures : c \in Combatants /\ c \notin NPCs
  BY CombatantsAssumption DEF Combatants
<1>4. \A c \in Creatures : y.initiative[c] = x.initiative[c]
  BY <1>1, <1>3
<1>5. Creature(y) = Creature(x) \cup (S \cap Creatures)
  BY <1>1 DEF Creature
<1>6. CASE S \cap Creatures = {}
  <2>1. Creature(y) = Creature(x)
    BY <1>5, <1>6
  <2>2. \A c, d \in Creature(y) : y.initiative[c] = y.initiative[d]
    BY <1>0, <1>4, <2>1 DEF Casting, Creature
  <2>3. \A c \in Combatants \ y.fighters : y.initiative[c] = 0
    BY <1>0, <1>1 DEF Casting
  <2>4. Creature(y) # {} => Owner \in y.fighters
    BY <1>0, <1>1, <2>1 DEF Casting
  <2> QED BY <1>1, <1>2, <2>2, <2>3, <2>4 DEF Casting, Fit
<1>7. CASE S \cap Creatures # {}
  <2>1. Owner \in S
    BY <1>7 DEF MayBring
  <2>2. Creature(x) = {}
    BY <1>0, <2>1 DEF Casting
  <2>3. \A c \in Creature(y) : c \in Combatants \ x.fighters /\ y.initiative[c] = 0
    BY <1>0, <1>3, <1>4, <1>5, <2>2 DEF Casting, Creature
  <2>4. \A c \in Combatants \ y.fighters : y.initiative[c] = 0
    BY <1>0, <1>1 DEF Casting
  <2> QED BY <1>1, <1>2, <2>1, <2>3, <2>4 DEF Casting, Fit
<1> QED BY <1>6, <1>7

(* What goes with the rows of S.                                           *)
LEMMA WithoutFields ==
  ASSUME NEW x \in CombatType, NEW S \in SUBSET Combatants, NEW y, y = Without(x, S)
  PROVE  /\ y \in CombatType /\ y.status = x.status
         /\ y.fighters = x.fighters \ S /\ y.defeated = x.defeated \ S
         /\ y.turn = [c \in Combatants |-> IF c \in S THEN "idle" ELSE x.turn[c]]
         /\ y.initiative = [c \in Combatants |-> IF c \in S THEN 0 ELSE x.initiative[c]]
         /\ y.saves = {w \in x.saves : w[1] \notin S}
         /\ y.asks = {d \in x.asks : {d[1], d[2]} \cap S = {}}
         /\ y.damage \subseteq x.damage
<1>1. y \in CombatType
  BY WithoutType
<1>2. /\ y.status = x.status
      /\ y.fighters = x.fighters \ S /\ y.defeated = x.defeated \ S
      /\ y.turn = [c \in Combatants |-> IF c \in S THEN "idle" ELSE x.turn[c]]
  BY DEF Without, Ordered, CombatType
<1>3. y.initiative = [c \in Combatants |-> IF c \in S THEN 0 ELSE x.initiative[c]]
  BY DEF Without, Ordered, CombatType
<1>4. y.saves = {w \in x.saves : w[1] \notin S}
  BY DEF Without, Ordered, CombatType
<1>5. y.asks = {d \in x.asks : {d[1], d[2]} \cap S = {}} /\ y.damage \subseteq x.damage
  BY DEF Without, Ordered, CombatType
<1> QED BY <1>1, <1>2, <1>3, <1>4, <1>5

(* Rows that go take no total of another with them.                        *)
LEMMA WithoutCasting ==
  ASSUME NEW x \in CombatType, Casting(x), NEW S \in SUBSET Combatants, Owner \in S => Creatures \subseteq S,
         NEW y, y.fighters = x.fighters \ S,
         y.initiative = [c \in Combatants |-> IF c \in S THEN 0 ELSE x.initiative[c]]
  PROVE  Casting(y)
<1>1. \A c \in Creature(y) : c \in Creature(x) /\ c \in Combatants /\ c \notin S
  BY DEF Creature, Combatants
<1>2. \A c, d \in Creature(y) : y.initiative[c] = y.initiative[d]
  BY <1>1 DEF Casting
<1>3. Creature(y) # {} => Owner \in y.fighters
  BY <1>1 DEF Casting, Creature
<1>4. \A c \in Combatants \ y.fighters : y.initiative[c] = 0
  BY DEF Casting
<1> QED BY <1>2, <1>3, <1>4 DEF Casting

(* What may come of a turn somebody leaves: nothing, where it was not in   *)
(* one; the others go on acting; or a turn that starts, or none.           *)
Outcome(x, seen, who, y) ==
    \/ y = x /\ (x.status # "active" \/ seen.turn[who] = "idle")
    \/ /\ y.status = x.status /\ y.turn = x.turn /\ y.saves = x.saves
       /\ \E o \in x.fighters \ {who} : seen.turn[o] = "acting" /\ o \notin Dead(x)
    \/ y.status = "active" /\ Alert(y)

(* leaveTurn, with the list that was read before.                          *)
LEMMA LeftTurn ==
  ASSUME NEW x \in CombatType, Casting(x), Quiet(x), NEW seen \in CombatType,
         x.fighters = seen.fighters, NEW who \in Combatants, Dead(x) \subseteq Dead(seen) \cup {who},
         NEW y \in LeaveTurn(x, seen, who)
  PROVE  /\ y \in CombatType /\ Casting(y) /\ Quiet(y) /\ Outcome(x, seen, who, y)
         /\ y.fighters = x.fighters /\ y.initiative = x.initiative /\ Dead(y) = Dead(x)
         /\ y.asks = x.asks /\ Asked(x, y, x.fighters)
<1>1. CASE y = x /\ (x.status # "active" \/ seen.turn[who] = "idle")
  BY <1>1 DEF Outcome, Asked
<1>2. CASE /\ x.status = "active"
           /\ \E c \in FirstOf(seen, OthersActing(seen, who)) : y = [x EXCEPT !.current = c]
  <2>1. PICK c \in FirstOf(seen, OthersActing(seen, who)) : y = [x EXCEPT !.current = c]
    BY <1>2
  <2>2. /\ c \in Combatants /\ c \in x.fighters \ {who}
        /\ seen.turn[c] = "acting" /\ c \notin seen.defeated
    BY DEF FirstOf, OthersActing, Acting, CombatType
  <2>3. /\ y \in CombatType /\ y.status = x.status /\ y.turn = x.turn /\ y.saves = x.saves
        /\ y.fighters = x.fighters /\ y.initiative = x.initiative /\ y.defeated = x.defeated
        /\ y.asks = x.asks /\ y.damage \subseteq x.damage
    BY <2>1, <2>2 DEF CombatType
  <2>4. c \notin Dead(x)
    BY <2>2 DEF Dead
  <2>5. Outcome(x, seen, who, y)
    BY <2>2, <2>3, <2>4 DEF Outcome
  <2>6. Casting(y) /\ Quiet(y) /\ Dead(y) = Dead(x)
    BY <2>3 DEF Casting, Quiet, Creature, Dead
  <2> QED BY <2>3, <2>5, <2>6 DEF Asked
<1>3. CASE /\ x.status = "active"
           /\ y = [x EXCEPT !.turn = [c \in Combatants |-> "idle"], !.current = Nobody]
  <2>1. y \in CombatType
    BY <1>3 DEF CombatType, TurnState
  <2>2. /\ y.status = x.status /\ y.turn = [c \in Combatants |-> "idle"] /\ y.saves = x.saves
        /\ y.fighters = x.fighters /\ y.initiative = x.initiative /\ y.defeated = x.defeated
        /\ y.asks = x.asks /\ y.damage \subseteq x.damage
    BY <1>3 DEF CombatType
  <2>3. Members(y) = {} /\ Acting(y) = {}
    BY <2>1, <2>2 DEF Members, Acting, CombatType
  <2>4. Outcome(x, seen, who, y)
    BY <1>3, <2>2, <2>3 DEF Outcome, Alert
  <2>5. Casting(y) /\ Quiet(y) /\ Dead(y) = Dead(x)
    BY <2>2 DEF Casting, Quiet, Creature, Dead
  <2> QED BY <2>1, <2>2, <2>4, <2>5 DEF Asked
<1>4. CASE y \in StartTurn(x, NextGroup(seen, who, {who}), NextRound(x, seen, who, {who}))
  <2> DEFINE ids == NextGroup(seen, who, {who})
             r == NextRound(x, seen, who, {who})
  <2>1. ids \subseteq Living(seen) \ {who} /\ r \in Nat
    BY NextGroupLives, NextRoundType
  <2>2. y \in StartTurn(x, ids, r)
    BY <1>4
  <2> HIDE DEF ids, r
  <2>3. ids \in SUBSET x.fighters /\ ids \cap Dead(x) = {} /\ who \notin ids
    BY <2>1 DEF Living, Dead
  <2>4. y \in Fit /\ Alert(y)
    BY <2>1, <2>2, <2>3, StartTurnFit
  <2>5. /\ y.status = "active" /\ Dead(y) = Dead(x)
        /\ y.fighters = x.fighters /\ y.initiative = x.initiative /\ y.asks = x.asks
        /\ Asked(x, y, ids \cup (x.fighters \cap NPCs))
    BY <2>1, <2>2, <2>3, StartedDead
  <2>6. Asked(x, y, x.fighters)
    BY <2>3, <2>5 DEF Asked
  <2> QED BY <2>4, <2>5, <2>6 DEF Fit, Outcome
<1> QED BY <1>1, <1>2, <1>3, <1>4 DEF LeaveTurn

(* A record in the middle of a call: its marks are those `seen` when the   *)
(* call began, or a turn has just begun.                                   *)
Follows(x, seen) ==
    \/ WaitsOwn(x) /\ \A a \in x.fighters : x.turn[a] = seen.turn[a]
    \/ Alert(x)

(* Who stays when one row goes: a turn just begun is still one.            *)
LEMMA AlertWithout ==
  ASSUME NEW x \in CombatType, Alert(x), NEW c \in Combatants, NEW y,
         y.fighters = x.fighters \ {c},
         y.turn = [d \in Combatants |-> IF d \in {c} THEN "idle" ELSE x.turn[d]],
         Dead(y) \subseteq Dead(x)
  PROVE  Alert(y)
<1>1. Members(y) = Members(x) \ {c} /\ Acting(y) = Acting(x) \ {c}
  BY DEF Members, Acting, CombatType
<1> QED BY <1>1 DEF Alert

(* The row of who is gone, and its marks and saves; perhaps its damage.    *)
RowGone(z, who, y) ==
    /\ y \in CombatType /\ y.status = z.status
    /\ y.fighters = z.fighters \ {who} /\ y.defeated = z.defeated \ {who}
    /\ y.turn = [c \in Combatants |-> IF c \in {who} THEN "idle" ELSE z.turn[c]]
    /\ y.initiative = [c \in Combatants |-> IF c \in {who} THEN 0 ELSE z.initiative[c]]
    /\ y.saves = {w \in z.saves : w[1] \notin {who}}
    /\ y.asks \subseteq z.asks /\ y.damage \subseteq z.damage

(* Where who is gone was idle, the others' marks are what they were.       *)
LEMMA IdleGone ==
  ASSUME NEW z \in CombatType, NEW who \in Combatants, NEW y, RowGone(z, who, y),
         z.turn[who] = "idle"
  PROVE  Members(y) = Members(z) /\ Acting(y) = Acting(z)
<1>1. y.fighters = z.fighters \ {who} /\ z.fighters \subseteq Combatants
  BY DEF RowGone, CombatType
<1>2. \A a \in z.fighters \ {who} : y.turn[a] = z.turn[a]
  BY <1>1 DEF RowGone
<1> QED BY <1>1, <1>2 DEF Members, Acting

(* Effects that end in the middle of a call leave such a record.           *)
LEMMA EndedFollows ==
  ASSUME NEW x \in CombatType, Casting(x), Quiet(x), NEW seen, Follows(x, seen),
         NEW asked, NEW y, y = EffectsEnd(x, asked)
  PROVE  /\ y \in CombatType /\ Casting(y) /\ Quiet(y) /\ Dead(y) = Dead(x) /\ Follows(y, seen)
         /\ y.status = x.status /\ y.turn = x.turn /\ y.fighters = x.fighters
         /\ y.initiative = x.initiative /\ y.defeated = x.defeated /\ y.place = x.place
         /\ y.asks = x.asks /\ y.damage \subseteq x.damage /\ y.saves \subseteq x.saves
<1>1. /\ y \in CombatType /\ y.saves \subseteq x.saves
      /\ y.status = x.status /\ y.fighters = x.fighters
      /\ y.initiative = x.initiative /\ y.place = x.place /\ y.turn = x.turn
      /\ y.defeated = x.defeated /\ y.asks = x.asks /\ y.damage \subseteq x.damage
  BY EffectsEndFields
<1>2. Members(y) = Members(x) /\ Acting(y) = Acting(x) /\ Dead(y) = Dead(x)
  BY <1>1 DEF Members, Acting, Dead
<1>3. Casting(y) /\ Quiet(y)
  BY <1>1 DEF Casting, Quiet, Creature
<1>4. Follows(y, seen)
  <2>1. WaitsOwn(x) => WaitsOwn(y)
    BY <1>1, <1>2 DEF WaitsOwn
  <2>2. Alert(x) => Alert(y)
    BY <1>2 DEF Alert
  <2> QED BY <1>1, <2>1, <2>2 DEF Follows
<1> QED BY <1>1, <1>2, <1>3, <1>4

(* A non-player leaves the turn, then its row goes: what is left waits for *)
(* its own, whether the row takes the damage with it or not.               *)
LEMMA GoneFollows ==
  ASSUME NEW x \in CombatType, Casting(x), Quiet(x), NEW seen \in CombatType,
         x.fighters = seen.fighters, Dead(x) = Dead(seen), Follows(x, seen),
         NEW who \in NonPlayers, who \in x.fighters,
         NEW z \in LeaveTurn(x, seen, who), NEW y, RowGone(z, who, y)
  PROVE  /\ y \in CombatType /\ Casting(y) /\ Quiet(y) /\ Dead(y) = Dead(x)
         /\ Follows(y, seen) /\ y.fighters = x.fighters \ {who}
         /\ \A a \in y.fighters : y.initiative[a] = x.initiative[a]
<1>0. who \in Combatants /\ who \notin Players /\ who # Owner
  BY NoPlayerIsNot, CombatantsAssumption
<1>1. /\ z \in CombatType /\ Casting(z) /\ Quiet(z) /\ Outcome(x, seen, who, z)
      /\ z.fighters = x.fighters /\ z.initiative = x.initiative /\ Dead(z) = Dead(x)
      /\ z.asks = x.asks /\ Asked(x, z, x.fighters)
  <2>1. Dead(x) \subseteq Dead(seen) \cup {who}
    OBVIOUS
  <2> QED BY <1>0, <2>1, LeftTurn
<1>2. y \in CombatType /\ y.status = z.status /\ y.fighters = x.fighters \ {who} /\ y.fighters \subseteq Combatants
  BY <1>1 DEF RowGone, CombatType
<1>3. Dead(y) = Dead(x)
  <2>1. Dead(y) = Dead(z)
    BY <1>0 DEF Dead, RowGone
  <2> QED BY <1>1, <2>1
<1>4. \A a \in y.fighters : a # who /\ a \in x.fighters /\ y.turn[a] = z.turn[a]
                            /\ y.initiative[a] = x.initiative[a]
  BY <1>1, <1>2 DEF RowGone
<1>5. Casting(y)
  <2>1. /\ y.fighters = z.fighters \ {who} /\ {who} \in SUBSET Combatants
        /\ y.initiative = [c \in Combatants |-> IF c \in {who} THEN 0 ELSE z.initiative[c]]
    BY <1>0 DEF RowGone
  <2> QED BY <1>0, <1>1, <2>1, WithoutCasting
<1>6. y.saves \subseteq z.saves /\ y.asks \subseteq z.asks /\ y.damage \subseteq z.damage
  BY DEF RowGone
<1>7. Quiet(y)
  BY <1>1, <1>2, <1>6 DEF Quiet
<1>8. ASSUME Alert(z)
      PROVE  Alert(y)
  <2>1. /\ y.fighters = z.fighters \ {who}
        /\ y.turn = [d \in Combatants |-> IF d \in {who} THEN "idle" ELSE z.turn[d]]
        /\ Dead(y) \subseteq Dead(z)
    BY <1>1, <1>3 DEF RowGone
  <2> QED BY <1>0, <1>1, <1>8, <2>1, AlertWithout
<1>9. ASSUME ~Alert(z)
      PROVE  WaitsOwn(y) /\ \A a \in y.fighters : y.turn[a] = seen.turn[a]
  <2>1. z.status = x.status /\ z.turn = x.turn /\ z.saves = x.saves /\ z.asks \subseteq x.asks
    BY <1>1, <1>9 DEF Outcome
  <2>2. Members(z) = Members(x) /\ Acting(z) = Acting(x)
    BY <1>1, <2>1 DEF Members, Acting
  <2>3. ~Alert(x)
    BY <1>1, <1>9, <2>2 DEF Alert
  <2>4. WaitsOwn(x) /\ \A a \in x.fighters : x.turn[a] = seen.turn[a]
    BY <2>3 DEF Follows
  <2>5. WaitsOwn(z)
    BY <1>1, <2>1, <2>2, <2>4 DEF WaitsOwn
  <2>6. \A a \in y.fighters : y.turn[a] = seen.turn[a]
    BY <1>4, <2>1, <2>4
  <2>7. CASE x.status # "active"
    BY <1>2, <2>1, <2>6, <2>7 DEF WaitsOwn
  <2>8. CASE seen.turn[who] = "idle"
    <3>1. z.turn[who] = "idle"
      BY <2>1, <2>4, <2>8
    <3>2. Members(y) = Members(z) /\ Acting(y) = Acting(z)
      BY <1>0, <1>1, <3>1, IdleGone
    <3>3. WaitsOwn(y)
      BY <1>1, <1>2, <1>3, <1>6, <2>5, <3>2 DEF WaitsOwn
    <3> QED BY <2>6, <3>3
  <2>9. CASE \E o \in x.fighters \ {who} : seen.turn[o] = "acting" /\ o \notin Dead(x)
    <3>1. PICK o \in x.fighters \ {who} : seen.turn[o] = "acting" /\ o \notin Dead(x)
      BY <2>9
    <3>2. o \in Acting(y) /\ o \notin Dead(y)
      BY <1>2, <1>3, <2>6, <3>1 DEF Acting
    <3> QED BY <2>6, <3>2 DEF WaitsOwn
  <2> QED BY <1>1, <1>9, <2>7, <2>8, <2>9 DEF Outcome
<1> QED BY <1>2, <1>3, <1>4, <1>5, <1>7, <1>8, <1>9 DEF Follows

(* Rows deleted, and rows dismissed, which keep their damage.              *)
LEMMA GoneRow ==
  ASSUME NEW z \in CombatType, NEW who \in Combatants, NEW dismiss \in BOOLEAN,
         NEW y, y = Gone(z, who, dismiss)
  PROVE  /\ RowGone(z, who, y)
         /\ y.place = Without(z, {who}).place
<1> DEFINE w == Without(z, {who})
<1>1. /\ w \in CombatType /\ w.status = z.status
      /\ w.fighters = z.fighters \ {who} /\ w.defeated = z.defeated \ {who}
      /\ w.turn = [c \in Combatants |-> IF c \in {who} THEN "idle" ELSE z.turn[c]]
      /\ w.initiative = [c \in Combatants |-> IF c \in {who} THEN 0 ELSE z.initiative[c]]
      /\ w.saves = {v \in z.saves : v[1] \notin {who}}
      /\ w.asks \subseteq z.asks /\ w.damage \subseteq z.damage
  <2> DEFINE S == {who}
  <2>1. S \in SUBSET Combatants /\ w = Without(z, S)
    OBVIOUS
  <2> HIDE DEF w, S
  <2>2. /\ w \in CombatType /\ w.status = z.status
        /\ w.fighters = z.fighters \ S /\ w.defeated = z.defeated \ S
        /\ w.turn = [c \in Combatants |-> IF c \in S THEN "idle" ELSE z.turn[c]]
        /\ w.initiative = [c \in Combatants |-> IF c \in S THEN 0 ELSE z.initiative[c]]
        /\ w.saves = {v \in z.saves : v[1] \notin S}
        /\ w.asks = {d \in z.asks : {d[1], d[2]} \cap S = {}} /\ w.damage \subseteq z.damage
    BY <2>1, WithoutFields
  <2> QED BY <2>2 DEF S
<1>2. y = w \/ y = [w EXCEPT !.damage = z.damage, !.asks = z.asks]
  BY DEF Gone, Dismissed
<1> HIDE DEF w
<1>3. CASE y = w
  BY <1>1, <1>3 DEF RowGone, w
<1>4. CASE y = [w EXCEPT !.damage = z.damage, !.asks = z.asks]
  <2>1. y \in CombatType
    BY <1>1, <1>4 DEF CombatType
  <2>2. /\ y.status = w.status /\ y.fighters = w.fighters /\ y.defeated = w.defeated
        /\ y.turn = w.turn /\ y.initiative = w.initiative /\ y.saves = w.saves
        /\ y.asks = z.asks /\ y.damage \subseteq z.damage /\ y.place = w.place
    BY <1>1, <1>4 DEF CombatType
  <2> QED BY <1>1, <2>1, <2>2 DEF RowGone, w
<1> QED BY <1>2, <1>3, <1>4

------------------------------------------------------------------------------
(* What the operations of CombatTurns hand to the settling.                *)

(* Who joins, rolls, is reordered and begins.                              *)
LEMMA SetupHands ==
  ASSUME combat \in Good, combat \in Fit, Setup
  PROVE  Handed
<1>0. combat \in CombatType /\ Casting(combat) /\ Quiet(combat)
  BY DEF Fit
<1>1. CASE StartEncounter
  <2>1. PICK S \in SUBSET Combatants :
           MayBring(S) /\ Write(Joined([Empty EXCEPT !.status = "setup"], S))
    BY <1>1 DEF StartEncounter
  <2> DEFINE x == [Empty EXCEPT !.status = "setup"]
  <2>2. /\ x \in CombatType /\ x.fighters = {} /\ x.status = "setup"
        /\ x.turn = [c \in Combatants |-> "idle"] /\ x.initiative = [c \in Combatants |-> 0]
        /\ x.saves = {} /\ x.asks = {} /\ x.damage = {}
    BY EmptyType DEF Empty, CombatType, Status
  <2> HIDE DEF x
  <2>3. x \in Good
    BY <2>2 DEF Good, GoodTurn
  <2>4. x \in Fit
    BY <2>2 DEF Fit, Casting, Quiet, WaitsOwn, Creature
  <2>5. S \in SUBSET (Combatants \ x.fighters)
    BY <2>2
  <2>6. Joined(x, S) \subseteq Fit
    BY <2>1, <2>3, <2>4, <2>5, JoinedFit
  <2> QED BY <2>1, <2>6 DEF Handed, Write, x
<1>2. CASE AddCombatants
  <2>1. PICK S \in SUBSET (Combatants \ combat.fighters) : MayBring(S) /\ Write(Joined(combat, S))
    BY <1>2 DEF AddCombatants
  <2>2. Joined(combat, S) \subseteq Fit
    BY <2>1, JoinedFit
  <2> QED BY <2>1, <2>2 DEF Handed, Write
<1>3. CASE BeginCombat
  <2> DEFINE top == Highest(combat, Living(combat))
             head == FirstOf(combat, combat.fighters)
  <2>1. combat.saves = {} /\ combat.asks = {}
    BY <1>0, <1>3 DEF BeginCombat, Quiet
  <2>2. top \in SUBSET combat.fighters /\ head \in SUBSET combat.fighters
    BY DEF Highest, Living, FirstOf
  <2>3. PICK groups \in SUBSET {top, head} :
           Write(UNION {StartTurn(combat, ids, 1) : ids \in groups})
    BY <1>3 DEF BeginCombat
  <2> HIDE DEF top, head
  <2>4. UNION {StartTurn(combat, ids, 1) : ids \in groups} \subseteq Fit
    BY <1>0, <2>1, <2>2, StartAloneFit
  <2> QED BY <2>3, <2>4 DEF Handed, Write
<1>4. ASSUME NEW c \in Combatants, NEW total \in 1..MaxInitiative, SubmitInitiative(c, total)
      PROVE  Handed
  <2> DEFINE x == [combat EXCEPT !.initiative =
                     [d \in Combatants |-> IF d \in RollGroup(c) THEN total ELSE @[d]]]
             y == Ordered(x)
  <2>1. x \in CombatType
    BY <1>0, BoundsAssumption DEF CombatType
  <2>2. /\ x.fighters = combat.fighters /\ x.status = combat.status
        /\ x.initiative = [d \in Combatants |-> IF d \in RollGroup(c) THEN total ELSE combat.initiative[d]]
        /\ x.saves = combat.saves /\ x.asks = combat.asks /\ x.damage \subseteq combat.damage
    BY <1>0 DEF CombatType
  <2>3. combat.status = "setup" /\ c \in combat.fighters
    BY <1>4 DEF SubmitInitiative
  <2>4. Write({Ordered(x)})
    BY <1>4 DEF SubmitInitiative
  <2> HIDE DEF x
  <2>5. /\ y \in CombatType /\ y.fighters = x.fighters /\ y.status = x.status
        /\ y.initiative = x.initiative
    BY <2>1, OrderedType, OrderedKeeps
  <2>6. y.saves = x.saves /\ y.asks = x.asks /\ y.damage \subseteq x.damage
    BY <2>1 DEF Ordered, CombatType
  <2> HIDE DEF y
  <2>7. Creature(y) = Creature(combat) /\ Creature(combat) \subseteq Combatants
        /\ combat.fighters \subseteq Combatants
    BY <1>0, <2>2, <2>5 DEF Creature, Combatants, CombatType
  <2>8. RollGroup(c) \subseteq combat.fighters
        /\ (RollGroup(c) \cap Creatures = {} \/ RollGroup(c) = Creature(combat))
    BY <2>3 DEF RollGroup, Creature
  <2>9. \A a, b \in Creature(y) : y.initiative[a] = y.initiative[b]
    BY <1>0, <2>2, <2>5, <2>7, <2>8 DEF Casting, Creature
  <2>10. \A a \in Combatants \ y.fighters : y.initiative[a] = 0
    BY <1>0, <2>2, <2>5, <2>8 DEF Casting
  <2>11. Casting(y)
    BY <1>0, <2>2, <2>5, <2>7, <2>9, <2>10 DEF Casting
  <2>12. Quiet(y) /\ WaitsOwn(y)
    BY <1>0, <2>2, <2>3, <2>5, <2>6 DEF Quiet, WaitsOwn
  <2>13. y \in Fit
    BY <2>5, <2>11, <2>12 DEF Fit
  <2> QED BY <2>4, <2>13 DEF Handed, Write, y
<1>5. ASSUME NEW T \in SUBSET Combatants, SetInitiativeOrder(T)
      PROVE  Handed
  <2>1. PICK place \in [T -> {combat.place[c] : c \in T}] :
           Write({[combat EXCEPT !.place =
                [c \in Combatants |-> IF c \in T THEN place[c] ELSE @[c]]]})
    BY <1>5 DEF SetInitiativeOrder
  <2> DEFINE x == [combat EXCEPT !.place = [c \in Combatants |-> IF c \in T THEN place[c] ELSE @[c]]]
  <2>2. x \in CombatType
    BY <1>0 DEF CombatType
  <2>3. /\ x.status = combat.status /\ x.turn = combat.turn /\ x.fighters = combat.fighters
        /\ x.initiative = combat.initiative /\ x.defeated = combat.defeated
        /\ x.saves = combat.saves /\ x.asks = combat.asks /\ x.damage \subseteq combat.damage
    BY <1>0 DEF CombatType
  <2>4. Write({x})
    BY <2>1
  <2> HIDE DEF x
  <2>5. x \in Fit
    BY <2>2, <2>3, SameFit DEF Dead, Asked
  <2> QED BY <2>4, <2>5 DEF Handed, Write
<1> QED BY <1>1, <1>2, <1>3, <1>4, <1>5 DEF Setup

(* Who ends a part, the turns that start again and the saves.              *)
LEMMA TurnsHands ==
  ASSUME combat \in Fit, Turns
  PROVE  Handed
<1>0. combat \in CombatType /\ Casting(combat) /\ Quiet(combat)
  BY DEF Fit
<1>1. ASSUME NEW c \in Combatants, NEW drop \in BOOLEAN, EndTurn(c, drop)
      PROVE  Handed
  <2>1. PICK saves \in SUBSET {<<c, "end">>} :
           Write(PassTheTurn(PartEnded(c, PendingOf(c), saves), c))
    BY <1>1 DEF EndTurn
  <2>2. /\ combat.status = "active" /\ c \in combat.fighters
        /\ combat.saves = {} /\ combat.asks \subseteq PendingOf(c)
    BY <1>1 DEF EndTurn
  <2> DEFINE x == PartEnded(c, PendingOf(c), saves)
  <2>3. x \in CombatType
    BY <1>0, PartEndedType
  <2>4. /\ x.status = combat.status /\ x.fighters = combat.fighters
        /\ x.initiative = combat.initiative /\ x.defeated = combat.defeated
        /\ x.turn = [combat.turn EXCEPT ![c] = "ended"]
        /\ x.saves = combat.saves \cup saves /\ x.asks = combat.asks \ PendingOf(c)
    BY <1>0 DEF PartEnded, CombatType
  <2> HIDE DEF x
  <2>5. x.asks = {} /\ x.saves \subseteq {<<c, "end">>} /\ x.turn[c] = "ended"
    BY <1>0, <2>2, <2>4 DEF CombatType
  <2>6. Casting(x) /\ Quiet(x)
    BY <1>0, <2>2, <2>4 DEF Casting, Quiet, Creature
  <2>7. ASSUME NEW y \in CombatType,
               y.status = x.status, y.turn = x.turn, y.fighters = x.fighters,
               y.initiative = x.initiative, y.saves = x.saves, y.asks = x.asks
        PROVE  y \in Fit
    <3>1. c \in Members(y)
      BY <2>2, <2>4, <2>5, <2>7 DEF Members
    <3>2. \A w \in y.saves : w[1] = c
      BY <2>5, <2>7
    <3>3. WaitsOwn(y)
      BY <2>5, <2>7, <3>1, <3>2 DEF WaitsOwn
    <3>4. Casting(y) /\ Quiet(y)
      BY <2>2, <2>4, <2>6, <2>7 DEF Casting, Quiet, Creature
    <3> QED BY <2>7, <3>3, <3>4 DEF Fit
  <2>8. ASSUME NEW y \in PassTheTurn(x, c)
        PROVE  y \in Fit
    <3>1. CASE y = x
      BY <2>3, <2>7, <3>1
    <3>2. CASE \E o \in FirstOf(x, OthersActing(combat, c)) : y = [x EXCEPT !.current = o]
      <4>1. PICK o \in Combatants : y = [x EXCEPT !.current = o]
        BY <1>0, <3>2 DEF FirstOf, OthersActing, Acting, CombatType
      <4>2. /\ y \in CombatType
            /\ y.status = x.status /\ y.turn = x.turn /\ y.fighters = x.fighters
            /\ y.initiative = x.initiative /\ y.saves = x.saves /\ y.asks = x.asks
            /\ y.damage \subseteq x.damage
        BY <2>3, <4>1 DEF CombatType
      <4> QED BY <2>7, <4>2
    <3>3. CASE y \in StartTurn(x, NextGroup(x, c, {}), NextRound(x, x, c, {}))
      <4> DEFINE ids == NextGroup(x, c, {})
                 r == NextRound(x, x, c, {})
      <4>1. ids \in SUBSET x.fighters /\ ids \cap Dead(x) = {} /\ r \in Nat
        BY <2>3, NextGroupLives, NextRoundType DEF Living, Dead
      <4>2. y \in StartTurn(x, ids, r)
        BY <3>3
      <4> HIDE DEF ids, r
      <4> QED BY <2>3, <2>6, <4>1, <4>2, StartTurnFit
    <3> QED BY <3>1, <3>2, <3>3 DEF PassTheTurn
  <2> QED BY <2>1, <2>8 DEF Handed, Write, x
<1>2. CASE RestartTurns
  <2> DEFINE x == [combat EXCEPT !.had = {}, !.owed = Living(combat)]
             ids == Highest(combat, Living(combat))
  <2>1. x \in CombatType /\ x.fighters = combat.fighters /\ x.initiative = combat.initiative
        /\ x.defeated = combat.defeated
    BY <1>0 DEF CombatType, Living
  <2>2. ids \subseteq Living(combat)
    BY DEF Highest
  <2>3. combat.round \in Nat
    BY <1>0 DEF CombatType
  <2>4. Write(StartTurn(x, ids, combat.round))
    BY <1>2 DEF RestartTurns
  <2> HIDE DEF x, ids
  <2>5. ids \in SUBSET x.fighters /\ ids \cap Dead(x) = {} /\ Casting(x)
    BY <1>0, <2>1, <2>2 DEF Living, Dead, Casting, Creature
  <2>6. StartTurn(x, ids, combat.round) \subseteq Fit
    BY <2>1, <2>3, <2>5, StartTurnFit
  <2> QED BY <2>4, <2>6 DEF Handed, Write
<1>3. ASSUME NEW w \in combat.saves, RollEffectSave(w)
      PROVE  Handed
  <2> DEFINE x == [combat EXCEPT !.saves = @ \ {w}]
  <2>1. x \in CombatType
    BY <1>0 DEF CombatType
  <2>2. /\ x.status = combat.status /\ x.turn = combat.turn /\ x.fighters = combat.fighters
        /\ x.initiative = combat.initiative /\ x.defeated = combat.defeated
        /\ x.saves \subseteq combat.saves /\ x.asks = combat.asks
        /\ x.damage \subseteq combat.damage
    BY <1>0 DEF CombatType
  <2>3. Write({x})
    BY <1>3 DEF RollEffectSave
  <2> HIDE DEF x
  <2>4. x \in Fit
    BY <2>1, <2>2, SameFit DEF Dead, Asked
  <2> QED BY <2>3, <2>4 DEF Handed, Write
<1> QED BY <1>1, <1>2, <1>3 DEF Turns

(* The hits of a turn.                                                     *)
LEMMA HitsHands ==
  ASSUME combat \in Fit, Hits
  PROVE  Handed
<1>0. combat \in CombatType /\ Casting(combat) /\ Quiet(combat)
  BY DEF Fit
<1>1. ASSUME NEW a \in Combatants, NEW t \in Combatants, NEW asks \in BOOLEAN, RollAttack(a, t, asks)
      PROVE  Handed
  <2> DEFINE x == [combat EXCEPT !.damage = @ \cup {<<a, t>>},
                                 !.asks = IF asks THEN @ \cup {<<a, t>>} ELSE @]
  <2>1. x \in CombatType
    BY <1>0, AttackType
  <2>2. /\ x.status = combat.status /\ x.turn = combat.turn /\ x.fighters = combat.fighters
        /\ x.initiative = combat.initiative /\ x.defeated = combat.defeated
    BY <1>0 DEF CombatType
  <2>3. Write({x}) /\ combat.status = "active" /\ combat.turn[a] = "acting" /\ a \in Living(combat)
    BY <1>1 DEF RollAttack
  <2> HIDE DEF x
  <2>4. a \in Acting(x) /\ a \notin Dead(x)
    BY <2>2, <2>3 DEF Acting, Living, Dead
  <2>5. Casting(x) /\ Quiet(x) /\ WaitsOwn(x)
    BY <1>0, <2>2, <2>3, <2>4 DEF Casting, Quiet, Creature, WaitsOwn
  <2>6. x \in Fit
    BY <2>1, <2>5 DEF Fit
  <2> QED BY <2>3, <2>6 DEF Handed, Write
<1>2. ASSUME NEW d \in combat.asks, NEW miss \in BOOLEAN, AnswerReaction(d, miss)
      PROVE  Handed
  <2> DEFINE x == [combat EXCEPT !.asks = @ \ {d}, !.damage = IF miss THEN @ \ {d} ELSE @]
  <2>1. x \in CombatType
    BY <1>0 DEF CombatType
  <2>2. /\ x.status = combat.status /\ x.turn = combat.turn /\ x.fighters = combat.fighters
        /\ x.initiative = combat.initiative /\ x.defeated = combat.defeated
        /\ x.saves = combat.saves /\ x.asks \subseteq combat.asks
        /\ x.damage \subseteq combat.damage
    BY <1>0 DEF CombatType
  <2>3. Write({x})
    BY <1>2 DEF AnswerReaction
  <2> HIDE DEF x
  <2>4. x \in Fit
    BY <2>1, <2>2, SameFit DEF Dead, Asked
  <2> QED BY <2>3, <2>4 DEF Handed, Write
<1>3. ASSUME NEW d \in combat.damage, NEW down \in BOOLEAN, LandDamage(d, down)
      PROVE  Handed
  <2>1. PICK asked \in DamageAsks(d[2]) : Write({Landed(d, down, asked)})
    BY <1>3 DEF LandDamage
  <2> DEFINE x == Landed(d, down, asked)
  <2>2. /\ x \in CombatType /\ d[2] \in Combatants
        /\ x.status = combat.status /\ x.turn = combat.turn /\ x.fighters = combat.fighters
        /\ x.initiative = combat.initiative
        /\ x.defeated = combat.defeated \cup (IF down THEN {d[2]} ELSE {})
        /\ x.saves = combat.saves \cup asked /\ x.asks = combat.asks
        /\ x.damage \subseteq combat.damage
        /\ x.damage = combat.damage \ {d}
    BY <1>0, <2>1, LandedFields
  <2>3. Write({x}) /\ (down => d[2] \in NonPlayers) /\ combat.status = "active"
    BY <1>0, <1>3, <2>1 DEF LandDamage, NotEnded, Quiet
  <2> HIDE DEF x
  <2>4. Dead(x) = Dead(combat)
    BY <2>2, <2>3, NoPlayerIsNot DEF Dead
  <2>5. Asked(combat, x, Combatants \ Creatures)
    BY <2>1, <2>2, DamageAsksOf DEF Asked
  <2>6. x \in Fit
    BY <2>2, <2>3, <2>4, <2>5, SameFit DEF Asked
  <2> QED BY <2>3, <2>6 DEF Handed, Write
<1>4. ASSUME NEW d \in combat.damage, DiscardPendingDamage(d)
      PROVE  Handed
  <2> DEFINE x == [combat EXCEPT !.damage = @ \ {d}]
  <2>1. x \in CombatType
    BY <1>0 DEF CombatType
  <2>2. /\ x.status = combat.status /\ x.turn = combat.turn /\ x.fighters = combat.fighters
        /\ x.initiative = combat.initiative /\ x.defeated = combat.defeated
        /\ x.saves = combat.saves /\ x.asks = combat.asks /\ x.damage \subseteq combat.damage
    BY <1>0 DEF CombatType
  <2>3. Write({x})
    BY <1>4 DEF DiscardPendingDamage
  <2> HIDE DEF x
  <2>4. x \in Fit
    BY <2>1, <2>2, SameFit DEF Dead, Asked
  <2> QED BY <2>3, <2>4 DEF Handed, Write
<1> QED BY <1>1, <1>2, <1>3, <1>4 DEF Hits

(* Who falls, dies or is removed.                                          *)
LEMMA LeavingHands ==
  ASSUME combat \in Good, combat \in Fit
  PROVE  /\ \A c \in Combatants, down \in BOOLEAN : AdjustHitPoints(c, down) => Handed
         /\ \A p \in Players : ConfirmDeath(p) => Handed
         /\ \A c \in Combatants : RemoveCombatant(c) => Handed
<1>0. combat \in CombatType /\ Casting(combat) /\ Quiet(combat) /\ WaitsOwn(combat)
  BY DEF Fit
<1>1. ASSUME NEW c \in Combatants, NEW down \in BOOLEAN, AdjustHitPoints(c, down)
      PROVE  Handed
  <2>0. c \in NonPlayers
    BY <1>1 DEF AdjustHitPoints
  <2>1. CASE \E asked \in SUBSET combat.saves : Write({EffectsEnd(Defeat(combat, {c}), asked)})
    <3>1. PICK asked \in SUBSET combat.saves : Write({EffectsEnd(Defeat(combat, {c}), asked)})
      BY <2>1
    <3> DEFINE x == EffectsEnd(Defeat(combat, {c}), asked)
    <3>2. x \in CombatType
      <4>1. {c} \in SUBSET Combatants
        OBVIOUS
      <4> QED BY <1>0, <4>1, DefeatType, EffectsEndType
    <3>3. /\ x.status = combat.status /\ x.turn = combat.turn /\ x.fighters = combat.fighters
          /\ x.initiative = combat.initiative /\ x.defeated = combat.defeated \cup {c}
          /\ x.saves = combat.saves \ asked /\ x.asks = combat.asks
          /\ x.damage \subseteq combat.damage
      BY <1>0 DEF EffectsEnd, Defeat, CombatType
    <3>4. Write({x})
      BY <3>1
    <3> HIDE DEF x
    <3>5. Dead(x) = Dead(combat)
      BY <2>0, <3>3, NoPlayerIsNot DEF Dead
    <3>6. x \in Fit
      BY <3>2, <3>3, <3>5, SameFit DEF Asked
    <3> QED BY <3>4, <3>6 DEF Handed, Write
  <2>2. CASE Write({[combat EXCEPT !.defeated = @ \ {c}]})
    <3> DEFINE x == [combat EXCEPT !.defeated = @ \ {c}]
    <3>1. x \in CombatType
      BY <1>0 DEF CombatType
    <3>2. /\ x.status = combat.status /\ x.turn = combat.turn /\ x.fighters = combat.fighters
          /\ x.initiative = combat.initiative /\ x.defeated = combat.defeated \ {c}
          /\ x.saves = combat.saves /\ x.asks = combat.asks /\ x.damage \subseteq combat.damage
      BY <1>0 DEF CombatType
    <3>3. Write({x})
      BY <2>2
    <3> HIDE DEF x
    <3>4. Dead(x) = Dead(combat)
      BY <2>0, <3>2, NoPlayerIsNot DEF Dead
    <3>5. x \in Fit
      BY <3>1, <3>2, <3>4, SameFit DEF Asked
    <3> QED BY <3>3, <3>5 DEF Handed, Write
  <2> QED BY <1>1, <2>1, <2>2 DEF AdjustHitPoints
<1>2. ASSUME NEW p \in Players, ConfirmDeath(p)
      PROVE  Handed
  <2>1. PICK asked \in SUBSET combat.saves :
           Write(LeaveTurn(EffectsEnd(Defeat(combat, {p}), asked), combat, p))
    BY <1>2 DEF ConfirmDeath
  <2>0. p \in Combatants /\ p \in combat.fighters
    BY <1>2 DEF ConfirmDeath, Combatants, Living
  <2> DEFINE x == EffectsEnd(Defeat(combat, {p}), asked)
  <2>2. x \in CombatType
    <3>1. {p} \in SUBSET Combatants
      BY <2>0
    <3> QED BY <1>0, <3>1, DefeatType, EffectsEndType
  <2>3. /\ x.status = combat.status /\ x.turn = combat.turn /\ x.fighters = combat.fighters
        /\ x.initiative = combat.initiative /\ x.defeated = combat.defeated \cup {p}
        /\ x.saves = combat.saves \ asked /\ x.asks = combat.asks
        /\ x.damage \subseteq combat.damage
    BY <1>0 DEF EffectsEnd, Defeat, CombatType
  <2>4. PICK y \in LeaveTurn(x, combat, p) : combat' \in Settle(y)
    BY <2>1 DEF Write
  <2> HIDE DEF x
  <2>5. Casting(x) /\ Quiet(x) /\ Dead(x) = Dead(combat) \cup {p}
    BY <1>0, <2>3 DEF Casting, Quiet, Creature, Dead
  <2>6. /\ y \in CombatType /\ Casting(y) /\ Quiet(y) /\ Outcome(x, combat, p, y)
        /\ y.fighters = x.fighters /\ y.initiative = x.initiative /\ Dead(y) = Dead(x)
        /\ y.asks = x.asks
    <3>1. Dead(x) \subseteq Dead(combat) \cup {p}
      BY <2>5
    <3>2. x.fighters = combat.fighters /\ Casting(x) /\ Quiet(x)
      BY <2>3, <2>5
    <3> QED BY <1>0, <2>0, <2>2, <2>4, <3>1, <3>2, LeftTurn
  <2>7. WaitsOwn(y)
    <3>1. CASE y = x /\ x.status # "active"
      BY <3>1 DEF WaitsOwn
    <3>2. CASE y = x /\ combat.turn[p] = "idle"
      <4>1. Members(y) = Members(combat) /\ Acting(y) = Acting(combat) /\ p \notin Members(combat)
        BY <2>3, <3>2 DEF Members, Acting
      <4>2. Acting(y) \subseteq Dead(y) => Acting(combat) \subseteq Dead(combat)
        BY <2>5, <3>2, <4>1 DEF Members, Acting
      <4> QED BY <1>0, <2>3, <3>2, <4>1, <4>2 DEF WaitsOwn
    <3>3. CASE /\ y.status = x.status /\ y.turn = x.turn /\ y.saves = x.saves
               /\ \E o \in x.fighters \ {p} : combat.turn[o] = "acting" /\ o \notin Dead(x)
      <4>1. PICK o \in x.fighters \ {p} : combat.turn[o] = "acting" /\ o \notin Dead(x)
        BY <3>3
      <4>2. o \in Acting(y) /\ o \notin Dead(y)
        BY <2>3, <2>6, <3>3, <4>1 DEF Acting
      <4> QED BY <4>2 DEF WaitsOwn
    <3>4. CASE Alert(y)
      BY <3>4, AlertWaits
    <3> QED BY <2>6, <3>1, <3>2, <3>3, <3>4 DEF Outcome
  <2> QED BY <2>4, <2>6, <2>7 DEF Handed, Fit
<1>3. ASSUME NEW c \in Combatants, RemoveCombatant(c)
      PROVE  Handed
  <2>9. PICK asked : \E x \in LeaveTurn(EffectsEnd(combat, asked), combat, c) :
           combat' \in Settle(Without(x, Leavers(c)))
    BY <1>3 DEF RemoveCombatant, Write
  <2> DEFINE e == EffectsEnd(combat, asked)
  <2>8. /\ e \in CombatType /\ Casting(e) /\ Quiet(e) /\ Dead(e) = Dead(combat) /\ Follows(e, combat)
        /\ e.status = combat.status /\ e.turn = combat.turn /\ e.fighters = combat.fighters
        /\ e.initiative = combat.initiative /\ e.defeated = combat.defeated /\ e.place = combat.place
        /\ e.asks = combat.asks /\ e.saves \subseteq combat.saves
        /\ e.damage \subseteq combat.damage
    <3>1. Follows(combat, combat)
      BY <1>0 DEF Follows
    <3> QED BY <1>0, <3>1, EndedFollows
  <2>1. PICK x \in LeaveTurn(e, combat, c) : combat' \in Settle(Without(x, Leavers(c)))
    BY <2>9
  <2> HIDE DEF e
  <2>0. c \in combat.fighters /\ MayLeave(c)
    BY <1>3 DEF RemoveCombatant
  <2> DEFINE y == Without(x, Leavers(c))
  <2>2. combat' \in Settle(y)
    BY <2>1
  <2>3. CASE combat.status = "active"
    <3>1. c \in NonPlayers /\ Leavers(c) = {c}
      BY <2>0, <2>3, CombatantsAssumption, NoPlayerIsNot DEF MayLeave, Leavers
    <3>2. x \in CombatType
      <4>1. Dead(e) \subseteq Dead(combat) \cup {c}
        BY <2>8
      <4> QED BY <1>0, <2>1, <2>8, <4>1, LeftTurn
    <3>3. RowGone(x, c, y)
      <4> DEFINE S == {c}
      <4>1. S \in SUBSET Combatants /\ y = Without(x, S)
        BY <3>1
      <4> HIDE DEF S, y
      <4>2. /\ y \in CombatType /\ y.status = x.status
            /\ y.fighters = x.fighters \ S /\ y.defeated = x.defeated \ S
            /\ y.turn = [d \in Combatants |-> IF d \in S THEN "idle" ELSE x.turn[d]]
            /\ y.initiative = [d \in Combatants |-> IF d \in S THEN 0 ELSE x.initiative[d]]
            /\ y.saves = {w \in x.saves : w[1] \notin S}
            /\ y.asks = {d \in x.asks : {d[1], d[2]} \cap S = {}} /\ y.damage \subseteq x.damage
        BY <3>2, <4>1, WithoutFields
      <4>3. y.asks \subseteq x.asks
        BY <4>2
      <4> QED BY <4>2, <4>3 DEF RowGone, S
    <3> HIDE DEF y
    <3>4. c \in NonPlayers /\ c \in e.fighters
      BY <2>0, <2>8, <3>1
    <3>5. y \in CombatType /\ Casting(y) /\ Quiet(y) /\ Follows(y, combat)
      BY <1>0, <2>1, <2>8, <3>3, <3>4, GoneFollows
    <3>6. y \in Fit
      BY <3>5, AlertWaits DEF Follows, Fit
    <3> QED BY <2>2, <3>6 DEF Handed
  <2>4. CASE combat.status # "active"
    <3> DEFINE S == Leavers(c)
    <3>1. x = e /\ e.status # "active"
      BY <2>1, <2>4, <2>8 DEF LeaveTurn
    <3>9. y = Without(x, S)
      OBVIOUS
    <3>2. S \in SUBSET Combatants
      BY DEF Leavers, Combatants
    <3>3. Owner \in S => Creatures \subseteq S
      BY CombatantsAssumption DEF Leavers
    <3>4. x \in CombatType
      BY <2>8, <3>1
    <3> HIDE DEF S, y
    <3>5. /\ y \in CombatType /\ y.status = x.status
          /\ y.fighters = x.fighters \ S /\ y.defeated = x.defeated \ S
          /\ y.turn = [d \in Combatants |-> IF d \in S THEN "idle" ELSE x.turn[d]]
          /\ y.initiative = [d \in Combatants |-> IF d \in S THEN 0 ELSE x.initiative[d]]
          /\ y.saves = {w \in x.saves : w[1] \notin S}
          /\ y.asks = {d \in x.asks : {d[1], d[2]} \cap S = {}} /\ y.damage \subseteq x.damage
      BY <3>2, <3>4, <3>9, WithoutFields
    <3>6. y.saves = {} /\ y.asks = {}
      BY <2>8, <3>1, <3>5 DEF Quiet
    <3>7. Casting(y)
      BY <2>8, <3>1, <3>2, <3>3, <3>5, WithoutCasting
    <3>8. Quiet(y) /\ WaitsOwn(y)
      BY <2>8, <3>1, <3>5, <3>6 DEF Quiet, WaitsOwn
    <3> QED BY <2>2, <3>5, <3>7, <3>8 DEF Handed, Fit
  <2> QED BY <2>3, <2>4
<1> QED BY <1>1, <1>2, <1>3

(* A return to life takes out of the turn a dead player, for whom nothing  *)
(* of the others waited.                                                   *)
LEMMA ReviveFit ==
  ASSUME combat \in Good, combat \in Fit, Fenced(combat), NEW p \in Players, ReviveInCombat(p)
  PROVE  combat' \in Fit /\ Fenced(combat')
<1>0. combat \in CombatType /\ Casting(combat) /\ Quiet(combat) /\ WaitsOwn(combat)
  BY DEF Fit
<1>1. p \in Dead(combat) /\ p \in Combatants /\ p \notin Creatures
  BY CombatantsAssumption DEF ReviveInCombat, Dead, Combatants
<1>2. combat' \in CombatType
  BY <1>0, <1>1 DEF ReviveInCombat, CombatType, TurnState
<1>3. /\ combat'.status = combat.status /\ combat'.fighters = combat.fighters
      /\ combat'.turn = [combat.turn EXCEPT ![p] = "idle"]
      /\ combat'.defeated = combat.defeated \ {p} /\ combat'.initiative = combat.initiative
      /\ combat'.saves = combat.saves /\ combat'.asks = combat.asks
      /\ combat'.damage \subseteq combat.damage
  BY <1>0 DEF ReviveInCombat, CombatType
<1> DEFINE y == combat'
<1> HIDE DEF y
<1>4. /\ y \in CombatType /\ y.status = combat.status /\ y.fighters = combat.fighters
      /\ y.turn = [combat.turn EXCEPT ![p] = "idle"]
      /\ y.defeated = combat.defeated \ {p} /\ y.initiative = combat.initiative
      /\ y.saves = combat.saves /\ y.asks = combat.asks /\ y.damage \subseteq combat.damage
  BY <1>2, <1>3 DEF y
<1>5. Casting(y) /\ Quiet(y) /\ Fenced(y)
  BY <1>0, <1>4 DEF Casting, Quiet, Creature, Fenced
<1>6. Members(y) = Members(combat) \ {p} /\ Acting(y) = Acting(combat) \ {p}
      /\ Dead(y) = Dead(combat) \ {p}
  <2>1. \A a \in combat.fighters : y.turn[a] = IF a = p THEN "idle" ELSE combat.turn[a]
    BY <1>0, <1>4 DEF CombatType
  <2>2. Members(y) = Members(combat) \ {p}
    BY <1>4, <2>1 DEF Members
  <2>3. Acting(y) = Acting(combat) \ {p}
    BY <1>4, <2>1 DEF Acting
  <2> QED BY <1>4, <2>2, <2>3 DEF Dead
<1>7. WaitsOwn(y)
  <2>1. Acting(y) \subseteq Dead(y) => Acting(combat) \subseteq Dead(combat)
    BY <1>1, <1>6
  <2> QED BY <1>0, <1>1, <1>4, <1>6, <2>1 DEF WaitsOwn
<1> QED BY <1>4, <1>5, <1>7 DEF Fit, y

(* A combat that ended waits for nobody.                                   *)
LEMMA EndFit ==
  ASSUME combat \in Fit, EndEncounter
  PROVE  combat' \in Fit /\ Fenced(combat')
<1>0. combat \in CombatType /\ Casting(combat)
  BY DEF Fit
<1>1. combat' \in CombatType
  BY <1>0 DEF EndEncounter, CombatType, Status
<1>2. /\ combat'.status = "ended" /\ combat'.fighters = combat.fighters
      /\ combat'.initiative = combat.initiative /\ combat'.saves = {} /\ combat'.asks = {}
  BY <1>0 DEF EndEncounter, CombatType
<1> QED BY <1>0, <1>1, <1>2 DEF Fit, Casting, Quiet, Creature, WaitsOwn, Fenced

------------------------------------------------------------------------------
(* Many leave in one call, one after another in the order they are in.     *)

(* How many of S are before o.                                             *)
Rank(x, S, o) == Cardinality(Ahead(x, S, o))

(* Who is before somebody of a line are those with fewer before them, and  *)
(* no two have as many.                                                    *)
LEMMA Ranks ==
  ASSUME NEW x \in CombatType, Placed(x), NEW S \in SUBSET x.fighters
  PROVE  /\ Cardinality(S) \in Nat
         /\ \A c \in S : Rank(x, S, c) \in Nat /\ Rank(x, S, c) < Cardinality(S)
         /\ \A c \in S : Ahead(x, S, c) = {o \in S : Rank(x, S, o) < Rank(x, S, c)}
         /\ \A a, b \in S : Rank(x, S, a) = Rank(x, S, b) => a = b
<1>0. IsFiniteSet(S) /\ Cardinality(S) \in Nat
  BY CombatantsFinite, FS_Subset, FS_CardinalityType DEF CombatType
<1>1. \A c \in S : Ahead(x, S, c) \in SUBSET S /\ c \notin Ahead(x, S, c)
  BY PrecedesOrder DEF Ahead
<1>2. ASSUME NEW c \in S
      PROVE  /\ IsFiniteSet(Ahead(x, S, c))
             /\ Rank(x, S, c) \in Nat /\ Rank(x, S, c) < Cardinality(S)
  <2> DEFINE A == Ahead(x, S, c)
  <2>1. A \in SUBSET S /\ c \notin A /\ A # S
    BY <1>1
  <2>2. IsFiniteSet(A) /\ Cardinality(A) \in Nat
    <3> HIDE DEF A
    <3> QED BY <1>0, <2>1, FS_Subset, FS_CardinalityType
  <2>3. Cardinality(A) <= Cardinality(S) /\ Cardinality(A) # Cardinality(S)
    <3> HIDE DEF A
    <3> QED BY <1>0, <2>1, FS_Subset
  <2>4. Cardinality(A) < Cardinality(S)
    <3> HIDE DEF A
    <3> QED BY <1>0, <2>2, <2>3
  <2> QED BY <2>2, <2>4 DEF Rank
<1>3. ASSUME NEW a \in S, NEW b \in S, Precedes(x, a, b)
      PROVE  Rank(x, S, a) < Rank(x, S, b)
  <2> DEFINE A == Ahead(x, S, a)
             B == Ahead(x, S, b)
  <2>1. A \in SUBSET B
    BY <1>3, PrecedesOrder DEF Ahead
  <2>2. a \in B /\ a \notin A
    BY <1>3, PrecedesOrder DEF Ahead
  <2>3. IsFiniteSet(B) /\ Cardinality(A) \in Nat /\ Cardinality(B) \in Nat
    BY <1>2 DEF Rank
  <2>4. Cardinality(A) < Cardinality(B)
    <3> HIDE DEF A, B
    <3>1. Cardinality(A) <= Cardinality(B) /\ Cardinality(A) # Cardinality(B)
      BY <2>1, <2>2, <2>3, FS_Subset
    <3> QED BY <2>3, <3>1
  <2> QED BY <2>4 DEF Rank
<1>4. ASSUME NEW a \in S, NEW b \in S, a # b
      PROVE  Precedes(x, a, b) \/ Precedes(x, b, a)
  BY <1>4, PrecedesTotal
<1>5. \A a, b \in S : Rank(x, S, a) = Rank(x, S, b) => a = b
  BY <1>2, <1>3, <1>4
<1>6. ASSUME NEW c \in S
      PROVE  Ahead(x, S, c) = {o \in S : Rank(x, S, o) < Rank(x, S, c)}
  <2>1. \A o \in S : Precedes(x, o, c) <=> Rank(x, S, o) < Rank(x, S, c)
    BY <1>2, <1>3, <1>4
  <2> QED BY <2>1 DEF Ahead
<1> QED BY <1>0, <1>2, <1>5, <1>6

(* A set of numbers that has one has a least.                              *)
LEMMA LeastNumber ==
  ASSUME NEW S \in SUBSET Nat, S # {}
  PROVE  \E i \in S : \A j \in S : i <= j
<1>1. PICK x \in S : \A y \in S : ~(<<y, x>> \in OpToRel(<, Nat))
  BY NatLessThanWellFounded, WFMin
<1>2. ASSUME NEW y \in S
      PROVE  x <= y
  <2>1. <<y, x>> \in Nat \X Nat
    OBVIOUS
  <2>2. ~(<<y, x>>[1] < <<y, x>>[2])
    BY <1>1, <2>1 DEF OpToRel
  <2> QED BY <2>1, <2>2
<1> QED BY <1>2

(* What is left after each number of them went, up to m.                   *)
LeftUpTo(x, drop, dismiss, m, f) ==
    f = [k \in 0..m |-> IF k = 0 THEN {x} ELSE DropOne(x, drop, dismiss, k, f[k - 1])]

(* The function there is for one fewer is extended by one.                 *)
LEMMA LeftIsExtended ==
  ASSUME NEW x, NEW drop, NEW dismiss, NEW m \in Nat, m # 0,
         NEW f, LeftUpTo(x, drop, dismiss, m - 1, f)
  PROVE  \E g : LeftUpTo(x, drop, dismiss, m, g)
<1> DEFINE One(k, left) == DropOne(x, drop, dismiss, k, left)
           g == [k \in 0..m |-> IF k = m THEN One(m, f[m - 1]) ELSE f[k]]
<1>1. f = [k \in 0..(m - 1) |-> IF k = 0 THEN {x} ELSE One(k, f[k - 1])]
  BY DEF LeftUpTo
<1> HIDE DEF One
<1>2. g[m] = One(m, f[m - 1]) /\ \A k \in 0..(m - 1) : g[k] = f[k]
  OBVIOUS
<1>3. ASSUME NEW k \in 0..m
      PROVE  g[k] = IF k = 0 THEN {x} ELSE One(k, g[k - 1])
  <2>1. CASE k = m
    <3>1. g[m - 1] = f[m - 1]
      BY <1>2
    <3> QED BY <1>2, <2>1, <3>1
  <2>2. CASE k # m
    <3>1. k \in 0..(m - 1) /\ (k # 0 => k - 1 \in 0..(m - 1))
      BY <2>2
    <3>2. g[k] = f[k] /\ (k # 0 => g[k - 1] = f[k - 1])
      BY <1>2, <3>1
    <3>3. f[k] = IF k = 0 THEN {x} ELSE One(k, f[k - 1])
      BY <1>1, <3>1
    <3> QED BY <3>2, <3>3
  <2> QED BY <2>1, <2>2
<1>4. g = [k \in 0..m |-> g[k]]
  OBVIOUS
<1> HIDE DEF g
<1>5. g = [k \in 0..m |-> IF k = 0 THEN {x} ELSE One(k, g[k - 1])]
  BY <1>3, <1>4
<1> QED BY <1>5 DEF LeftUpTo, One

(* So there is one up to any number.                                       *)
LEMMA LeftExists ==
  ASSUME NEW x, NEW drop, NEW dismiss, NEW n \in Nat
  PROVE  \E f : LeftUpTo(x, drop, dismiss, n, f)
<1> DEFINE Missing == {m \in Nat : ~ \E f : LeftUpTo(x, drop, dismiss, m, f)}
<1>1. ASSUME Missing # {}
      PROVE  FALSE
  <2>1. PICK m \in Missing : \A j \in Missing : m <= j
    <3>1. Missing \in SUBSET Nat
      OBVIOUS
    <3> HIDE DEF Missing
    <3> QED BY <1>1, <3>1, LeastNumber
  <2>2. CASE m = 0
    <3> DEFINE f == [k \in 0..0 |-> {x}]
    <3>1. f = [k \in 0..0 |-> IF k = 0 THEN {x} ELSE DropOne(x, drop, dismiss, k, f[k - 1])]
      OBVIOUS
    <3> HIDE DEF f
    <3>2. LeftUpTo(x, drop, dismiss, 0, f)
      BY <3>1 DEF LeftUpTo
    <3> QED BY <2>2, <3>2
  <2>3. CASE m # 0
    <3>1. m \in Nat /\ m - 1 \in Nat /\ m - 1 \notin Missing
      BY <2>1, <2>3
    <3>2. PICK f : LeftUpTo(x, drop, dismiss, m - 1, f)
      BY <3>1
    <3> QED BY <2>3, <3>1, <3>2, LeftIsExtended
  <2> QED BY <2>2, <2>3
<1> QED BY <1>1

(* dropCombatants is the last value of such a function.                    *)
LEMMA DroppedIsLast ==
  ASSUME NEW x, NEW drop, NEW dismiss, Cardinality(drop) \in Nat
  PROVE  \E f : /\ LeftUpTo(x, drop, dismiss, Cardinality(drop), f)
                /\ Dropped(x, drop, dismiss) = f[Cardinality(drop)]
<1> DEFINE n == Cardinality(drop)
           One(k, left) == DropOne(x, drop, dismiss, k, left)
           f == CHOOSE h : h = [k \in 0..n |-> IF k = 0 THEN {x} ELSE One(k, h[k - 1])]
<1>1. \E h : h = [k \in 0..n |-> IF k = 0 THEN {x} ELSE One(k, h[k - 1])]
  <2>1. PICK h : LeftUpTo(x, drop, dismiss, n, h)
    BY LeftExists
  <2>2. h = [k \in 0..n |-> IF k = 0 THEN {x} ELSE One(k, h[k - 1])]
    BY <2>1 DEF LeftUpTo
  <2> QED BY <2>2
<1>2. f = [k \in 0..n |-> IF k = 0 THEN {x} ELSE One(k, f[k - 1])]
  <2> HIDE DEF One
  <2> QED BY <1>1
<1>3. Dropped(x, drop, dismiss) = f[n]
  BY DEF Dropped
<1> QED BY <1>2, <1>3 DEF LeftUpTo

(* A dismissed row leaves behind what a deleted one does but its damage.   *)
LEMMA GoneSame ==
  ASSUME NEW z \in CombatType, NEW who \in Combatants, NEW dismiss \in BOOLEAN,
         NEW y, y = Gone(z, who, dismiss)
  PROVE  LET w == Without(z, {who})
         IN  /\ w \in CombatType /\ y \in CombatType /\ SameOrder(w, y)
             /\ y.turn = w.turn /\ y.status = w.status
<1> DEFINE S == {who}
           w == Without(z, S)
<1>1. w \in CombatType
  <2>1. S \in SUBSET Combatants
    OBVIOUS
  <2> HIDE DEF S
  <2> QED BY <2>1, WithoutType
<1>2. y = w \/ y = [w EXCEPT !.damage = z.damage, !.asks = z.asks]
  BY DEF Gone, Dismissed
<1> HIDE DEF w
<1>3. y \in CombatType
  BY <1>1, <1>2 DEF CombatType
<1>4. /\ y.fighters = w.fighters /\ y.place = w.place /\ y.initiative = w.initiative
      /\ y.turn = w.turn /\ y.status = w.status
  BY <1>1, <1>2 DEF CombatType
<1> QED BY <1>1, <1>3, <1>4 DEF SameOrder, w

(* Who leaves the turn leaves a good one, when the list read before agrees *)
(* on the totals of who is still in the fight.                             *)
LEMMA LeftGood ==
  ASSUME NEW x \in Good, NEW seen \in CombatType, NEW who \in Combatants,
         x.fighters = seen.fighters, \A a \in x.fighters : x.initiative[a] = seen.initiative[a],
         NEW y \in LeaveTurn(x, seen, who)
  PROVE  y \in Good
<1>0. y \in CombatType /\ x \in CombatType
  BY LeaveTurnType DEF Good
<1>1. CASE y = x
  BY <1>1
<1>2. CASE \E c \in FirstOf(seen, OthersActing(seen, who)) : y = [x EXCEPT !.current = c]
  <2>1. y.turn = x.turn /\ y.status = x.status /\ y.fighters = x.fighters /\ y.initiative = x.initiative
    BY <1>0, <1>2 DEF CombatType
  <2> QED BY <1>0, <2>1, SameTurnGood
<1>3. CASE y = [x EXCEPT !.turn = [c \in Combatants |-> "idle"], !.current = Nobody]
  BY <1>0, <1>3 DEF Good, GoodTurn, CombatType
<1>4. CASE y \in StartTurn(x, NextGroup(seen, who, {who}), NextRound(x, seen, who, {who}))
  <2> DEFINE ids == NextGroup(seen, who, {who})
  <2>0. ids \in SUBSET seen.fighters /\ OneTotal(seen, ids)
    BY NextGroupGood
  <2> HIDE DEF ids
  <2>1. ids \in SUBSET x.fighters /\ OneTotal(x, ids)
    BY <2>0 DEF OneTotal
  <2> QED BY <1>0, <1>4, <2>1, NextRoundType, StartTurnGood DEF ids
<1> QED BY <1>1, <1>2, <1>3, <1>4 DEF LeaveTurn

(* A row that goes leaves the turn good and the others in line.            *)
LEMMA GoneGood ==
  ASSUME NEW x \in Good, x \in InLine, NEW seen \in CombatType, NEW who \in Combatants,
         x.fighters = seen.fighters, \A a \in x.fighters : x.initiative[a] = seen.initiative[a],
         NEW z \in LeaveTurn(x, seen, who), NEW dismiss \in BOOLEAN, NEW y, y = Gone(z, who, dismiss)
  PROVE  y \in Good /\ y \in InLine
<1>1. x \in CombatType
  BY DEF Good
<1>2. z \in Good /\ z \in CombatType
  BY <1>1, LeftGood, LeaveTurnType
<1>3. z \in InLine
  BY <1>1, <1>2, LeaveTurnOrder, SameOrderInLine
<1> DEFINE S == {who}
           w == Without(z, S)
<1>4. /\ w \in CombatType /\ y \in CombatType /\ SameOrder(w, y)
      /\ y.turn = w.turn /\ y.status = w.status
  BY <1>2, GoneSame
<1>5. S \in SUBSET Combatants
  OBVIOUS
<1> HIDE DEF S
<1>6. w \in Good /\ w \in InLine
  BY <1>2, <1>3, <1>5, WithoutGood, WithoutInLine
<1> HIDE DEF w
<1>7. y \in InLine
  BY <1>4, <1>6, SameOrderInLine
<1>8. y \in Good
  BY <1>4, <1>6, SameTurnGood DEF SameOrder
<1> QED BY <1>7, <1>8

(* The record after the first k of drop left the fight x.                  *)
Dropping(x, drop, k, z) ==
    /\ z \in Good /\ z \in InLine /\ Casting(z) /\ Quiet(z) /\ Dead(z) = Dead(x)
    /\ Follows(z, x)
    /\ z.fighters = x.fighters \ {o \in drop : Rank(x, drop, o) < k}
    /\ \A a \in z.fighters : z.initiative[a] = x.initiative[a]

(* The effects of the one that leaves next end.                            *)
LEMMA DroppingEnded ==
  ASSUME NEW x, NEW drop, NEW k, NEW u, Dropping(x, drop, k, u), NEW z \in EffectsOfLeaver(u)
  PROVE  Dropping(x, drop, k, z)
<1>1. /\ u \in Good /\ u \in InLine /\ Casting(u) /\ Quiet(u) /\ Dead(u) = Dead(x)
      /\ Follows(u, x)
      /\ u.fighters = x.fighters \ {o \in drop : Rank(x, drop, o) < k}
      /\ \A a \in u.fighters : u.initiative[a] = x.initiative[a]
  BY DEF Dropping
<1>2. u \in CombatType
  BY <1>1 DEF Good
<1>3. PICK asked : z = EffectsEnd(u, asked)
  BY DEF EffectsOfLeaver
<1>4. /\ z \in CombatType /\ Casting(z) /\ Quiet(z) /\ Dead(z) = Dead(u) /\ Follows(z, x)
      /\ z.status = u.status /\ z.turn = u.turn /\ z.fighters = u.fighters
      /\ z.initiative = u.initiative /\ z.defeated = u.defeated /\ z.place = u.place
      /\ z.asks = u.asks /\ z.damage \subseteq u.damage /\ z.saves \subseteq u.saves
  BY <1>1, <1>2, <1>3, EndedFollows
<1>5. z \in Good
  BY <1>1, <1>4, SameTurnGood
<1>6. z \in InLine
  BY <1>1, <1>4, SameOrderInLine DEF SameOrder
<1> QED BY <1>1, <1>4, <1>5, <1>6 DEF Dropping

(* One more leaves.                                                        *)
LEMMA DroppingOne ==
  ASSUME NEW x \in Good, x \in InLine, NEW drop \in SUBSET x.fighters, drop \subseteq NonPlayers,
         NEW k \in Nat, NEW z, Dropping(x, drop, k, z), NEW c \in drop, Rank(x, drop, c) = k,
         NEW w \in LeaveTurn(z, [x EXCEPT !.fighters = @ \ Ahead(x, drop, c)], c),
         NEW dismiss \in BOOLEAN, NEW y, y = Gone(w, c, dismiss)
  PROVE  Dropping(x, drop, k + 1, y)
<1>0. x \in CombatType /\ Placed(x) /\ z \in CombatType
  BY DEF Good, InLine, Lined, Placed, Dropping
<1>1. /\ \A o \in drop : Rank(x, drop, o) \in Nat
      /\ Ahead(x, drop, c) = {o \in drop : Rank(x, drop, o) < k}
      /\ \A a, b \in drop : Rank(x, drop, a) = Rank(x, drop, b) => a = b
  <2>1. /\ \A o \in drop : Rank(x, drop, o) \in Nat /\ Rank(x, drop, o) < Cardinality(drop)
        /\ \A o \in drop : Ahead(x, drop, o) = {a \in drop : Rank(x, drop, a) < Rank(x, drop, o)}
        /\ \A a, b \in drop : Rank(x, drop, a) = Rank(x, drop, b) => a = b
    BY <1>0, Ranks
  <2>2. Ahead(x, drop, c) = {a \in drop : Rank(x, drop, a) < Rank(x, drop, c)}
    BY <2>1
  <2> QED BY <2>1, <2>2
<1> DEFINE gone == {o \in drop : Rank(x, drop, o) < k}
           seen == [x EXCEPT !.fighters = @ \ gone]
<1>2. /\ seen \in CombatType /\ seen.fighters = x.fighters \ gone
      /\ seen.initiative = x.initiative /\ seen.turn = x.turn /\ seen.defeated = x.defeated
  BY <1>0 DEF CombatType
<1>3. w \in LeaveTurn(z, seen, c)
  BY <1>1
<1>4. z.fighters = x.fighters \ gone /\ c \in z.fighters
  BY <1>1 DEF Dropping
<1>5. x.fighters \ {o \in drop : Rank(x, drop, o) < k + 1} = (x.fighters \ gone) \ {c}
  BY <1>1
<1> HIDE DEF seen, gone
<1>6. /\ z \in Good /\ z \in InLine /\ Casting(z) /\ Quiet(z) /\ Dead(z) = Dead(x)
      /\ Follows(z, x) /\ \A a \in z.fighters : z.initiative[a] = x.initiative[a]
  BY DEF Dropping
<1>7. c \in NonPlayers /\ c \in Combatants
  BY NoPlayerIsNot
<1>8. y \in Good /\ y \in InLine
  BY <1>2, <1>3, <1>4, <1>6, <1>7, GoneGood
<1>9. w \in CombatType
  BY <1>0, <1>2, <1>3, <1>7, LeaveTurnType
<1>10. RowGone(w, c, y)
  BY <1>7, <1>9, GoneRow
<1>11. Dead(z) = Dead(seen) /\ Follows(z, seen)
  BY <1>2, <1>6 DEF Dead, Follows
<1>12. /\ Casting(y) /\ Quiet(y) /\ Dead(y) = Dead(z) /\ Follows(y, seen)
       /\ y.fighters = z.fighters \ {c}
       /\ \A a \in y.fighters : y.initiative[a] = z.initiative[a]
  <2>1. z.fighters = seen.fighters /\ seen \in CombatType
    BY <1>2, <1>4
  <2>2. c \in NonPlayers /\ c \in z.fighters /\ z \in CombatType /\ Casting(z) /\ Quiet(z)
    BY <1>0, <1>4, <1>6, <1>7
  <2> QED BY <1>3, <1>10, <1>11, <2>1, <2>2, GoneFollows
<1>13. Follows(y, x)
  BY <1>2, <1>12 DEF Follows
<1>14. \A a \in y.fighters : y.initiative[a] = x.initiative[a]
  BY <1>6, <1>12
<1>15. y.fighters = x.fighters \ {o \in drop : Rank(x, drop, o) < k + 1}
  BY <1>4, <1>5, <1>12
<1>16. Dead(y) = Dead(x)
  BY <1>6, <1>12
<1> QED BY <1>8, <1>12, <1>13, <1>14, <1>15, <1>16 DEF Dropping

(* So what is left after any number of them is such a record.              *)
LEMMA DroppingAll ==
  ASSUME NEW x \in Good, x \in InLine, x \in Fit, NEW drop \in SUBSET x.fighters,
         drop \subseteq NonPlayers, NEW dismiss \in BOOLEAN, NEW n \in Nat,
         NEW f, LeftUpTo(x, drop, dismiss, n, f)
  PROVE  \A k \in 0..n : \A z \in f[k] : Dropping(x, drop, k, z)
<1> DEFINE Wrong == {k \in 0..n : ~ \A z \in f[k] : Dropping(x, drop, k, z)}
<1>0. x \in CombatType /\ Placed(x)
  BY DEF Good, InLine, Lined, Placed
<1>1. \A o \in drop : Rank(x, drop, o) \in Nat
  BY <1>0, Ranks
<1>2. ASSUME Wrong # {}
      PROVE  FALSE
  <2>1. PICK k \in Wrong : \A j \in Wrong : k <= j
    <3>1. Wrong \in SUBSET Nat
      OBVIOUS
    <3> HIDE DEF Wrong
    <3> QED BY <1>2, <3>1, LeastNumber
  <2>2. k \in 0..n /\ ~ \A z \in f[k] : Dropping(x, drop, k, z)
    BY <2>1
  <2>3. f[k] = IF k = 0 THEN {x} ELSE DropOne(x, drop, dismiss, k, f[k - 1])
    BY <2>2 DEF LeftUpTo
  <2>4. CASE k = 0
    <3>1. {o \in drop : Rank(x, drop, o) < 0} = {}
      BY <1>1
    <3>2. x.fighters = x.fighters \ {o \in drop : Rank(x, drop, o) < 0}
      BY <3>1
    <3>3. Dropping(x, drop, 0, x)
      BY <3>2 DEF Dropping, Follows, Fit
    <3> QED BY <2>2, <2>3, <2>4, <3>3
  <2>5. CASE k # 0
    <3>1. k - 1 \in 0..n /\ k - 1 \in Nat /\ k - 1 \notin Wrong /\ (k - 1) + 1 = k
      BY <2>1, <2>2, <2>5
    <3>2. \A z \in f[k - 1] : Dropping(x, drop, k - 1, z)
      BY <3>1
    <3>3. ASSUME NEW y \in f[k]
          PROVE  Dropping(x, drop, k, y)
      <4>1. y \in DropOne(x, drop, dismiss, k, f[k - 1])
        BY <2>3, <2>5
      <4>2. PICK u \in f[k - 1], c \in {d \in drop : Cardinality(Ahead(x, drop, d)) = k - 1} :
               y \in GoneFrom(x, drop, dismiss, u, c)
        BY <4>1 DEF DropOne
      <4>7. PICK z \in EffectsOfLeaver(u) :
               y \in {Gone(w, c, dismiss) : w \in LeaveTurn(z, [x EXCEPT !.fighters = @ \ Ahead(x, drop, c)], c)}
        BY <4>2 DEF GoneFrom
      <4>3. PICK w \in LeaveTurn(z, [x EXCEPT !.fighters = @ \ Ahead(x, drop, c)], c) :
               y = Gone(w, c, dismiss)
        BY <4>7
      <4>4. c \in drop /\ Rank(x, drop, c) = k - 1
        BY DEF Rank
      <4>6. Dropping(x, drop, k - 1, z)
        BY <3>2, <4>7, DroppingEnded
      <4>5. Dropping(x, drop, (k - 1) + 1, y)
        BY <3>1, <4>3, <4>4, <4>6, DroppingOne
      <4> QED BY <3>1, <4>5
    <3> QED BY <2>2, <3>3
  <2> QED BY <2>4, <2>5
<1> QED BY <1>2

(* What dropCombatants leaves: a good turn, in line, without those it drops*)
LEMMA DroppedFit ==
  ASSUME NEW x \in Good, x \in InLine, x \in Fit, NEW drop \in SUBSET x.fighters,
         drop \subseteq NonPlayers, NEW dismiss \in BOOLEAN,
         NEW y \in Dropped(x, drop, dismiss)
  PROVE  y \in Good /\ y \in InLine /\ y \in Fit /\ y.fighters = x.fighters \ drop
<1>0. x \in CombatType /\ Placed(x)
  BY DEF Good, InLine, Lined, Placed
<1> DEFINE n == Cardinality(drop)
<1>1. n \in Nat /\ \A c \in drop : Rank(x, drop, c) < n
  BY <1>0, Ranks
<1>2. PICK f : LeftUpTo(x, drop, dismiss, n, f) /\ Dropped(x, drop, dismiss) = f[n]
  BY <1>1, DroppedIsLast
<1> HIDE DEF n
<1>3. \A k \in 0..n : \A z \in f[k] : Dropping(x, drop, k, z)
  BY <1>1, <1>2, DroppingAll
<1>4. Dropping(x, drop, n, y)
  BY <1>1, <1>2, <1>3
<1>5. {o \in drop : Rank(x, drop, o) < n} = drop
  BY <1>1
<1>6. y.fighters = x.fighters \ drop
  BY <1>4, <1>5 DEF Dropping
<1>7. y \in CombatType /\ WaitsOwn(y)
  BY <1>4, AlertWaits DEF Dropping, Follows, Good
<1> QED BY <1>4, <1>6, <1>7 DEF Dropping, Fit

------------------------------------------------------------------------------
(* The operations of the summoning, and what holds in every state.         *)

(* The rows a concentration's end keeps: one of each creature, with the    *)
(* one total of the casting and a place of its own.                        *)
Kept(rows) ==
    /\ rows \in SUBSET RowType
    /\ \A r, s \in rows :
          /\ r.initiative = s.initiative
          /\ r.creature = s.creature => r = s
          /\ r.creature # s.creature => r.place # s.place

(* What can be undone fits the combat: no other creature came meanwhile.   *)
RowsKept ==
    last.kind = "concentration" =>
        Kept(last.rows) /\ Owner \in combat.fighters /\ Brought = {}

Steady == Good \cap InLine \cap Fit

Casts == combat \in Steady /\ Fenced(combat) /\ RowsKept

(* Nobody of the fight is a player's creature and a player.                *)
LEMMA CreaturesArePlain ==
  /\ Creatures \subseteq Combatants /\ Creatures \subseteq NonPlayers
  /\ Owner \notin Creatures /\ Creatures \cap Players = {} /\ Creatures \cap NPCs = {}
  BY CombatantsAssumption DEF Combatants, NonPlayers

(* A call whose records are steady leaves a steady combat, that waits for  *)
(* something if it waits.                                                  *)
LEMMA WriteSteady ==
  ASSUME NEW S, S \subseteq Steady, Write(S)
  PROVE  combat' \in Steady /\ Fenced(combat') /\ ~HeldForNothing(combat')
<1>1. PICK x \in S : combat' \in Settle(x)
  BY DEF Write
<1>2. x \in Good /\ x \in InLine /\ x \in Fit
  BY DEF Steady
<1>3. combat' \in Good
  BY <1>2, <1>1, SettleGood
<1>4. combat' \in InLine
  <2>1. S \subseteq InLine
    BY DEF Steady
  <2> QED BY <2>1, WriteInLine
<1>5. combat' \in Fit /\ Fenced(combat') /\ ~HeldForNothing(combat')
  BY <1>1, <1>2, HandedFit DEF Handed
<1> QED BY <1>3, <1>4, <1>5 DEF Steady

(* Effects that end leave a steady combat steady.                          *)
LEMMA EffectsEndSteady ==
  ASSUME NEW x \in Steady, NEW asked
  PROVE  EffectsEnd(x, asked) \in Steady /\ EffectsEnd(x, asked).fighters = x.fighters
<1> DEFINE y == EffectsEnd(x, asked)
<1>1. x \in Good /\ x \in InLine /\ x \in Fit /\ x \in CombatType
  BY DEF Steady, Good
<1>2. y \in CombatType
  BY <1>1, EffectsEndType
<1>3. /\ y.status = x.status /\ y.turn = x.turn /\ y.fighters = x.fighters
      /\ y.initiative = x.initiative /\ y.defeated = x.defeated /\ y.place = x.place
      /\ y.saves \subseteq x.saves /\ y.asks = x.asks /\ y.damage \subseteq x.damage
  BY <1>1 DEF EffectsEnd, CombatType
<1> HIDE DEF y
<1>4. y \in Fit
  BY <1>1, <1>2, <1>3, SameFit DEF Dead, Asked
<1>5. y \in Good
  BY <1>1, <1>2, <1>3, SameTurnGood
<1>6. y \in InLine
  BY <1>1, <1>2, <1>3, SameOrderInLine DEF SameOrder
<1> QED BY <1>3, <1>4, <1>5, <1>6 DEF Steady, y

(* The end of a concentration keeps a row of each of its creatures.        *)
LEMMA EndConcentrationCasts ==
  ASSUME Casts, EndConcentration
  PROVE  Casts' /\ ~HeldForNothing(combat')
<1>0. combat \in Good /\ combat \in InLine /\ combat \in Fit /\ combat \in CombatType
  BY DEF Casts, Steady, Good
<1>1. PICK asked \in SUBSET combat.saves :
         Write({EffectsEnd(x, asked) : x \in Dropped(combat, Brought, TRUE)})
  BY DEF EndConcentration
<1>2. Owner \in combat.fighters /\ last' = [kind |-> "concentration", rows |-> {Row(c) : c \in Brought}]
  BY DEF EndConcentration
<1> DEFINE B == Brought
<1>3. B \in SUBSET combat.fighters /\ B \subseteq NonPlayers /\ Owner \notin B
  BY CreaturesArePlain DEF Brought
<1>4. B = Creature(combat)
  BY DEF Brought, Creature
<1> DEFINE S == {EffectsEnd(x, asked) : x \in Dropped(combat, B, TRUE)}
<1>5. Write(S)
  BY <1>1
<1> HIDE DEF B
<1>6. \A x \in Dropped(combat, B, TRUE) : x \in Steady /\ x.fighters = combat.fighters \ B
  BY <1>0, <1>3, DroppedFit DEF Steady
<1>7. \A y \in S : y \in Steady /\ y.fighters = combat.fighters \ B
  BY <1>6, EffectsEndSteady
<1> HIDE DEF S
<1>8. combat' \in Steady /\ Fenced(combat') /\ ~HeldForNothing(combat')
  BY <1>5, <1>7, WriteSteady
<1>9. combat'.fighters = combat.fighters \ B
  <2>1. PICK y \in S : combat' \in Settle(y)
    BY <1>5 DEF Write
  <2> QED BY <1>7, <2>1, SettleFit DEF Steady
<1>10. Owner \in combat'.fighters /\ Brought' = {}
  BY <1>2, <1>3, <1>4, <1>9 DEF Brought, Creature
<1>11. Kept({Row(c) : c \in B})
  <2>1. ASSUME NEW c \in B
        PROVE  /\ Row(c) \in RowType
               /\ Row(c).creature = c /\ Row(c).initiative = combat.initiative[c]
               /\ Row(c).place = combat.place[c]
    <3>1. c \in Creatures /\ c \in Combatants
      BY <1>4, CreaturesArePlain DEF Creature
    <3> QED BY <1>0, <3>1 DEF Row, RowType, CombatType
  <2>2. \A c, d \in B : combat.initiative[c] = combat.initiative[d]
    BY <1>0, <1>4 DEF Fit, Casting
  <2>3. \A c, d \in B : c # d => combat.place[c] # combat.place[d]
    BY <1>0, <1>3 DEF InLine, Lined
  <2>4. \A r \in {Row(c) : c \in B} : \E c \in B : r = Row(c)
    OBVIOUS
  <2>5. {Row(c) : c \in B} \in SUBSET RowType
    BY <2>1
  <2>6. ASSUME NEW r \in {Row(c) : c \in B}, NEW s \in {Row(c) : c \in B}
        PROVE  /\ r.initiative = s.initiative
               /\ r.creature = s.creature => r = s
               /\ r.creature # s.creature => r.place # s.place
    <3>1. PICK c \in B : r = Row(c)
      BY <2>4
    <3>2. PICK d \in B : s = Row(d)
      BY <2>4
    <3> QED BY <2>1, <2>2, <2>3, <3>1, <3>2
  <2> QED BY <2>5, <2>6 DEF Kept
<1>12. RowsKept'
  BY <1>2, <1>10, <1>11 DEF RowsKept, B
<1> QED BY <1>8, <1>12 DEF Casts

(* The cast taken back leaves no creature.                                 *)
LEMMA UndoCastCasts ==
  ASSUME Casts, UndoCast
  PROVE  Casts' /\ ~HeldForNothing(combat')
<1>0. combat \in Good /\ combat \in InLine /\ combat \in Fit
  BY DEF Casts, Steady
<1> DEFINE B == Brought
<1>1. Write(Dropped(combat, B, FALSE)) /\ last' = Nothing
  BY DEF UndoCast
<1>2. B \in SUBSET combat.fighters /\ B \subseteq NonPlayers
  BY CreaturesArePlain DEF Brought
<1> HIDE DEF B
<1>3. Dropped(combat, B, FALSE) \subseteq Steady
  BY <1>0, <1>2, DroppedFit DEF Steady
<1>4. combat' \in Steady /\ Fenced(combat') /\ ~HeldForNothing(combat')
  BY <1>1, <1>3, WriteSteady
<1> QED BY <1>1, <1>4 DEF Casts, RowsKept, Nothing

(* Nothing waits, after a creature is sent away, that did not before, when *)
(* it takes nobody else's saving throw with it: it was not its own that    *)
(* held the turn of others.                                                *)
LEMMA LeavingHoldsNothing ==
  ASSUME combat \in Fit, NEW x \in CombatType, NEW c \in Creatures, c \in combat.fighters,
         x.status = combat.status, x.turn = combat.turn, x.fighters = combat.fighters,
         NEW z \in CombatType, Outcome(x, combat, c, z), Dead(z) = Dead(x), z.fighters = x.fighters,
         x.defeated = combat.defeated,
         NEW y, RowGone(z, c, y), HeldForNothing(y),
         \A w \in combat.saves \ y.saves : w[1] = c
  PROVE  HeldForNothing(combat)
<1>0. c \in Combatants /\ combat \in CombatType /\ WaitsOwn(combat)
  BY CreaturesArePlain DEF Fit
<1>1. /\ y.status = "active" /\ Acting(y) = {} /\ Members(y) # {} /\ Windows(y) = {}
      /\ Living(y) # {}
  BY DEF HeldForNothing, Held
<1>2. y.status = z.status /\ y.fighters = z.fighters \ {c} /\ y.saves = {w \in z.saves : w[1] \notin {c}}
  BY DEF RowGone
<1>3. CASE Alert(z)
  <2>1. /\ y.fighters = z.fighters \ {c}
        /\ y.turn = [d \in Combatants |-> IF d \in {c} THEN "idle" ELSE z.turn[d]]
        /\ Dead(y) \subseteq Dead(z)
    BY DEF RowGone, Dead
  <2>2. Alert(y)
    BY <1>0, <1>3, <2>1, AlertWithout
  <2> QED BY <1>1, <2>2 DEF Alert
<1>4. CASE /\ z.turn = x.turn
           /\ \E o \in x.fighters \ {c} : combat.turn[o] = "acting" /\ o \notin Dead(x)
  <2>1. PICK o \in x.fighters \ {c} : combat.turn[o] = "acting"
    BY <1>4
  <2>2. o \in Combatants /\ o # c /\ z.turn[o] = "acting" /\ o \in y.fighters
    BY <1>0, <1>2, <1>4, <2>1 DEF CombatType
  <2>3. y.turn[o] = "acting"
    BY <2>2 DEF RowGone
  <2>4. o \in Acting(y)
    BY <2>2, <2>3 DEF Acting
  <2> QED BY <1>1, <2>4
<1>5. CASE z = x /\ x.status # "active"
  BY <1>1, <1>2, <1>5
<1>6. CASE z = x /\ combat.turn[c] = "idle"
  <2>1. Members(y) = Members(z) /\ Acting(y) = Acting(z)
    BY <1>0, <1>6, IdleGone
  <2>2. Members(combat) = Members(z) /\ Acting(combat) = Acting(z)
    BY <1>6 DEF Members, Acting
  <2>3. combat.status = "active" /\ Acting(combat) = {} /\ Members(combat) # {}
        /\ c \notin Members(combat)
    BY <1>1, <1>2, <1>6, <2>1, <2>2 DEF Members
  <2>4. combat.asks = {} /\ \A w \in combat.saves : w[1] \in Creatures => w[1] \in Members(combat)
    BY <1>0, <2>3 DEF WaitsOwn
  <2>5. combat.saves = {}
    <3>1. ASSUME NEW w \in combat.saves
          PROVE  FALSE
      <4>1. w[1] # c
        BY <2>3, <2>4
      <4>2. w \in y.saves
        BY <4>1
      <4> QED BY <1>1, <4>2 DEF Windows
    <3> QED BY <3>1
  <2>6. Living(combat) # {}
    <3>1. PICK a \in Living(y) : TRUE
      BY <1>1
    <3>2. a \in combat.fighters /\ a \notin combat.defeated
      BY <1>2, <1>6, <3>1 DEF Living, RowGone
    <3> QED BY <3>2 DEF Living
  <2> QED BY <2>3, <2>4, <2>5, <2>6 DEF HeldForNothing, Held, Windows
<1> QED BY <1>3, <1>4, <1>5, <1>6 DEF Outcome

(* A creature sent away: nothing is settled, and nothing has to be.        *)
LEMMA CreaturesLeavingCasts ==
  ASSUME Casts, NEW c \in Creatures, CreaturesLeaving(c)
  PROVE  Casts' /\ (HeldForNothing(combat') => HeldForNothing(combat) \/ TookASave)
<1>0. /\ combat \in Good /\ combat \in InLine /\ combat \in Fit /\ combat \in CombatType
      /\ Fenced(combat) /\ Casting(combat) /\ Quiet(combat) /\ WaitsOwn(combat)
  BY DEF Casts, Steady, Good, Fit
<1>1. c \in NonPlayers /\ c \in Combatants /\ c \in combat.fighters
  BY CreaturesArePlain DEF CreaturesLeaving, Brought
<1>16. PICK e \in EffectsOfLeaver(combat) :
          combat' \in {Without(x, {c}) : x \in LeaveTurn(
              [e EXCEPT !.damage = {d \in @ : c \notin {d[1], d[2]}}], combat, c)}
  BY DEF CreaturesLeaving
<1>17. /\ e \in CombatType /\ e.status = combat.status /\ e.turn = combat.turn
       /\ e.fighters = combat.fighters /\ e.initiative = combat.initiative
       /\ e.defeated = combat.defeated /\ e.saves \subseteq combat.saves
       /\ e.asks = combat.asks /\ e.damage \subseteq combat.damage /\ e.place = combat.place
  <2>1. PICK asked : e = EffectsEnd(combat, asked)
    BY DEF EffectsOfLeaver
  <2> QED BY <1>0, <2>1, EffectsEndFields
<1> DEFINE x == [e EXCEPT !.damage = {d \in @ : c \notin {d[1], d[2]}}]
<1>2. PICK z \in LeaveTurn(x, combat, c) : combat' = Without(z, {c})
  BY <1>16
<1>3. x \in CombatType
  BY <1>17 DEF CombatType
<1>4. /\ x.status = combat.status /\ x.turn = combat.turn /\ x.fighters = combat.fighters
      /\ x.initiative = combat.initiative /\ x.defeated = combat.defeated
      /\ x.saves \subseteq combat.saves /\ x.asks = combat.asks /\ x.place = combat.place
      /\ x.damage \subseteq combat.damage
  BY <1>17 DEF CombatType
<1> HIDE DEF x
<1>5. x \in Good /\ x \in InLine
  BY <1>0, <1>3, <1>4, SameTurnGood, SameOrderInLine DEF SameOrder
<1>6. Casting(x) /\ Quiet(x) /\ Dead(x) = Dead(combat) /\ Follows(x, combat)
  <2>1. Members(x) = Members(combat) /\ Acting(x) = Acting(combat)
    BY <1>4 DEF Members, Acting
  <2>2. Casting(x) /\ Quiet(x) /\ Dead(x) = Dead(combat)
    BY <1>0, <1>4 DEF Casting, Quiet, Creature, Dead
  <2>3. WaitsOwn(x)
    BY <1>0, <1>4, <2>1, <2>2 DEF WaitsOwn
  <2> QED BY <1>4, <2>2, <2>3 DEF Follows
<1> DEFINE y == combat'
<1>7. y = Gone(z, c, FALSE)
  BY <1>2 DEF Gone
<1> HIDE DEF y
<1>8. /\ z \in CombatType /\ Outcome(x, combat, c, z) /\ z.fighters = x.fighters
      /\ Dead(z) = Dead(x) /\ z.asks = x.asks /\ Asked(x, z, x.fighters)
  <2>1. Dead(x) \subseteq Dead(combat) \cup {c}
    BY <1>6
  <2> QED BY <1>0, <1>1, <1>2, <1>3, <1>4, <1>6, <2>1, LeftTurn
<1>9. RowGone(z, c, y)
  BY <1>1, <1>7, <1>8, GoneRow
<1>10. /\ y \in CombatType /\ Casting(y) /\ Quiet(y) /\ Follows(y, combat)
       /\ y.fighters = x.fighters \ {c}
  BY <1>0, <1>1, <1>2, <1>3, <1>4, <1>6, <1>9, GoneFollows
<1>11. y \in Fit
  BY <1>10, AlertWaits DEF Follows, Fit
<1>12. y \in Good /\ y \in InLine
  BY <1>0, <1>1, <1>2, <1>4, <1>5, <1>7, GoneGood
<1>13. Fenced(y)
  <2> DEFINE S == {c}
  <2>1. y = Without(z, S) /\ S \in SUBSET Combatants
    BY <1>1, <1>2 DEF y
  <2> HIDE DEF S
  <2>2. /\ y \in CombatType /\ y.status = z.status
        /\ y.fighters = z.fighters \ S /\ y.defeated = z.defeated \ S
        /\ y.turn = [d \in Combatants |-> IF d \in S THEN "idle" ELSE z.turn[d]]
        /\ y.initiative = [d \in Combatants |-> IF d \in S THEN 0 ELSE z.initiative[d]]
        /\ y.saves = {w \in z.saves : w[1] \notin S}
        /\ y.asks = {d \in z.asks : {d[1], d[2]} \cap S = {}}
    BY <1>8, <2>1, WithoutFields
  <2>3. ASSUME NEW w \in y.saves, y.status = "active"
        PROVE  w[1] \in y.fighters
    <3>1. w \in z.saves /\ w[1] # c
      BY <2>2 DEF S
    <3>2. x.status = "active" => w[1] \in x.fighters
      BY <1>0, <1>4, <1>8, <3>1 DEF Asked, Fenced
    <3>3. x.status # "active" => x.saves = {}
      BY <1>6 DEF Quiet
    <3>4. w[1] \in x.fighters
      BY <1>8, <3>1, <3>2, <3>3 DEF Asked
    <3> QED BY <1>10, <3>1, <3>4
  <2>4. ASSUME NEW d \in y.asks, y.status = "active"
        PROVE  d[2] \in y.fighters
    <3>1. d \in x.asks /\ d[2] # c
      BY <1>8, <2>2 DEF S
    <3>2. x.status = "active"
      BY <1>6, <3>1 DEF Quiet
    <3>3. d[2] \in x.fighters
      BY <1>0, <1>4, <3>1, <3>2 DEF Fenced
    <3> QED BY <1>10, <3>1, <3>3
  <2> QED BY <2>3, <2>4 DEF Fenced
<1>14. HeldForNothing(y) => HeldForNothing(combat) \/ TookASave
  <2>1. CASE \A w \in combat.saves \ y.saves : w[1] = c
    BY <1>0, <1>1, <1>3, <1>4, <1>8, <1>9, <2>1, LeavingHoldsNothing
  <2>2. CASE \E w \in combat.saves \ y.saves : w[1] # c
    BY <2>2 DEF TookASave, y
  <2> QED BY <2>1, <2>2
<1>15. last' = Nothing
  BY DEF CreaturesLeaving
<1> QED BY <1>11, <1>12, <1>13, <1>14, <1>15 DEF Casts, Steady, RowsKept, Nothing, y

(* New totals for who is out of the turn, put in order, and new places for *)
(* all, leave a good turn in line.                                         *)
LEMMA ReorderedGood ==
  ASSUME NEW x \in CombatType, GoodTurn(x), Placed(x), NEW y, y = Ordered(x)
  PROVE  /\ y \in Good /\ y \in InLine /\ y \in CombatType
         /\ y.turn = x.turn /\ y.fighters = x.fighters /\ y.initiative = x.initiative
         /\ y.status = x.status /\ y.defeated = x.defeated /\ y.saves = x.saves /\ y.asks = x.asks
         /\ y.damage \subseteq x.damage
<1>1. y \in CombatType
  BY OrderedType
<1>2. /\ y.turn = x.turn /\ y.fighters = x.fighters /\ y.initiative = x.initiative
      /\ y.status = x.status
  BY OrderedKeeps
<1>3. y.defeated = x.defeated /\ y.saves = x.saves /\ y.asks = x.asks /\ y.damage \subseteq x.damage
  BY DEF Ordered, CombatType
<1>4. Lined(y)
  BY OrderedLined
<1> QED BY <1>1, <1>2, <1>3, <1>4 DEF Good, GoodTurn, InLine

(* The creatures a spell brings take one total.                            *)
LEMMA SummonCreaturesCasts ==
  ASSUME Casts, NEW S \in SUBSET Creatures, NEW total \in 1..MaxInitiative, SummonCreatures(S, total)
  PROVE  Casts' /\ ~HeldForNothing(combat')
<1>0. /\ combat \in Good /\ combat \in InLine /\ combat \in Fit /\ combat \in CombatType
      /\ Casting(combat)
  BY DEF Casts, Steady, Good, Fit
<1>1. /\ Owner \in combat.fighters /\ Brought = {} /\ last'.kind = "cast"
  BY DEF SummonCreatures, Living
<1>2. S \in SUBSET (Combatants \ combat.fighters) /\ S \cap NPCs = {} /\ S \in SUBSET Combatants
  BY <1>1, CreaturesArePlain DEF Brought
<1> DEFINE Called(x) == [x EXCEPT !.initiative = [c \in Combatants |-> IF c \in S THEN total ELSE @[c]]]
           R == {Ordered(Called(x)) : x \in Joined(combat, S)}
<1>3. Write(R)
  BY DEF SummonCreatures
<1>4. ASSUME NEW x \in Joined(combat, S)
      PROVE  Ordered(Called(x)) \in Steady
  <2>1. x \in Good /\ x \in InLine /\ x \in CombatType
    BY <1>0, <1>2, JoinedGood, JoinedInLine DEF Good
  <2>2. /\ x.status = combat.status /\ x.turn = combat.turn /\ x.fighters = combat.fighters \cup S
        /\ x.defeated = combat.defeated /\ x.saves = combat.saves /\ x.asks = combat.asks
        /\ x.damage \subseteq combat.damage
        /\ \A c \in Combatants \ (S \cap NPCs) : x.initiative[c] = combat.initiative[c]
    BY <1>0, <1>2, JoinedFields
  <2> DEFINE z == Called(x)
             y == Ordered(z)
  <2>3. z \in CombatType
    BY <2>1, BoundsAssumption DEF CombatType
  <2>4. /\ z.status = x.status /\ z.turn = x.turn /\ z.fighters = x.fighters /\ z.place = x.place
        /\ z.defeated = x.defeated /\ z.saves = x.saves /\ z.asks = x.asks
        /\ z.damage \subseteq x.damage
        /\ z.initiative = [c \in Combatants |-> IF c \in S THEN total ELSE x.initiative[c]]
    BY <2>1 DEF CombatType
  <2> HIDE DEF z
  <2>5. \A c \in S : z.turn[c] = "idle"
    BY <1>0, <1>2, <2>2, <2>4 DEF Good, GoodTurn
  <2>6. GoodTurn(z)
    BY <2>1, <2>4, <2>5 DEF Good, GoodTurn
  <2>7. Placed(z)
    BY <2>1, <2>4 DEF InLine, Lined, Placed
  <2>8. /\ y \in Good /\ y \in InLine /\ y \in CombatType
        /\ y.turn = z.turn /\ y.fighters = z.fighters /\ y.initiative = z.initiative
        /\ y.status = z.status /\ y.defeated = z.defeated /\ y.saves = z.saves /\ y.asks = z.asks
        /\ y.damage \subseteq z.damage
    BY <2>3, <2>6, <2>7, ReorderedGood
  <2> HIDE DEF y
  <2>9. Quiet(y) /\ WaitsOwn(y)
    <3>1. Dead(y) = Dead(combat)
      BY <2>2, <2>4, <2>8 DEF Dead
    <3>2. y.damage \subseteq combat.damage
      BY <2>2, <2>4, <2>8
    <3>3. /\ y.status = combat.status /\ y.turn = combat.turn /\ y.fighters = combat.fighters \cup S
          /\ y.saves = combat.saves /\ y.asks = combat.asks
      BY <2>2, <2>4, <2>8
    <3>4. combat \in Fit /\ combat \in Good
      BY <1>0
    <3> HIDE DEF Called, R
    <3> QED BY <1>2, <2>8, <3>1, <3>2, <3>3, <3>4, JoinedWaits
  <2>10. Casting(y)
    <3>1. Creature(y) \subseteq S
      BY <1>1, <2>2, <2>4, <2>8 DEF Creature, Brought
    <3>2. \A c \in S : y.initiative[c] = total
      BY <1>2, <2>4, <2>8
    <3>3. Owner \in y.fighters
      BY <1>1, <2>2, <2>4, <2>8
    <3>4. \A c \in Combatants \ y.fighters : y.initiative[c] = 0
      BY <1>0, <1>2, <2>2, <2>4, <2>8 DEF Casting
    <3> QED BY <3>1, <3>2, <3>3, <3>4 DEF Casting
  <2>11. y \in Steady
    BY <2>8, <2>9, <2>10 DEF Steady, Fit
  <2> QED BY <2>11 DEF y, z
<1>5. R \subseteq Steady
  BY <1>4
<1> HIDE DEF R
<1>6. combat' \in Steady /\ Fenced(combat') /\ ~HeldForNothing(combat')
  BY <1>3, <1>5, WriteSteady
<1> QED BY <1>1, <1>6 DEF Casts, RowsKept

(* The rows come back with the total they share, each to a place that is   *)
(* nobody's, before the order is made again.                               *)
LEMMA RejoinedSteady ==
  ASSUME NEW x \in Steady, NEW rows, Kept(rows), Owner \in x.fighters, Creature(x) = {},
         NEW side \in {0, 2}
  PROVE  Rejoined(x, rows, side) \in Steady
<1>0. x \in Good /\ x \in InLine /\ x \in Fit /\ x \in CombatType /\ Casting(x)
  BY DEF Steady, Good, Fit
<1> DEFINE back == {r.creature : r \in rows}
           row(c) == CHOOSE r \in rows : r.creature = c
           place == [c \in Combatants |-> IF c \in back THEN 2 * row(c).place + side
                                                        ELSE 2 * x.place[c] + 1]
           initiative == [c \in Combatants |-> IF c \in back THEN row(c).initiative ELSE x.initiative[c]]
           down == {c \in back : row(c).down}
           z == [x EXCEPT !.fighters = @ \cup back, !.defeated = @ \cup down,
                          !.initiative = initiative, !.place = place]
           y == Ordered(z)
<1>1. \A r \in rows : r.creature \in Creatures /\ r.initiative \in 0..MaxInitiative /\ r.place \in Nat
  BY DEF Kept, RowType
<1>2. \A c \in back : row(c) \in rows /\ row(c).creature = c
  OBVIOUS
<1>3. back \subseteq Creatures /\ back \subseteq Combatants /\ back \cap x.fighters = {}
  BY <1>1, CreaturesArePlain DEF Creature
<1>4. \A c \in back : row(c).initiative \in 0..MaxInitiative /\ row(c).place \in Nat
  BY <1>1, <1>2
<1>5. \A c, d \in back : row(c).initiative = row(d).initiative
                         /\ (c # d => row(c).place # row(d).place)
  BY <1>2 DEF Kept
<1>6. Rejoined(x, rows, side) = y
  BY DEF Rejoined
<1> HIDE DEF row, back
<1>7. place \in [Combatants -> Nat]
  BY <1>0, <1>4 DEF CombatType
<1>8. initiative \in [Combatants -> 0..MaxInitiative]
  BY <1>0, <1>4 DEF CombatType
<1>9. down \subseteq back
  OBVIOUS
<1>10. \A a, b \in x.fighters \cup back : a # b => place[a] # place[b]
  <2>1. \A a \in x.fighters : x.place[a] \in Nat /\ place[a] = 2 * x.place[a] + 1
    BY <1>0, <1>3 DEF CombatType
  <2>2. \A a \in back : row(a).place \in Nat /\ place[a] = 2 * row(a).place + side
    BY <1>3, <1>4
  <2>3. \A a, b \in x.fighters : a # b => x.place[a] # x.place[b]
    BY <1>0 DEF InLine, Lined
  <2> HIDE DEF place
  <2>4. \A a, b \in x.fighters : a # b => place[a] # place[b]
    BY <2>1, <2>3
  <2>5. \A a, b \in back : a # b => place[a] # place[b]
    BY <1>5, <2>2
  <2>6. \A a \in x.fighters, b \in back : place[a] # place[b]
    <3> TAKE a \in x.fighters, b \in back
    <3>1. \A p, q \in Nat : 2 * p + 1 # 2 * q + side
      OBVIOUS
    <3> QED BY <2>1, <2>2, <3>1
  <2> QED BY <2>4, <2>5, <2>6
<1>11. \A c \in Combatants : initiative[c] = IF c \in back THEN row(c).initiative ELSE x.initiative[c]
  OBVIOUS
<1> HIDE DEF place, initiative, down
<1>12. z \in CombatType
  BY <1>0, <1>3, <1>7, <1>8, <1>9 DEF CombatType
<1>13. /\ z.status = x.status /\ z.turn = x.turn /\ z.fighters = x.fighters \cup back
       /\ z.defeated = x.defeated \cup down /\ z.place = place /\ z.initiative = initiative
       /\ z.saves = x.saves /\ z.asks = x.asks /\ z.damage \subseteq x.damage
  BY <1>0 DEF CombatType
<1> HIDE DEF z
<1>14. \A c \in back : x.turn[c] = "idle"
  BY <1>0, <1>3 DEF Good, GoodTurn
<1>15. GoodTurn(z)
  <2>1. \A c \in Combatants : x.turn[c] # "idle" => initiative[c] = x.initiative[c]
    BY <1>11, <1>14
  <2> QED BY <1>0, <1>13, <2>1 DEF Good, GoodTurn
<1>16. Placed(z)
  BY <1>10, <1>13 DEF Placed
<1>17. /\ y \in Good /\ y \in InLine /\ y \in CombatType
       /\ y.turn = z.turn /\ y.fighters = z.fighters /\ y.initiative = z.initiative
       /\ y.status = z.status /\ y.defeated = z.defeated /\ y.saves = z.saves /\ y.asks = z.asks
       /\ y.damage \subseteq z.damage
  BY <1>12, <1>15, <1>16, ReorderedGood
<1> HIDE DEF y
<1>18. Quiet(y) /\ WaitsOwn(y)
  <2>1. Dead(y) = Dead(x)
    BY <1>3, <1>9, <1>13, <1>17, CreaturesArePlain DEF Dead
  <2>2. back \in SUBSET (Combatants \ x.fighters)
    BY <1>3
  <2> QED BY <1>0, <1>13, <1>17, <2>1, <2>2, JoinedWaits
<1>19. Casting(y)
  <2>1. Creature(y) \subseteq back
    BY <1>13, <1>17 DEF Creature
  <2>2. \A c, d \in Creature(y) : y.initiative[c] = y.initiative[d]
    BY <1>3, <1>5, <1>11, <1>13, <1>17, <2>1
  <2>3. \A c \in Combatants \ y.fighters : y.initiative[c] = 0
    BY <1>0, <1>11, <1>13, <1>17 DEF Casting
  <2>4. Owner \in y.fighters
    BY <1>13, <1>17
  <2> QED BY <2>2, <2>3, <2>4 DEF Casting
<1> QED BY <1>6, <1>17, <1>18, <1>19 DEF Steady, Fit

(* The end of the concentration taken back.                                *)
LEMMA UndoEndCasts ==
  ASSUME Casts, UndoEndConcentration
  PROVE  Casts' /\ ~HeldForNothing(combat')
<1>1. PICK side \in {0, 2} : Write({Rejoined(combat, last.rows, side)})
  BY DEF UndoEndConcentration
<1>2. last.kind = "concentration" /\ last' = Nothing
  BY DEF UndoEndConcentration
<1>3. Kept(last.rows) /\ Owner \in combat.fighters /\ Creature(combat) = {}
  BY <1>2 DEF Casts, RowsKept, Brought, Creature
<1>4. combat \in Steady
  BY DEF Casts
<1>5. Rejoined(combat, last.rows, side) \in Steady
  BY <1>3, <1>4, RejoinedSteady
<1>6. combat' \in Steady /\ Fenced(combat') /\ ~HeldForNothing(combat')
  BY <1>1, <1>5, WriteSteady
<1> QED BY <1>2, <1>6 DEF Casts, RowsKept, Nothing

(* Every other change of the combat.                                       *)
LEMMA FightingCasts ==
  ASSUME Casts, Fighting, WithinRounds
  PROVE  Casts' /\ (HeldForNothing(combat') => Revival)
<1>0. combat \in Good /\ combat \in InLine /\ combat \in Fit /\ Fenced(combat)
  BY DEF Casts, Steady
<1>1. Next /\ RowsKept'
  BY DEF Fighting, Next, RowsKept, Nothing
<1>2. combat' \in Good /\ combat' \in InLine
  BY <1>0, <1>1, NextGood, NextInLine
<1>3. ASSUME Handed
      PROVE  combat' \in Fit /\ Fenced(combat') /\ ~HeldForNothing(combat')
  BY <1>3, HandedFit
<1>4. CASE Setup
  BY <1>0, <1>1, <1>2, <1>3, <1>4, SetupHands DEF Casts, Steady
<1>5. CASE Turns
  BY <1>0, <1>1, <1>2, <1>3, <1>5, TurnsHands DEF Casts, Steady
<1>6. CASE Hits
  BY <1>0, <1>1, <1>2, <1>3, <1>6, HitsHands DEF Casts, Steady
<1>7. ASSUME NEW c \in Combatants, NEW down \in BOOLEAN, AdjustHitPoints(c, down)
      PROVE  Handed
  BY <1>0, <1>7, LeavingHands
<1>8. ASSUME NEW p \in Players, ConfirmDeath(p)
      PROVE  Handed
  BY <1>0, <1>8, LeavingHands
<1>9. ASSUME NEW c \in Combatants, RemoveCombatant(c)
      PROVE  Handed
  BY <1>0, <1>9, LeavingHands
<1>10. ASSUME NEW p \in Players, ReviveInCombat(p)
       PROVE  combat' \in Fit /\ Fenced(combat') /\ Revival
  BY <1>0, <1>10, ReviveFit DEF Revival
<1>11. ASSUME EndEncounter
       PROVE  combat' \in Fit /\ Fenced(combat') /\ ~HeldForNothing(combat')
  <2>1. combat'.status = "ended"
    BY <1>0, <1>11 DEF EndEncounter, Fit, CombatType
  <2> QED BY <1>0, <1>11, <2>1, EndFit DEF HeldForNothing, Held
<1>12. CASE Leaving
  BY <1>1, <1>2, <1>3, <1>7, <1>8, <1>9, <1>10, <1>11, <1>12 DEF Leaving, Casts, Steady
<1> QED BY <1>4, <1>5, <1>6, <1>12 DEF Fighting

(* Every operation, and how it may leave the turn.                         *)
LEMMA SNextCasts ==
  ASSUME Casts, [SNext]_svars
  PROVE  Casts' /\ (HeldForNothing(combat') => Revival \/ HeldForNothing(combat) \/ TookASave)
<1>1. CASE Fighting /\ WithinRounds
  BY <1>1, FightingCasts
<1>2. CASE EndConcentration
  BY <1>2, EndConcentrationCasts
<1>3. CASE UndoCast
  BY <1>3, UndoCastCasts
<1>4. CASE UndoEndConcentration
  BY <1>4, UndoEndCasts
<1>5. ASSUME NEW c \in Creatures, CreaturesLeaving(c)
      PROVE  Casts' /\ (HeldForNothing(combat') => HeldForNothing(combat) \/ TookASave)
  BY <1>5, CreaturesLeavingCasts
<1>6. ASSUME NEW S \in SUBSET Creatures, NEW total \in 1..MaxInitiative, SummonCreatures(S, total)
      PROVE  Casts' /\ ~HeldForNothing(combat')
  BY <1>6, SummonCreaturesCasts
<1>7. CASE UNCHANGED svars
  <2>1. combat' = combat /\ last' = last
    BY <1>7 DEF svars
  <2>2. Casts'
    BY <2>1 DEF Casts, RowsKept, Brought
  <2> QED BY <2>1, <2>2
<1> QED BY <1>1, <1>2, <1>3, <1>4, <1>5, <1>6, <1>7 DEF SNext, Summoning

(* The empty combat.                                                       *)
LEMMA SInitCasts ==
  ASSUME SInit
  PROVE  Casts
<1>1. combat = Empty /\ last = Nothing
  BY DEF SInit, Init
<1>2. /\ combat \in CombatType /\ combat.fighters = {} /\ combat.status = "none"
      /\ combat.turn = [c \in Combatants |-> "idle"] /\ combat.initiative = [c \in Combatants |-> 0]
      /\ combat.saves = {} /\ combat.asks = {}
  BY <1>1, EmptyType DEF Empty
<1>3. combat \in Good
  BY <1>2 DEF Good, GoodTurn
<1>4. combat \in InLine
  BY <1>2 DEF InLine, Lined
<1>5. combat \in Fit /\ Fenced(combat)
  BY <1>2 DEF Fit, Casting, Quiet, WaitsOwn, Creature, Fenced
<1>6. RowsKept
  BY <1>1 DEF RowsKept, Nothing
<1> QED BY <1>3, <1>4, <1>5, <1>6 DEF Casts, Steady

(* In every state of every behaviour.                                      *)
LEMMA AlwaysCasts == SSpec => []Casts
<1>1. SInit => Casts
  BY SInitCasts
<1>2. Casts /\ [SNext]_svars => Casts'
  BY SNextCasts
<1> QED BY <1>1, <1>2, PTL DEF SSpec

(* The creatures of one casting keep one total, so they play in one joint  *)
(* turn, whichever way they came in and whoever of them went meanwhile.    *)
THEOREM CastingPlaysAsOne == SSpec => []OneTotalForTheCasting
<1>1. Casts => OneTotalForTheCasting
  BY DEF Casts, Steady, Fit, Casting, Creature, OneTotalForTheCasting, Brought
<1> QED BY <1>1, AlwaysCasts, PTL

(* No saving throw and no reaction of a creature that is gone holds the    *)
(* turn, however many went in one call, dismissed or deleted.              *)
THEOREM NobodyGoneIsWaitedFor == SSpec => []TheGoneHoldNothing
<1>1. Casts => TheGoneHoldNothing
  BY DEF Casts, Fenced, TheGoneHoldNothing
<1> QED BY <1>1, AlwaysCasts, PTL

(* The stored order stays a line in which the totals go down through the   *)
(* casts, the dismissals and their undoing.                                *)
THEOREM SummonsKeepTheLine == SSpec => []GroupsAreRuns
<1>1. Casts => GroupsAreRuns
  BY DEF Casts, Steady, InLine, Lined, GroupsAreRuns
<1> QED BY <1>1, AlwaysCasts, PTL

(* The turn stays one group's, creatures or not.                           *)
THEOREM SummonsKeepTheTurnJoint == SSpec => []JointTurn
<1>1. Casts => JointTurn
  BY DEF Casts, Steady, Good, GoodTurn, JointTurn, Members, CombatType
<1> QED BY <1>1, AlwaysCasts, PTL

(* Whatever way a creature goes or comes back, no turn that went on is left*)
(* waiting with no window to wait for: only a return to life does that, and*)
(* the creature sent away that held on another the effect it was asked by. *)
THEOREM SummonsMoveOn == SSpec => NeverHeldBySummons
<1>1. Casts /\ [SNext]_svars =>
        (HeldForNothing(combat)' => Revival \/ HeldForNothing(combat) \/ TookASave)
  <2> SUFFICES ASSUME Casts, [SNext]_svars, HeldForNothing(combat)'
               PROVE  Revival \/ HeldForNothing(combat) \/ TookASave
    OBVIOUS
  <2>1. HeldForNothing(combat')
    BY DEF HeldForNothing, Held, Living, Acting, Members, Windows
  <2> QED BY <2>1, SNextCasts
<1> QED BY <1>1, AlwaysCasts, PTL DEF SSpec, NeverHeldBySummons

=============================================================================
