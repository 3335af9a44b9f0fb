-------------------------- MODULE CombatRoundProofs --------------------------
(* Theorems about the turns of a round in CombatTurns: whom the screen names*)
(* as current, the turns a round owes, and what a turn waits for.           *)
EXTENDS CombatOrderProofs

Down(x) == x.defeated \cap NonPlayers

(* While somebody acts the current combatant is in the turn; it is a dead  *)
(* player's only when nobody else acts (a combat that began with everybody *)
(* defeated), so coming back to life takes no current out of a turn that   *)
(* others are still in.                                                    *)
Named(x) ==
    x.status = "active" /\ Acting(x) # {} =>
        /\ x.current \in Members(x)
        /\ x.current \in x.defeated \cap Players => Acting(x) \subseteq {x.current}

(* Who the round still owes a turn is below the group that runs, who had   *)
(* one in it is not; nobody was skipped and nobody played twice.  `gone` is*)
(* who leaves in the middle of the operation.                              *)
FairRoundBut(x, gone) ==
    /\ x.owed \subseteq Living(x) /\ x.had \subseteq x.fighters
    /\ x.status = "setup" => x.owed = {} /\ x.had = {} /\ x.round = 0
    /\ \A m \in Members(x) :
        /\ \A o \in x.owed \ gone : x.initiative[o] < x.initiative[m]
        /\ \A h \in x.had : x.initiative[h] >= x.initiative[m]
    /\ x.skipped = {} /\ x.repeated = {}

FairRound(x) == FairRoundBut(x, {})

(* A start-of-turn save is asked of somebody who acts (a dead player only  *)
(* when alone in the turn), or the turn is nobody's.                       *)
StartsWaitBut(x, gone) ==
    \A c \in Combatants \ gone : <<c, "start">> \in x.saves =>
        \/ Members(x) = {}
        \/ c \in Acting(x) /\ (c \in x.defeated \cap Players => Members(x) = {c})

SavesOnlyInPlay(x) ==
    /\ x.status # "active" => x.saves = {}
    /\ x.status = "setup" => x.damage = {}

(* What an operation hands to the settling; what the settling leaves.      *)
Ready == {x \in CombatType : /\ Named(x) /\ FairRound(x) /\ SavesOnlyInPlay(x)
                             /\ StartsWaitBut(x, Down(x))}
Sound == {x \in Ready : StartsWaitBut(x, {})}

------------------------------------------------------------------------------
(* Facts about one record.                                                 *)

(* Nobody is a player and a non-player.                                    *)
LEMMA NoPlayerIsNot ==
  Players \cap NonPlayers = {} /\ Players \cup NonPlayers = Combatants
  BY CombatantsAssumption DEF NonPlayers, Combatants

(* What a turn that starts may ask: the start saves of who takes it, and   *)
(* those for damage of an NPC that is not down.                            *)
MayOpen(x, ids) ==
    (ids \X {"start"}) \cup ((((Members(x) \cup ids) \cap NPCs) \ x.defeated) \X {"damage"})

(* What a turn that starts does to each field.                             *)
Begun(x, ids, r, y) ==
    /\ y.status = "active" /\ y.round = r
    /\ y.turn = [c \in Combatants |-> IF c \in ids THEN "acting" ELSE "idle"]
    /\ y.current \in ids
    /\ y.fighters = x.fighters /\ y.initiative = x.initiative /\ y.asks = x.asks
    /\ \E struck \in SUBSET NonPlayers :
          /\ y.defeated = x.defeated \cup struck
          /\ y.owed = (IF r > x.round THEN Living(x) \ ids ELSE x.owed \ ids) \ struck
    /\ y.had = IF r > x.round THEN ids ELSE x.had \cup ids
    /\ y.skipped = IF r > x.round THEN x.skipped \cup (x.owed \ ids) ELSE x.skipped
    /\ y.repeated = IF r > x.round THEN x.repeated ELSE x.repeated \cup (x.had \cap ids)
    /\ \E asked \in SUBSET MayOpen(x, ids) : y.saves = x.saves \cup asked

(* A turn that starts is begun so.                                         *)
LEMMA StartedFields ==
  ASSUME NEW x \in CombatType, NEW ids \in SUBSET Combatants, NEW r \in Nat,
         NEW y \in StartTurn(x, ids, r)
  PROVE  Begun(x, ids, r, y)
<1>1. PICK struck \in MayFall(x, ids), asked \in MayAsk(x, ids), first \in FirstOf(x, ids) :
        y = Started(x, ids, r, struck, asked, first)
  BY DEF StartTurn
<1>2. /\ struck \in SUBSET NonPlayers /\ first \in ids
      /\ asked \in SUBSET MayOpen(x, ids)
  BY DEF MayFall, MayAsk, MayOpen, FirstOf
<1> DEFINE u == Recorded(x, ids, r)
           v == Defeat(u, struck)
<1>3. /\ u \in CombatType /\ u.fighters = x.fighters /\ u.initiative = x.initiative
      /\ u.asks = x.asks /\ u.saves = x.saves /\ u.defeated = x.defeated
      /\ u.owed = (IF r > x.round THEN Living(x) \ ids ELSE x.owed \ ids)
      /\ u.had = IF r > x.round THEN ids ELSE x.had \cup ids
      /\ u.skipped = IF r > x.round THEN x.skipped \cup (x.owed \ ids) ELSE x.skipped
      /\ u.repeated = IF r > x.round THEN x.repeated ELSE x.repeated \cup (x.had \cap ids)
  <2>1. u \in CombatType
    BY RecordedType
  <2>2. CASE r > x.round
    BY <2>1, <2>2 DEF Recorded, CombatType
  <2>3. CASE ~(r > x.round)
    BY <2>1, <2>3 DEF Recorded, CombatType
  <2> QED BY <2>2, <2>3, <2>1
<1> HIDE DEF u
<1>4. /\ v \in CombatType /\ v.fighters = u.fighters /\ v.initiative = u.initiative
      /\ v.asks = u.asks /\ v.saves = u.saves /\ v.had = u.had
      /\ v.skipped = u.skipped /\ v.repeated = u.repeated
      /\ v.defeated = u.defeated \cup struck /\ v.owed = u.owed \ struck
  <2>1. struck \in SUBSET Combatants
    BY <1>2, NoPlayerIsNot
  <2>2. v \in CombatType
    BY <1>3, <2>1, DefeatType
  <2> QED BY <1>3, <2>2 DEF Defeat, CombatType
<1> HIDE DEF v
<1>5. y = [v EXCEPT !.status = "active", !.round = r,
               !.turn = [c \in Combatants |-> IF c \in ids THEN "acting" ELSE "idle"],
               !.saves = @ \cup asked, !.current = first]
  BY <1>1 DEF Started, u, v
<1>6. /\ y.status = "active" /\ y.round = r
      /\ y.turn = [c \in Combatants |-> IF c \in ids THEN "acting" ELSE "idle"]
      /\ y.current = first /\ y.saves = v.saves \cup asked
      /\ y.fighters = v.fighters /\ y.initiative = v.initiative /\ y.asks = v.asks
      /\ y.defeated = v.defeated /\ y.owed = v.owed /\ y.had = v.had
      /\ y.skipped = v.skipped /\ y.repeated = v.repeated
  BY <1>4, <1>5 DEF CombatType
<1> QED BY <1>2, <1>3, <1>4, <1>6 DEF Begun

(* Who is in a turn that starts.                                           *)
LEMMA StartedMembers ==
  ASSUME NEW x \in CombatType, NEW ids \in SUBSET x.fighters, NEW r \in Nat,
         NEW y \in StartTurn(x, ids, r)
  PROVE  y \in CombatType /\ Members(y) = ids /\ Acting(y) = ids /\ y.current \in ids
<1>0. ids \in SUBSET Combatants /\ x.fighters \in SUBSET Combatants
  BY DEF CombatType
<1> Begun(x, ids, r, y)
  BY <1>0, StartedFields
<1>1. /\ y.turn = [c \in Combatants |-> IF c \in ids THEN "acting" ELSE "idle"]
      /\ y.fighters = x.fighters /\ y.current \in ids
  BY DEF Begun
<1>2. y \in CombatType
  BY <1>0, StartTurnType
<1> QED BY <1>0, <1>1, <1>2 DEF Members, Acting

(* A group may take the turn: nobody the round owes a turn is passed over, *)
(* and nobody in it had one.                                               *)
Takes(x, ids, r, gone) ==
    /\ x.skipped = {} /\ x.repeated = {}
    /\ x.owed \subseteq Living(x) /\ x.had \subseteq x.fighters
    /\ r > x.round => x.owed \subseteq ids
    /\ \A i \in ids, o \in (IF r > x.round THEN Living(x) ELSE x.owed) \ (ids \cup gone) :
          x.initiative[o] < x.initiative[i]
    /\ ~(r > x.round) => x.had \cap ids = {}
    /\ ~(r > x.round) => \A i \in ids, h \in x.had : x.initiative[h] >= x.initiative[i]

(* A turn that starts is sound, apart from who leaves.                     *)
LEMMA StartTurnReady ==
  ASSUME NEW x \in CombatType, NEW ids \in SUBSET x.fighters, OneTotal(x, ids),
         NEW r \in Nat, NEW gone, Takes(x, ids, r, gone),
         ids \cap (x.defeated \cap Players) = {} \/ \E a : ids = {a},
         \A c \in Combatants \ gone : <<c, "start">> \in x.saves => c \in Down(x),
         NEW y \in StartTurn(x, ids, r)
  PROVE  /\ y \in CombatType /\ Named(y) /\ FairRoundBut(y, gone) /\ SavesOnlyInPlay(y)
         /\ StartsWaitBut(y, Down(y) \cup gone)
         /\ Acting(y) = ids /\ y.current \in ids
<1>0. ids \in SUBSET Combatants /\ x.fighters \in SUBSET Combatants
  BY DEF CombatType
<1> Begun(x, ids, r, y)
  BY <1>0, StartedFields
<1>1. /\ y \in CombatType /\ Members(y) = ids /\ Acting(y) = ids /\ y.current \in ids
  BY StartedMembers
<1>2. /\ y.status = "active" /\ y.round = r
      /\ y.fighters = x.fighters /\ y.initiative = x.initiative
      /\ y.had = IF r > x.round THEN ids ELSE x.had \cup ids
      /\ y.skipped = IF r > x.round THEN x.skipped \cup (x.owed \ ids) ELSE x.skipped
      /\ y.repeated = IF r > x.round THEN x.repeated ELSE x.repeated \cup (x.had \cap ids)
  BY DEF Begun
<1>3. PICK struck \in SUBSET NonPlayers :
        /\ y.defeated = x.defeated \cup struck
        /\ y.owed = (IF r > x.round THEN Living(x) \ ids ELSE x.owed \ ids) \ struck
  BY DEF Begun
<1>4. PICK asked \in SUBSET MayOpen(x, ids) : y.saves = x.saves \cup asked
  BY DEF Begun
<1>5. y.defeated \cap Players = x.defeated \cap Players
  BY <1>3, NoPlayerIsNot
<1>6. Named(y)
  BY <1>1, <1>5 DEF Named
<1>7. FairRoundBut(y, gone)
  <2>1. y.owed \subseteq Living(y)
    BY <1>2, <1>3 DEF Takes, Living
  <2>2. y.had \subseteq y.fighters
    BY <1>2 DEF Takes
  <2>3. y.skipped = {} /\ y.repeated = {}
    BY <1>2 DEF Takes
  <2>4. ASSUME NEW m \in Members(y), NEW o \in y.owed \ gone
        PROVE  y.initiative[o] < y.initiative[m]
    BY <1>1, <1>2, <1>3 DEF Takes
  <2>5. ASSUME NEW m \in Members(y), NEW h \in y.had
        PROVE  y.initiative[h] >= y.initiative[m]
    <3>1. m \in ids
      BY <1>1
    <3>2. \A a \in ids : x.initiative[a] >= x.initiative[m]
      BY <1>0, <3>1, BoundsAssumption DEF OneTotal, CombatType
    <3> QED BY <1>2, <3>1, <3>2 DEF Takes
  <2> QED BY <1>2, <2>1, <2>2, <2>3, <2>4, <2>5 DEF FairRoundBut
<1>8. StartsWaitBut(y, Down(y) \cup gone)
  <2> SUFFICES ASSUME NEW c \in Combatants, c \notin Down(y), c \notin gone, <<c, "start">> \in y.saves
               PROVE  c \in Acting(y) /\ (c \in y.defeated \cap Players => Members(y) = {c})
    BY DEF StartsWaitBut
  <2>1. c \notin Down(x)
    BY <1>3 DEF Down
  <2>2. <<c, "start">> \in asked
    BY <1>4, <2>1
  <2>3. c \in ids
    BY <2>2 DEF MayOpen
  <2> QED BY <1>1, <1>5, <2>3
<1>9. SavesOnlyInPlay(y)
  BY <1>2 DEF SavesOnlyInPlay
<1> QED BY <1>1, <1>6, <1>7, <1>8, <1>9

(* Below the highest of a set everybody else of it has a lower total.      *)
LEMMA HighestAbove ==
  ASSUME NEW x \in CombatType, NEW S \in SUBSET Combatants
  PROVE  \A i \in Highest(x, S), o \in S \ Highest(x, S) : x.initiative[o] < x.initiative[i]
<1>1. \A c \in S : x.initiative[c] \in Nat
  BY BoundsAssumption DEF CombatType
<1> QED BY <1>1 DEF Highest

(* The turn goes on to the group after `from`: the same round while there  *)
(* is one below it, and no group is passed over.                           *)
LEMMA NextGroupTakes ==
  ASSUME NEW x \in CombatType, NEW seen \in CombatType,
         x.fighters = seen.fighters, x.initiative = seen.initiative, FairRound(x),
         NEW from \in Members(x), NEW leaver \in SUBSET {from},
         Living(x) \ leaver = Living(seen) \ leaver
  PROVE  Takes(x, NextGroup(seen, from, leaver), NextRound(x, seen, from, leaver), leaver)
<1> DEFINE ids == NextGroup(seen, from, leaver)
           r == NextRound(x, seen, from, leaver)
           below == Below(seen, from, leaver)
<1>0. /\ Living(seen) \in SUBSET Combatants /\ below \in SUBSET Combatants
      /\ from \in Combatants /\ x.round \in Nat /\ x.owed \in SUBSET Combatants
      /\ x.had \in SUBSET Combatants
  BY DEF Living, Below, Members, CombatType
<1>1. \A c \in Combatants : x.initiative[c] \in Nat
  BY BoundsAssumption DEF CombatType
<1>2. /\ x.skipped = {} /\ x.repeated = {}
      /\ x.owed \subseteq Living(x) /\ x.had \subseteq x.fighters
      /\ \A o \in x.owed : x.initiative[o] < x.initiative[from]
      /\ \A h \in x.had : x.initiative[h] >= x.initiative[from]
  BY DEF FairRound, FairRoundBut
<1>3. x.owed \subseteq below
  <2>1. from \notin x.owed
    BY <1>0, <1>1, <1>2
  <2>2. x.owed \subseteq Living(seen) \ leaver
    BY <1>2, <2>1
  <2> QED BY <1>2, <2>2 DEF Below
<1>4. CASE below # {}
  <2>1. ids = Highest(seen, below) /\ r = x.round
    BY <1>4 DEF NextGroup, NextRound
  <2>2. ~(r > x.round)
    BY <1>0, <2>1
  <2>3. \A i \in ids : i \in below /\ x.initiative[i] < x.initiative[from]
    BY <2>1 DEF Highest, Below
  <2>4. \A i \in ids, h \in x.had : x.initiative[h] > x.initiative[i]
    BY <1>0, <1>1, <1>2, <2>3
  <2>5. x.had \cap ids = {}
    BY <1>0, <1>1, <2>4
  <2>6. \A i \in ids, o \in x.owed \ ids : x.initiative[o] < x.initiative[i]
    BY <1>0, <1>3, <2>1, HighestAbove
  <2>7. \A i \in ids, h \in x.had : x.initiative[h] >= x.initiative[i]
    BY <1>0, <1>1, <2>3, <2>4
  <2> HIDE DEF ids, r
  <2>8. Takes(x, ids, r, leaver)
    BY <1>2, <2>2, <2>5, <2>6, <2>7 DEF Takes
  <2> QED BY <2>8 DEF ids, r
<1>5. CASE below = {}
  <2>1. ids = Highest(seen, Living(seen) \ leaver) /\ r = x.round + 1
    BY <1>5 DEF NextGroup, NextRound
  <2>2. r > x.round /\ x.owed = {}
    BY <1>0, <1>3, <1>5, <2>1
  <2>3. Living(seen) \ leaver \in SUBSET Combatants
    BY <1>0
  <2>4. \A i \in ids, o \in (Living(seen) \ leaver) \ ids : x.initiative[o] < x.initiative[i]
    BY <2>1, <2>3, HighestAbove
  <2>5. Living(x) \ (ids \cup leaver) = (Living(seen) \ leaver) \ ids
    OBVIOUS
  <2> HIDE DEF ids, r
  <2>6. Takes(x, ids, r, leaver)
    BY <1>2, <2>2, <2>4, <2>5 DEF Takes
  <2> QED BY <2>6 DEF ids, r
<1> QED BY <1>4, <1>5

(* The settling leaves a sound combat, and no turn that waits for nothing. *)
LEMMA SettleSound ==
  ASSUME NEW x \in Ready, NEW y \in Settle(x)
  PROVE  y \in Sound
<1>0. x \in CombatType /\ SavesOnlyInPlay(x)
  BY DEF Ready
<1>1. CASE x.status # "active"
  <2>1. y = x /\ x.saves = {}
    BY <1>0, <1>1 DEF Settle, SavesOnlyInPlay
  <2> QED BY <2>1 DEF Sound, StartsWaitBut
<1>2. CASE x.status = "active"
  <2> DEFINE z == Closed(x)
  <2>1. /\ z \in CombatType
        /\ z.saves = {w \in x.saves : w[1] \in x.fighters /\ ~(w[1] \in NonPlayers /\ w[1] \in x.defeated)}
        /\ z.status = x.status /\ z.fighters = x.fighters /\ z.turn = x.turn /\ z.current = x.current
        /\ z.defeated = x.defeated /\ z.initiative = x.initiative /\ z.round = x.round
        /\ z.owed = x.owed /\ z.had = x.had /\ z.skipped = x.skipped /\ z.repeated = x.repeated
    <3>1. z \in CombatType
      BY <1>0, ClosedType
    <3> QED BY <1>0, <3>1 DEF Closed, CombatType
  <2> HIDE DEF z
  <2>2. Members(z) = Members(x) /\ Acting(z) = Acting(x) /\ Living(z) = Living(x)
    BY <2>1 DEF Members, Acting, Living
  <2>3. Named(z) /\ FairRound(z)
    BY <2>1, <2>2 DEF Ready, Named, FairRound, FairRoundBut
  <2>4. SavesOnlyInPlay(z)
    BY <1>2, <2>1 DEF SavesOnlyInPlay
  <2>5. StartsWaitBut(z, {})
    <3> SUFFICES ASSUME NEW c \in Combatants, <<c, "start">> \in z.saves
                 PROVE  \/ Members(z) = {}
                        \/ c \in Acting(z) /\ (c \in z.defeated \cap Players => Members(z) = {c})
      BY DEF StartsWaitBut
    <3>1. <<c, "start">> \in x.saves /\ c \notin Down(x)
      BY <2>1 DEF Down
    <3>2. \/ Members(x) = {}
          \/ c \in Acting(x) /\ (c \in x.defeated \cap Players => Members(x) = {c})
      BY <3>1 DEF Ready, StartsWaitBut
    <3> QED BY <2>1, <2>2, <3>2
  <2>6. z \in Sound
    <3>1. StartsWaitBut(z, Down(z))
      BY <2>5 DEF StartsWaitBut
    <3> QED BY <2>1, <2>3, <2>4, <2>5, <3>1 DEF Sound, Ready
  <2>7. CASE y = z
    BY <2>6, <2>7
  <2>8. CASE /\ Held(z)
             /\ \E m \in FirstOf(z, Members(z)) :
                  y \in StartTurn(z, NextGroup(z, m, {}), NextRound(z, z, m, {}))
    <3>1. PICK m \in Members(z) : y \in StartTurn(z, NextGroup(z, m, {}), NextRound(z, z, m, {}))
      BY <2>8 DEF FirstOf
    <3> DEFINE ids == NextGroup(z, m, {})
               r == NextRound(z, z, m, {})
    <3>2. Takes(z, ids, r, {})
      BY <2>1, <2>3, NextGroupTakes
    <3>3. ids \in SUBSET z.fighters /\ OneTotal(z, ids) /\ r \in Nat
      BY <2>1, NextGroupGood, NextRoundType
    <3>4. ids \cap (z.defeated \cap Players) = {}
      BY NextGroupLives DEF Living
    <3>5. z.saves = {}
      BY <2>8 DEF Held, Windows
    <3> HIDE DEF ids, r
    <3>6. /\ y \in CombatType /\ Named(y) /\ FairRoundBut(y, {}) /\ SavesOnlyInPlay(y)
          /\ Acting(y) = ids
      BY <2>1, <3>1, <3>2, <3>3, <3>4, <3>5, StartTurnReady DEF ids, r
    <3>7. y \in StartTurn(z, ids, r)
      BY <3>1 DEF ids, r
    <3>8. Members(y) = ids
      BY <2>1, <3>3, <3>7, StartedMembers
    <3>9. ids \in SUBSET Combatants
      BY <2>1, <3>3 DEF CombatType
    <3> Begun(z, ids, r, y)
      BY <2>1, <3>3, <3>7, <3>9, StartedFields
    <3>10. PICK asked \in SUBSET MayOpen(z, ids) : y.saves = z.saves \cup asked
      BY DEF Begun
    <3>11. y.defeated \cap Players = z.defeated \cap Players
      <4>1. \E struck \in SUBSET NonPlayers : y.defeated = z.defeated \cup struck
        BY DEF Begun
      <4> QED BY <4>1, NoPlayerIsNot
    <3>12. \A c : <<c, "start">> \in y.saves => c \in ids
      BY <3>5, <3>10 DEF MayOpen
    <3>13. StartsWaitBut(y, {}) /\ StartsWaitBut(y, Down(y))
      BY <3>4, <3>6, <3>11, <3>12 DEF StartsWaitBut
    <3> QED BY <3>6, <3>13 DEF Sound, Ready, FairRound
  <2> QED BY <1>2, <2>7, <2>8 DEF Settle, ReleaseHeldTurn, z
<1> QED BY <1>1, <1>2

------------------------------------------------------------------------------
(* What the operations hand to the settling is ready for it.               *)

(* A call whose records are ready leaves a sound combat.                   *)
LEMMA WriteSound ==
  ASSUME NEW S, S \subseteq Ready, Write(S)
  PROVE  combat' \in Sound
  BY SettleSound DEF Write

(* Everything but the marks, the round and who is in it may change: hits,  *)
(* windows, the order among the tied, and non-players that fall.           *)
SameTurn(x, y) ==
    /\ y.status = x.status /\ y.turn = x.turn /\ y.fighters = x.fighters
    /\ y.initiative = x.initiative /\ y.current = x.current /\ y.round = x.round
    /\ y.had = x.had /\ y.skipped = x.skipped /\ y.repeated = x.repeated
    /\ y.defeated \cap Players = x.defeated \cap Players
    /\ y.saves \subseteq x.saves \cup (Combatants \X {"damage"})
    /\ x.status # "active" => y.saves \subseteq x.saves /\ y.damage \subseteq x.damage

(* The same turn, with fewer still owed one, is ready.                     *)
LEMMA SameTurnReady ==
  ASSUME NEW x \in Sound, NEW y \in CombatType, SameTurn(x, y),
         y.owed \subseteq x.owed, y.owed \subseteq Living(y)
  PROVE  y \in Ready
<1>1. Members(y) = Members(x) /\ Acting(y) = Acting(x)
  BY DEF SameTurn, Members, Acting
<1>2. Named(y)
  BY <1>1 DEF Sound, Ready, Named, SameTurn
<1>3. FairRound(x)
  BY DEF Sound, Ready
<1>4. /\ y.had \subseteq y.fighters /\ y.skipped = {} /\ y.repeated = {}
      /\ y.status = "setup" => y.owed = {} /\ y.had = {} /\ y.round = 0
  BY <1>3 DEF FairRound, FairRoundBut, SameTurn
<1>5. ASSUME NEW m \in Members(y)
      PROVE  /\ \A o \in y.owed \ {} : y.initiative[o] < y.initiative[m]
             /\ \A h \in y.had : y.initiative[h] >= y.initiative[m]
  BY <1>1, <1>3 DEF FairRound, FairRoundBut, SameTurn
<1>6. FairRound(y)
  BY <1>4, <1>5 DEF FairRound, FairRoundBut
<1>7. SavesOnlyInPlay(y)
  BY DEF SavesOnlyInPlay, SameTurn, Sound, Ready
<1>8. StartsWaitBut(y, Down(y))
  BY <1>1 DEF StartsWaitBut, SameTurn, Sound
<1> QED BY <1>2, <1>6, <1>7, <1>8 DEF Ready

(* Who joins is out of the turn and owed nothing.                          *)
LEMMA JoinedReady ==
  ASSUME NEW x \in Sound, x \in Good, NEW S \in SUBSET (Combatants \ x.fighters),
         NEW y \in Joined(x, S)
  PROVE  y \in Ready
<1>0. x \in CombatType /\ S \in SUBSET Combatants /\ y \in CombatType
  BY JoinedType DEF Good
<1>1. PICK seat, total : y = Seated(x, S, seat, total)
  BY DEF Joined
<1>2. /\ y.turn = x.turn /\ y.status = x.status /\ y.fighters = x.fighters \cup S
      /\ y.initiative = [c \in Combatants |-> IF c \in S \cap NPCs THEN total[c] ELSE x.initiative[c]]
  BY <1>0, <1>1 DEF Seated, Ordered, CombatType
<1>3. /\ y.current = x.current /\ y.round = x.round /\ y.saves = x.saves /\ y.damage = x.damage
      /\ y.defeated = x.defeated /\ y.owed = x.owed /\ y.had = x.had
      /\ y.skipped = x.skipped /\ y.repeated = x.repeated
  BY <1>0, <1>1 DEF Seated, Ordered, CombatType
<1>4. Members(y) = Members(x) /\ Acting(y) = Acting(x)
  BY <1>0, <1>2 DEF Members, Acting, Good, GoodTurn
<1>5. FairRound(x)
  BY DEF Sound, Ready
<1>6. \A c \in x.fighters : y.initiative[c] = x.initiative[c]
  BY <1>0, <1>2 DEF CombatType
<1>7. Members(x) \subseteq x.fighters /\ x.owed \subseteq x.fighters /\ x.had \subseteq x.fighters
  BY <1>5 DEF FairRound, FairRoundBut, Members, Living
<1>8. ASSUME NEW m \in Members(y)
      PROVE  /\ \A o \in y.owed \ {} : y.initiative[o] < y.initiative[m]
             /\ \A h \in y.had : y.initiative[h] >= y.initiative[m]
  <2>1. m \in Members(x) /\ y.initiative[m] = x.initiative[m]
    BY <1>4, <1>6, <1>7
  <2>2. \A o \in x.owed : x.initiative[o] < x.initiative[m]
    BY <1>5, <2>1 DEF FairRound, FairRoundBut
  <2>3. \A h \in x.had : x.initiative[h] >= x.initiative[m]
    BY <1>5, <2>1 DEF FairRound, FairRoundBut
  <2> QED BY <1>3, <1>6, <1>7, <2>1, <2>2, <2>3
<1>9. y.owed \subseteq Living(y) /\ y.had \subseteq y.fighters
  BY <1>2, <1>3, <1>5 DEF FairRound, FairRoundBut, Living
<1>10. FairRound(y)
  BY <1>2, <1>3, <1>5, <1>8, <1>9 DEF FairRound, FairRoundBut
<1>11. Named(y)
  BY <1>2, <1>3, <1>4 DEF Sound, Ready, Named
<1>12. SavesOnlyInPlay(y)
  BY <1>2, <1>3 DEF SavesOnlyInPlay, Sound, Ready
<1>13. StartsWaitBut(y, Down(y))
  BY <1>3, <1>4 DEF StartsWaitBut, Sound
<1> QED BY <1>0, <1>10, <1>11, <1>12, <1>13 DEF Ready

(* A part that ends, and the turn that is passed on.                       *)
LEMMA PassTheTurnReady ==
  ASSUME combat \in Sound, NEW c \in combat.fighters, NEW dropped, NEW saves \in SUBSET {<<c, "end">>},
         combat.status = "active", combat.turn[c] = "acting", combat.saves = {},
         NEW y \in PassTheTurn(PartEnded(c, dropped, saves), c)
  PROVE  y \in Ready
<1> DEFINE x == PartEnded(c, dropped, saves)
<1>0. combat \in CombatType /\ c \in Combatants
  BY DEF Sound, Ready, CombatType
<1>1. x \in CombatType
  BY <1>0, PartEndedType
<1>2. /\ x.turn = [combat.turn EXCEPT ![c] = "ended"]
      /\ x.saves = combat.saves \cup saves
      /\ x.status = combat.status /\ x.fighters = combat.fighters /\ x.initiative = combat.initiative
      /\ x.current = combat.current /\ x.round = combat.round /\ x.defeated = combat.defeated
      /\ x.owed = combat.owed /\ x.had = combat.had
      /\ x.skipped = combat.skipped /\ x.repeated = combat.repeated
  BY <1>0 DEF PartEnded, CombatType
<1> HIDE DEF x
<1>3. /\ Members(x) = Members(combat) /\ Acting(x) = Acting(combat) \ {c}
      /\ Living(x) = Living(combat) /\ c \in Members(x)
  BY <1>0, <1>2 DEF Members, Acting, Living, CombatType
<1>4. FairRound(x)
  BY <1>2, <1>3 DEF Sound, Ready, FairRound, FairRoundBut
<1>5. \A q : <<q, "start">> \notin x.saves
  BY <1>2
<1>6. x \in Ready
  <2>1. Named(x)
    BY <1>2, <1>3 DEF Sound, Ready, Named
  <2>2. SavesOnlyInPlay(x)
    BY <1>2 DEF SavesOnlyInPlay
  <2>3. StartsWaitBut(x, Down(x))
    BY <1>5 DEF StartsWaitBut
  <2> QED BY <1>1, <1>4, <2>1, <2>2, <2>3 DEF Ready
<1>7. CASE y = x
  BY <1>6, <1>7
<1>8. CASE \E o \in FirstOf(x, OthersActing(combat, c)) : y = [x EXCEPT !.current = o]
  <2>1. PICK o \in OthersActing(combat, c) : y = [x EXCEPT !.current = o]
    BY <1>8 DEF FirstOf
  <2>2. o \in Combatants /\ o \in Acting(x) /\ o \notin x.defeated /\ o \in Members(x)
    BY <1>0, <1>2, <1>3, <2>1 DEF OthersActing, Acting, Members, CombatType
  <2>3. /\ y \in CombatType /\ y.current = o
        /\ y.turn = x.turn /\ y.saves = x.saves
        /\ y.status = x.status /\ y.fighters = x.fighters /\ y.initiative = x.initiative
        /\ y.round = x.round /\ y.defeated = x.defeated
        /\ y.owed = x.owed /\ y.had = x.had
        /\ y.skipped = x.skipped /\ y.repeated = x.repeated
    BY <1>1, <2>1, <2>2 DEF CombatType
  <2>4. Members(y) = Members(x) /\ Acting(y) = Acting(x) /\ Living(y) = Living(x)
    BY <2>3 DEF Members, Acting, Living
  <2>5. Named(y)
    BY <2>2, <2>3, <2>4 DEF Named
  <2>6. FairRound(y)
    BY <1>4, <2>3, <2>4 DEF FairRound, FairRoundBut
  <2>7. SavesOnlyInPlay(y)
    BY <1>2, <2>3 DEF SavesOnlyInPlay
  <2>8. StartsWaitBut(y, Down(y))
    BY <1>5, <2>3 DEF StartsWaitBut
  <2> QED BY <2>3, <2>5, <2>6, <2>7, <2>8 DEF Ready
<1>9. CASE y \in StartTurn(x, NextGroup(x, c, {}), NextRound(x, x, c, {}))
  <2> DEFINE ids == NextGroup(x, c, {})
             r == NextRound(x, x, c, {})
  <2>1. Takes(x, ids, r, {})
    BY <1>1, <1>3, <1>4, NextGroupTakes
  <2>2. ids \in SUBSET x.fighters /\ OneTotal(x, ids) /\ r \in Nat
    BY <1>1, NextGroupGood, NextRoundType
  <2>3. ids \cap (x.defeated \cap Players) = {}
    BY NextGroupLives DEF Living
  <2>4. y \in StartTurn(x, ids, r)
    BY <1>9
  <2> HIDE DEF ids, r
  <2>5. /\ y \in CombatType /\ Named(y) /\ FairRoundBut(y, {}) /\ SavesOnlyInPlay(y)
        /\ StartsWaitBut(y, Down(y) \cup {})
    BY <1>1, <1>5, <2>1, <2>2, <2>3, <2>4, StartTurnReady
  <2>6. StartsWaitBut(y, Down(y))
    BY <2>5 DEF StartsWaitBut
  <2> QED BY <2>5, <2>6 DEF Ready, FairRound
<1> QED BY <1>7, <1>8, <1>9 DEF PassTheTurn, x

(* What is left of a turn while who leaves it is still in the lists.       *)
LeavingBut(y, who) ==
    /\ y \in CombatType /\ Named(y) /\ FairRoundBut(y, {who}) /\ SavesOnlyInPlay(y)
    /\ StartsWaitBut(y, Down(y) \cup {who})
    /\ y.status = "active" /\ Acting(y) # {} => y.current # who

(* Who leaves the turn: dead (`x` is the record after the death) or about  *)
(* to be removed (`x` is still the combat).                                *)
LEMMA LeaveTurnReady ==
  ASSUME NEW seen \in Sound, NEW who \in seen.fighters, NEW x \in CombatType,
         x.status = seen.status, x.turn = seen.turn, x.fighters = seen.fighters,
         x.initiative = seen.initiative, x.current = seen.current,
         seen.defeated \subseteq x.defeated, x.defeated \subseteq seen.defeated \cup {who},
         x.saves \subseteq seen.saves, x.damage = seen.damage, FairRound(x),
         NEW y \in LeaveTurn(x, seen, who)
  PROVE  LeavingBut(y, who)
<1>0. /\ seen \in CombatType /\ who \in Combatants /\ x.fighters \in SUBSET Combatants
      /\ Named(seen) /\ SavesOnlyInPlay(seen) /\ StartsWaitBut(seen, {})
  BY DEF Sound, Ready, CombatType
<1>1. /\ Members(x) = Members(seen) /\ Acting(x) = Acting(seen)
      /\ Living(x) \ {who} = Living(seen) \ {who}
  BY DEF Members, Acting, Living
<1>2. SavesOnlyInPlay(x)
  BY <1>0 DEF SavesOnlyInPlay
<1>3. ASSUME NEW c \in Combatants, c # who, <<c, "start">> \in x.saves
      PROVE  \/ Members(x) = {}
             \/ c \in Acting(x) /\ (c \in x.defeated \cap Players => Members(x) = {c})
  BY <1>0, <1>1, <1>3 DEF StartsWaitBut
<1>4. \A r : FairRoundBut(x, r)
  BY DEF FairRound, FairRoundBut
<1>5. CASE y = x /\ (x.status # "active" \/ seen.turn[who] = "idle")
  <2>1. x.status = "active" /\ Acting(x) # {} => x.current \in Members(x) /\ x.current # who
    BY <1>0, <1>1, <1>5 DEF Named, Members
  <2>2. Named(x)
    BY <1>0, <1>1, <2>1 DEF Named
  <2>3. StartsWaitBut(x, Down(x) \cup {who})
    BY <1>3 DEF StartsWaitBut
  <2> QED BY <1>2, <1>4, <1>5, <2>1, <2>2, <2>3 DEF LeavingBut
<1>6. CASE \E o \in FirstOf(seen, OthersActing(seen, who)) : y = [x EXCEPT !.current = o]
  <2>1. PICK o \in OthersActing(seen, who) : y = [x EXCEPT !.current = o]
    BY <1>6 DEF FirstOf
  <2>2. /\ o \in Combatants /\ o \in Acting(x) /\ o \notin x.defeated /\ o \in Members(x)
        /\ o # who
    BY <1>0, <1>1, <2>1 DEF OthersActing, Acting, Members, CombatType
  <2>3. /\ y \in CombatType /\ y.current = o
        /\ y.turn = x.turn /\ y.saves = x.saves /\ y.damage = x.damage
        /\ y.status = x.status /\ y.fighters = x.fighters /\ y.initiative = x.initiative
        /\ y.round = x.round /\ y.defeated = x.defeated
        /\ y.owed = x.owed /\ y.had = x.had
        /\ y.skipped = x.skipped /\ y.repeated = x.repeated
    BY <2>1, <2>2 DEF CombatType
  <2>4. Members(y) = Members(x) /\ Acting(y) = Acting(x) /\ Living(y) = Living(x)
    BY <2>3 DEF Members, Acting, Living
  <2>5. Named(y)
    BY <2>2, <2>3, <2>4 DEF Named
  <2>6. FairRoundBut(y, {who})
    BY <1>4, <2>3, <2>4 DEF FairRoundBut
  <2>7. SavesOnlyInPlay(y)
    BY <1>2, <2>3 DEF SavesOnlyInPlay
  <2>8. StartsWaitBut(y, Down(y) \cup {who})
    BY <1>3, <2>3, <2>4 DEF StartsWaitBut
  <2> QED BY <2>2, <2>3, <2>5, <2>6, <2>7, <2>8 DEF LeavingBut
<1>7. CASE /\ y = [x EXCEPT !.turn = [c \in Combatants |-> "idle"], !.current = Nobody]
           /\ x.status = "active"
  <2>1. /\ y.turn = [c \in Combatants |-> "idle"] /\ y.saves = x.saves /\ y.damage = x.damage
        /\ y.status = x.status /\ y.fighters = x.fighters /\ y.initiative = x.initiative
        /\ y.round = x.round /\ y.defeated = x.defeated
        /\ y.owed = x.owed /\ y.had = x.had
        /\ y.skipped = x.skipped /\ y.repeated = x.repeated
    BY <1>7 DEF CombatType
  <2>2. y \in CombatType
    BY <1>7 DEF CombatType, TurnState
  <2>3. Members(y) = {} /\ Acting(y) = {} /\ Living(y) = Living(x)
    BY <1>0, <2>1 DEF Members, Acting, Living
  <2>4. FairRoundBut(y, {who})
    BY <1>4, <2>1, <2>3 DEF FairRoundBut
  <2>5. SavesOnlyInPlay(y)
    BY <1>2, <2>1 DEF SavesOnlyInPlay
  <2> QED BY <2>2, <2>3, <2>4, <2>5 DEF LeavingBut, Named, StartsWaitBut
<1>8. CASE /\ y \in StartTurn(x, NextGroup(seen, who, {who}), NextRound(x, seen, who, {who}))
           /\ seen.turn[who] # "idle" /\ OthersActing(seen, who) = {}
  <2> DEFINE ids == NextGroup(seen, who, {who})
             r == NextRound(x, seen, who, {who})
  <2>1. who \in Members(x)
    BY <1>1, <1>8 DEF Members
  <2>2. Takes(x, ids, r, {who})
    BY <1>0, <1>1, <2>1, NextGroupTakes
  <2>3. ids \in SUBSET x.fighters /\ OneTotal(x, ids) /\ r \in Nat
    <3>1. ids \in SUBSET seen.fighters /\ OneTotal(seen, ids)
      BY <1>0, NextGroupGood
    <3>2. r \in Nat
      BY NextRoundType
    <3> HIDE DEF ids, r
    <3> QED BY <3>1, <3>2 DEF OneTotal
  <2>4. ids \subseteq Living(seen) \ {who}
    BY NextGroupLives
  <2>5. y \in StartTurn(x, ids, r)
    BY <1>8
  <2> HIDE DEF ids, r
  <2>6. ids \cap (x.defeated \cap Players) = {}
    BY <1>1, <2>4 DEF Living
  <2>7. \A c \in Combatants \ {who} : <<c, "start">> \in x.saves => c \in Down(x)
    <3> SUFFICES ASSUME NEW c \in Combatants, c # who, <<c, "start">> \in x.saves
                 PROVE  c \in Down(x)
      OBVIOUS
    <3>1. c \in Acting(x) /\ (c \in x.defeated \cap Players => Members(x) = {c})
      BY <1>3, <2>1
    <3>2. c \notin x.defeated \cap Players
      BY <2>1, <3>1
    <3>3. c \in x.defeated
      BY <1>1, <1>8, <3>1 DEF OthersActing
    <3> QED BY <3>2, <3>3, NoPlayerIsNot DEF Down
  <2>8. /\ y \in CombatType /\ Named(y) /\ FairRoundBut(y, {who}) /\ SavesOnlyInPlay(y)
        /\ StartsWaitBut(y, Down(y) \cup {who}) /\ y.current \in ids
    BY <2>2, <2>3, <2>5, <2>6, <2>7, StartTurnReady
  <2>9. y.current # who
    BY <2>4, <2>8
  <2> QED BY <2>8, <2>9 DEF LeavingBut
<1> QED BY <1>5, <1>6, <1>7, <1>8 DEF LeaveTurn

(* The rows that go take with them what was left of who leaves.            *)
LEMMA WithoutReady ==
  ASSUME NEW x, NEW who \in Combatants, LeavingBut(x, who), NEW S \in SUBSET Combatants, who \in S,
         x.status = "active" => S = {who}
  PROVE  Without(x, S) \in Ready
<1>0. x \in CombatType
  BY DEF LeavingBut
<1> DEFINE y == Without(x, S)
<1>1. y \in CombatType
  BY <1>0, WithoutType
<1>2. /\ y.turn = [c \in Combatants |-> IF c \in S THEN "idle" ELSE x.turn[c]]
      /\ y.initiative = [c \in Combatants |-> IF c \in S THEN 0 ELSE x.initiative[c]]
      /\ y.saves = {w \in x.saves : w[1] \notin S} /\ y.damage \subseteq x.damage
      /\ y.fighters = x.fighters \ S /\ y.defeated = x.defeated \ S
  BY <1>0 DEF Without, Ordered, CombatType
<1>3. /\ y.owed = x.owed \ S /\ y.had = x.had \ S
      /\ y.status = x.status /\ y.current = x.current /\ y.round = x.round
      /\ y.skipped = x.skipped /\ y.repeated = x.repeated
  BY <1>0 DEF Without, Ordered, CombatType
<1> HIDE DEF y
<1>4. /\ Members(y) = Members(x) \ S /\ Acting(y) = Acting(x) \ S
      /\ x.fighters \in SUBSET Combatants
  BY <1>0, <1>2 DEF Members, Acting, CombatType
<1>5. Named(y)
  <2> SUFFICES ASSUME y.status = "active", Acting(y) # {}
               PROVE  /\ y.current \in Members(y)
                      /\ y.current \in y.defeated \cap Players => Acting(y) \subseteq {y.current}
    BY DEF Named
  <2>1. x.status = "active" /\ Acting(x) # {} /\ S = {who}
    BY <1>3, <1>4
  <2>2. x.current # who /\ x.current \in Members(x)
    BY <2>1 DEF LeavingBut, Named
  <2>3. y.current \in Members(y)
    BY <1>3, <1>4, <2>1, <2>2
  <2>4. y.current \in y.defeated \cap Players => Acting(y) \subseteq {y.current}
    BY <1>2, <1>3, <1>4, <2>1 DEF LeavingBut, Named
  <2> QED BY <2>3, <2>4
<1>6. FairRoundBut(x, {who})
  BY DEF LeavingBut
<1>7. /\ y.owed \subseteq Living(y) /\ y.had \subseteq y.fighters
      /\ y.status = "setup" => y.owed = {} /\ y.had = {} /\ y.round = 0
      /\ y.skipped = {} /\ y.repeated = {}
  BY <1>2, <1>3, <1>6 DEF FairRoundBut, Living
<1>8. \A c \in x.fighters \ S : y.initiative[c] = x.initiative[c]
  BY <1>0, <1>2 DEF CombatType
<1>9. ASSUME NEW m \in Members(y)
      PROVE  /\ \A o \in y.owed \ {} : y.initiative[o] < y.initiative[m]
             /\ \A h \in y.had : y.initiative[h] >= y.initiative[m]
  <2>1. m \in Members(x) /\ m \in x.fighters \ S
    BY <1>4 DEF Members
  <2>2. \A o \in y.owed : o \in x.owed \ {who} /\ o \in x.fighters \ S
    BY <1>3, <1>6 DEF FairRoundBut, Living
  <2>3. \A h \in y.had : h \in x.had /\ h \in x.fighters \ S
    BY <1>3, <1>6 DEF FairRoundBut
  <2>4. \A o \in x.owed \ {who} : x.initiative[o] < x.initiative[m]
    BY <1>6, <2>1 DEF FairRoundBut
  <2>5. \A h \in x.had : x.initiative[h] >= x.initiative[m]
    BY <1>6, <2>1 DEF FairRoundBut
  <2> QED BY <1>8, <2>1, <2>2, <2>3, <2>4, <2>5
<1>10. FairRound(y)
  BY <1>7, <1>9 DEF FairRound, FairRoundBut
<1>11. SavesOnlyInPlay(y)
  BY <1>2, <1>3 DEF SavesOnlyInPlay, LeavingBut
<1>12. StartsWaitBut(y, Down(y))
  <2> SUFFICES ASSUME NEW c \in Combatants, c \notin Down(y), <<c, "start">> \in y.saves
               PROVE  \/ Members(y) = {}
                      \/ c \in Acting(y) /\ (c \in y.defeated \cap Players => Members(y) = {c})
    BY DEF StartsWaitBut
  <2>1. <<c, "start">> \in x.saves /\ c \notin S
    BY <1>2
  <2>2. c \notin Down(x) \cup {who}
    BY <1>2, <2>1 DEF Down
  <2>3. \/ Members(x) = {}
        \/ c \in Acting(x) /\ (c \in x.defeated \cap Players => Members(x) = {c})
    BY <2>1, <2>2 DEF LeavingBut, StartsWaitBut
  <2> QED BY <1>2, <1>4, <2>1, <2>3
<1> QED BY <1>1, <1>5, <1>10, <1>11, <1>12 DEF Ready, y

------------------------------------------------------------------------------
(* Every action but a return to life and the end of the combat settles a   *)
(* record that is ready.                                                   *)

Whole == Good \cap InLine \cap Sound

Written == \E S \in SUBSET Ready : Write(S)

(* Setting up and beginning.                                               *)
LEMMA SetupWrites ==
  ASSUME combat \in Whole, Setup
  PROVE  Written
<1>0. /\ combat \in CombatType /\ combat \in Sound /\ combat \in Good /\ combat \in InLine
      /\ FairRound(combat) /\ SavesOnlyInPlay(combat) /\ Named(combat)
  BY DEF Whole, Sound, Ready
<1>1. CASE StartEncounter
  <2>1. PICK S \in SUBSET Combatants : Write(Joined([Empty EXCEPT !.status = "setup"], S))
    BY <1>1 DEF StartEncounter
  <2> DEFINE x == [Empty EXCEPT !.status = "setup"]
  <2>2. /\ x \in CombatType /\ x.fighters = {} /\ x.status = "setup"
        /\ x.turn = [c \in Combatants |-> "idle"]
        /\ x.owed = {} /\ x.had = {} /\ x.skipped = {} /\ x.repeated = {} /\ x.round = 0
        /\ x.saves = {} /\ x.damage = {}
    BY EmptyType DEF Empty, CombatType, Status
  <2> HIDE DEF x
  <2>3. Members(x) = {}
    BY <2>2 DEF Members
  <2>4. x \in Sound /\ x \in Good
    BY <2>2, <2>3 DEF Sound, Ready, Named, FairRound, FairRoundBut, SavesOnlyInPlay,
                      StartsWaitBut, Good, GoodTurn
  <2>5. S \in SUBSET (Combatants \ x.fighters)
    BY <2>2
  <2>6. Joined(x, S) \in SUBSET Ready
    BY <2>4, <2>5, JoinedReady
  <2> QED BY <2>1, <2>6 DEF Written, x
<1>2. CASE AddCombatants
  <2>1. PICK S \in SUBSET (Combatants \ combat.fighters) : Write(Joined(combat, S))
    BY <1>2 DEF AddCombatants
  <2>2. Joined(combat, S) \in SUBSET Ready
    BY <1>0, JoinedReady
  <2> QED BY <2>1, <2>2 DEF Written
<1>3. CASE BeginCombat
  <2>1. /\ combat.status = "setup" /\ combat.owed = {} /\ combat.had = {} /\ combat.round = 0
        /\ combat.saves = {} /\ combat.skipped = {} /\ combat.repeated = {}
    BY <1>0, <1>3 DEF BeginCombat, FairRound, FairRoundBut, SavesOnlyInPlay
  <2> DEFINE top == Highest(combat, Living(combat))
             head == FirstOf(combat, combat.fighters)
  <2>2. top \in SUBSET combat.fighters /\ OneTotal(combat, top)
    BY <1>0, HighestGood DEF Living
  <2>3. Takes(combat, top, 1, {})
    <3>1. Living(combat) \in SUBSET Combatants
      BY <1>0 DEF Living, CombatType
    <3>2. \A i \in top, o \in Living(combat) \ top : combat.initiative[o] < combat.initiative[i]
      BY <1>0, <3>1, HighestAbove
    <3> HIDE DEF top
    <3> QED BY <2>1, <3>2 DEF Takes
  <2>4. top \cap (combat.defeated \cap Players) = {}
    BY DEF Highest, Living
  <2>5. ASSUME NEW y \in StartTurn(combat, top, 1)
        PROVE  y \in Ready
    <3> HIDE DEF top
    <3>1. /\ y \in CombatType /\ Named(y) /\ FairRoundBut(y, {}) /\ SavesOnlyInPlay(y)
          /\ StartsWaitBut(y, Down(y) \cup {})
      BY <1>0, <2>1, <2>2, <2>3, <2>4, StartTurnReady
    <3>2. StartsWaitBut(y, Down(y))
      BY <3>1 DEF StartsWaitBut
    <3> QED BY <3>1, <3>2 DEF Ready, FairRound
  <2>6. ASSUME NEW a \in head
        PROVE  head = {a}
    <3>1. ASSUME NEW b \in head, b # a
          PROVE  FALSE
      <4>1. Placed(combat)
        BY <1>0 DEF InLine, Lined, Placed
      <4>2. a \in combat.fighters /\ b \in combat.fighters
        BY DEF FirstOf
      <4>3. Precedes(combat, a, b) \/ Precedes(combat, b, a)
        BY <1>0, <3>1, <4>1, <4>2, PrecedesTotal
      <4> QED BY <4>2, <4>3 DEF FirstOf
    <3> QED BY <3>1
  <2>7. ASSUME Living(combat) = {}, NEW y \in StartTurn(combat, head, 1)
        PROVE  y \in Ready
    <3>1. head \in SUBSET combat.fighters
      BY DEF FirstOf
    <3>2. head = {} \/ \E a : head = {a}
      BY <2>6
    <3> HIDE DEF head
    <3>3. OneTotal(combat, head)
      BY <3>2 DEF OneTotal
    <3>4. Takes(combat, head, 1, {})
      BY <2>1, <2>7 DEF Takes
    <3>5. /\ y \in CombatType /\ Named(y) /\ FairRoundBut(y, {}) /\ SavesOnlyInPlay(y)
          /\ StartsWaitBut(y, Down(y) \cup {})
      <4>1. head \cap (combat.defeated \cap Players) = {} \/ \E a : head = {a}
        BY <3>2
      <4>2. \A c \in Combatants \ {} : <<c, "start">> \in combat.saves => c \in Down(combat)
        BY <2>1
      <4> QED BY <1>0, <2>7, <3>1, <3>3, <3>4, <4>1, <4>2, StartTurnReady
    <3>6. StartsWaitBut(y, Down(y))
      BY <3>5 DEF StartsWaitBut
    <3> QED BY <3>5, <3>6 DEF Ready, FairRound
  <2>8. CASE Living(combat) # {}
    <3>1. Write(UNION {StartTurn(combat, ids, 1) : ids \in {top}})
      BY <1>3, <2>8 DEF BeginCombat
    <3> HIDE DEF top
    <3>2. UNION {StartTurn(combat, ids, 1) : ids \in {top}} \in SUBSET Ready
      BY <2>5
    <3> QED BY <3>1, <3>2 DEF Written
  <2>9. CASE Living(combat) = {}
    <3>1. Write(UNION {StartTurn(combat, ids, 1) : ids \in {head}})
      BY <1>3, <2>9 DEF BeginCombat
    <3> HIDE DEF head
    <3>2. UNION {StartTurn(combat, ids, 1) : ids \in {head}} \in SUBSET Ready
      BY <2>7, <2>9
    <3> QED BY <3>1, <3>2 DEF Written
  <2> QED BY <2>8, <2>9
<1>4. ASSUME NEW c \in Combatants, NEW total \in 1..MaxInitiative, SubmitInitiative(c, total)
      PROVE  Written
  <2> DEFINE x == [combat EXCEPT !.initiative =
                     [d \in Combatants |-> IF d \in RollGroup(c) THEN total ELSE @[d]]]
             y == Ordered(x)
  <2>1. x \in CombatType
    BY <1>0, BoundsAssumption DEF CombatType
  <2>2. y \in CombatType
    BY <2>1, OrderedType
  <2>3. /\ combat.status = "setup" /\ combat.owed = {} /\ combat.had = {} /\ combat.round = 0
        /\ combat.saves = {} /\ combat.damage = {} /\ combat.skipped = {} /\ combat.repeated = {}
    BY <1>0, <1>4 DEF SubmitInitiative, FairRound, FairRoundBut, SavesOnlyInPlay
  <2>4. /\ y.status = "setup" /\ y.owed = {} /\ y.had = {} /\ y.round = 0
        /\ y.saves = {} /\ y.damage = {} /\ y.skipped = {} /\ y.repeated = {}
    BY <1>0, <2>3 DEF Ordered, CombatType
  <2>5. Write({y})
    BY <1>4 DEF SubmitInitiative
  <2> HIDE DEF y
  <2>6. Named(y) /\ SavesOnlyInPlay(y) /\ StartsWaitBut(y, Down(y))
    BY <2>4 DEF Named, SavesOnlyInPlay, StartsWaitBut
  <2>7. FairRound(y)
    BY <2>4 DEF FairRound, FairRoundBut
  <2>8. y \in Ready
    BY <2>2, <2>6, <2>7 DEF Ready
  <2> QED BY <2>5, <2>8 DEF Written
<1>5. ASSUME NEW T \in SUBSET Combatants, SetInitiativeOrder(T)
      PROVE  Written
  <2>1. PICK place \in [T -> {combat.place[c] : c \in T}] :
           Write({[combat EXCEPT !.place =
                [c \in Combatants |-> IF c \in T THEN place[c] ELSE @[c]]]})
    BY <1>5 DEF SetInitiativeOrder
  <2> DEFINE x == [combat EXCEPT !.place = [c \in Combatants |-> IF c \in T THEN place[c] ELSE @[c]]]
  <2>2. x \in CombatType
    BY <1>0 DEF CombatType
  <2>3. SameTurn(combat, x) /\ x.owed = combat.owed /\ Living(x) = Living(combat)
    BY <1>0 DEF SameTurn, CombatType, Living
  <2> HIDE DEF x
  <2>4. x \in Ready
    BY <1>0, <2>2, <2>3, SameTurnReady DEF FairRound, FairRoundBut
  <2> QED BY <2>1, <2>4 DEF Written, x
<1> QED BY <1>1, <1>2, <1>3, <1>4, <1>5 DEF Setup

(* Ending parts, restarting and saving throws.                             *)
LEMMA TurnsWrites ==
  ASSUME combat \in Whole, Turns
  PROVE  Written
<1>0. /\ combat \in CombatType /\ combat \in Sound /\ FairRound(combat)
  BY DEF Whole, Sound, Ready
<1>1. ASSUME NEW c \in Combatants, NEW drop \in BOOLEAN, EndTurn(c, drop)
      PROVE  Written
  <2>1. PICK saves \in SUBSET {<<c, "end">>} :
           Write(PassTheTurn(PartEnded(c, PendingOf(c), saves), c))
    BY <1>1 DEF EndTurn
  <2>2. /\ c \in combat.fighters /\ combat.status = "active" /\ combat.turn[c] = "acting"
        /\ combat.saves = {}
    BY <1>1 DEF EndTurn
  <2>3. PassTheTurn(PartEnded(c, PendingOf(c), saves), c) \in SUBSET Ready
    BY <1>0, <2>2, PassTheTurnReady
  <2> QED BY <2>1, <2>3 DEF Written
<1>2. CASE RestartTurns
  <2> DEFINE x == [combat EXCEPT !.had = {}, !.owed = Living(combat)]
             ids == Highest(combat, Living(combat))
  <2>1. Living(combat) \in SUBSET Combatants
    BY <1>0 DEF Living, CombatType
  <2>2. /\ x \in CombatType /\ x.fighters = combat.fighters /\ x.initiative = combat.initiative
        /\ x.defeated = combat.defeated /\ x.saves = combat.saves /\ x.round = combat.round
        /\ x.skipped = combat.skipped /\ x.repeated = combat.repeated
        /\ x.owed = Living(combat) /\ x.had = {}
    BY <1>0, <2>1 DEF CombatType
  <2>3. ids \in SUBSET combat.fighters /\ OneTotal(combat, ids)
    BY <1>0, HighestGood DEF Living
  <2>4. \A i \in ids, o \in Living(combat) \ ids : combat.initiative[o] < combat.initiative[i]
    BY <1>0, <2>1, HighestAbove
  <2>5. ids \subseteq Living(combat)
    BY DEF Highest
  <2>6. combat.round \in Nat /\ combat.saves = {} /\ Write(StartTurn(x, ids, combat.round))
    BY <1>0, <1>2 DEF RestartTurns, CombatType
  <2> HIDE DEF x, ids
  <2>7. Living(x) = Living(combat) /\ OneTotal(x, ids)
    BY <2>2, <2>3 DEF Living, OneTotal
  <2>8. ~(combat.round > x.round)
    BY <2>2, <2>6
  <2>9. Takes(x, ids, combat.round, {})
    BY <1>0, <2>2, <2>4, <2>7, <2>8 DEF Takes, FairRound, FairRoundBut
  <2>10. ids \cap (x.defeated \cap Players) = {}
    BY <2>2, <2>5 DEF Living
  <2>11. ASSUME NEW y \in StartTurn(x, ids, combat.round)
         PROVE  y \in Ready
    <3>1. /\ y \in CombatType /\ Named(y) /\ FairRoundBut(y, {}) /\ SavesOnlyInPlay(y)
          /\ StartsWaitBut(y, Down(y) \cup {})
      BY <2>2, <2>3, <2>6, <2>7, <2>9, <2>10, StartTurnReady
    <3>2. StartsWaitBut(y, Down(y))
      BY <3>1 DEF StartsWaitBut
    <3> QED BY <3>1, <3>2 DEF Ready, FairRound
  <2>12. StartTurn(x, ids, combat.round) \in SUBSET Ready
    BY <2>11
  <2> QED BY <2>6, <2>12 DEF Written
<1>3. ASSUME NEW w \in combat.saves, RollEffectSave(w)
      PROVE  Written
  <2> DEFINE x == [combat EXCEPT !.saves = @ \ {w}]
  <2>1. x \in CombatType
    BY <1>0 DEF CombatType
  <2>2. SameTurn(combat, x) /\ x.owed = combat.owed /\ Living(x) = Living(combat)
    BY <1>0 DEF SameTurn, CombatType, Living
  <2>3. Write({x})
    BY <1>3 DEF RollEffectSave
  <2> HIDE DEF x
  <2>4. x \in Ready
    BY <1>0, <2>1, <2>2, SameTurnReady DEF FairRound, FairRoundBut
  <2> QED BY <2>3, <2>4 DEF Written
<1> QED BY <1>1, <1>2, <1>3 DEF Turns

(* Hits and damage.                                                        *)
LEMMA HitsWrites ==
  ASSUME combat \in Whole, Hits
  PROVE  Written
<1>0. /\ combat \in CombatType /\ combat \in Sound /\ FairRound(combat)
  BY DEF Whole, Sound, Ready
<1>1. ASSUME NEW x \in CombatType, SameTurn(combat, x), x.owed = combat.owed,
             Living(x) = Living(combat), Write({x})
      PROVE  Written
  <2>1. x \in Ready
    BY <1>0, <1>1, SameTurnReady DEF FairRound, FairRoundBut
  <2> QED BY <1>1, <2>1 DEF Written
<1>2. ASSUME NEW a \in Combatants, NEW t \in Combatants, NEW asks \in BOOLEAN, RollAttack(a, t, asks)
      PROVE  Written
  <2> DEFINE x == [combat EXCEPT !.damage = @ \cup {<<a, t>>},
                                 !.asks = IF asks THEN @ \cup {<<a, t>>} ELSE @]
  <2>1. x \in CombatType
    BY <1>0, AttackType
  <2>2. SameTurn(combat, x) /\ x.owed = combat.owed /\ Living(x) = Living(combat)
    BY <1>0, <1>2 DEF SameTurn, CombatType, Living, RollAttack
  <2>3. Write({x})
    BY <1>2 DEF RollAttack
  <2> QED BY <1>1, <2>1, <2>2, <2>3
<1>3. ASSUME NEW d \in combat.asks, NEW miss \in BOOLEAN, AnswerReaction(d, miss)
      PROVE  Written
  <2> DEFINE x == [combat EXCEPT !.asks = @ \ {d}, !.damage = IF miss THEN @ \ {d} ELSE @]
  <2>1. x \in CombatType
    BY <1>0 DEF CombatType
  <2>2. SameTurn(combat, x) /\ x.owed = combat.owed /\ Living(x) = Living(combat)
    BY <1>0 DEF SameTurn, CombatType, Living
  <2>3. Write({x})
    BY <1>3 DEF AnswerReaction
  <2> QED BY <1>1, <2>1, <2>2, <2>3
<1>4. ASSUME NEW d \in combat.damage, NEW down \in BOOLEAN, LandDamage(d, down)
      PROVE  Written
  <2>0. PICK asked \in DamageAsks(d[2]) : Write({Landed(d, down, asked)})
    BY <1>4 DEF LandDamage
  <2> DEFINE S == IF down THEN {d[2]} ELSE {}
             x == Landed(d, down, asked)
  <2>1. S \subseteq NonPlayers
    BY <1>4 DEF LandDamage
  <2>2. combat.status = "active"
    BY <1>0, <1>4 DEF LandDamage, NotEnded, SavesOnlyInPlay, Sound, Ready
  <2>3. Write({x})
    BY <2>0
  <2>4. /\ x.status = combat.status /\ x.turn = combat.turn /\ x.fighters = combat.fighters
        /\ x.initiative = combat.initiative /\ x.current = combat.current /\ x.round = combat.round
        /\ x.had = combat.had /\ x.skipped = combat.skipped /\ x.repeated = combat.repeated
        /\ x.saves = combat.saves \cup asked /\ d[2] \in Combatants
        /\ x.defeated = combat.defeated \cup S /\ x.owed = combat.owed \ S /\ x \in CombatType
    BY <1>0, <2>0, LandedFields
  <2> HIDE DEF x, S
  <2>5. SameTurn(combat, x)
    <3>1. asked \subseteq Combatants \X {"damage"}
      BY <2>0, <2>4, DamageAsksOf
    <3> QED BY <2>1, <2>2, <2>4, <3>1, NoPlayerIsNot DEF SameTurn
  <2>6. x.owed \subseteq combat.owed /\ x.owed \subseteq Living(x)
    BY <1>0, <2>4 DEF Living, FairRound, FairRoundBut
  <2>7. x \in Ready
    BY <1>0, <2>4, <2>5, <2>6, SameTurnReady
  <2> QED BY <2>3, <2>7 DEF Written
<1>5. ASSUME NEW d \in combat.damage, DiscardPendingDamage(d)
      PROVE  Written
  <2> DEFINE x == [combat EXCEPT !.damage = @ \ {d}]
  <2>1. x \in CombatType
    BY <1>0 DEF CombatType
  <2>2. SameTurn(combat, x) /\ x.owed = combat.owed /\ Living(x) = Living(combat)
    BY <1>0 DEF SameTurn, CombatType, Living
  <2>3. Write({x})
    BY <1>5 DEF DiscardPendingDamage
  <2> QED BY <1>1, <2>1, <2>2, <2>3
<1> QED BY <1>2, <1>3, <1>4, <1>5 DEF Hits

(* Falling, dying and leaving; not a return to life, nor the end.          *)
LEMMA LeavingWrites ==
  ASSUME combat \in Whole
  PROVE  /\ \A c \in Combatants, down \in BOOLEAN : AdjustHitPoints(c, down) => Written
         /\ \A p \in Players : ConfirmDeath(p) => Written
         /\ \A c \in Combatants : RemoveCombatant(c) => Written
<1>0. /\ combat \in CombatType /\ combat \in Sound /\ FairRound(combat)
  BY DEF Whole, Sound, Ready
<1>1. ASSUME NEW c \in Combatants, NEW asked
      PROVE  LET x == EffectsEnd(Defeat(combat, {c}), asked)
             IN  /\ x \in CombatType
                 /\ x.status = combat.status /\ x.turn = combat.turn /\ x.fighters = combat.fighters
                 /\ x.initiative = combat.initiative /\ x.current = combat.current
                 /\ x.round = combat.round /\ x.had = combat.had
                 /\ x.skipped = combat.skipped /\ x.repeated = combat.repeated
                 /\ x.saves = combat.saves \ asked /\ x.damage = combat.damage
                 /\ x.defeated = combat.defeated \cup {c} /\ x.owed = combat.owed \ {c}
  <2> DEFINE x == EffectsEnd(Defeat(combat, {c}), asked)
  <2>1. x \in CombatType
    BY <1>0, FallOrder
  <2> QED BY <1>0, <2>1 DEF Defeat, EffectsEnd, CombatType
<1>2. ASSUME NEW c \in Combatants, NEW down \in BOOLEAN, AdjustHitPoints(c, down)
      PROVE  Written
  <2>1. CASE down
    <3>1. c \in NonPlayers /\ \E asked : Write({EffectsEnd(Defeat(combat, {c}), asked)})
      BY <1>2, <2>1 DEF AdjustHitPoints
    <3>2. PICK asked : Write({EffectsEnd(Defeat(combat, {c}), asked)})
      BY <3>1
    <3> DEFINE x == EffectsEnd(Defeat(combat, {c}), asked)
    <3>3. /\ x \in CombatType
          /\ x.status = combat.status /\ x.turn = combat.turn /\ x.fighters = combat.fighters
          /\ x.initiative = combat.initiative /\ x.current = combat.current
          /\ x.round = combat.round /\ x.had = combat.had
          /\ x.skipped = combat.skipped /\ x.repeated = combat.repeated
          /\ x.saves = combat.saves \ asked /\ x.damage = combat.damage
          /\ x.defeated = combat.defeated \cup {c} /\ x.owed = combat.owed \ {c}
      BY <1>1
    <3>4. Write({x})
      BY <3>2
    <3> HIDE DEF x
    <3>5. SameTurn(combat, x)
      BY <3>1, <3>3, NoPlayerIsNot DEF SameTurn
    <3>6. x.owed \subseteq combat.owed /\ x.owed \subseteq Living(x)
      BY <1>0, <3>3 DEF Living, FairRound, FairRoundBut
    <3>7. x \in Ready
      BY <1>0, <3>3, <3>5, <3>6, SameTurnReady
    <3> QED BY <3>4, <3>7 DEF Written
  <2>2. CASE ~down
    <3> DEFINE x == [combat EXCEPT !.defeated = @ \ {c}]
    <3>1. c \in NonPlayers /\ Write({x})
      BY <1>2, <2>2 DEF AdjustHitPoints
    <3>2. /\ x \in CombatType
          /\ x.status = combat.status /\ x.turn = combat.turn /\ x.fighters = combat.fighters
          /\ x.initiative = combat.initiative /\ x.current = combat.current
          /\ x.round = combat.round /\ x.had = combat.had
          /\ x.skipped = combat.skipped /\ x.repeated = combat.repeated
          /\ x.saves = combat.saves /\ x.damage = combat.damage
          /\ x.defeated = combat.defeated \ {c} /\ x.owed = combat.owed
      BY <1>0 DEF CombatType
    <3> HIDE DEF x
    <3>3. SameTurn(combat, x)
      BY <3>1, <3>2, NoPlayerIsNot DEF SameTurn
    <3>4. x.owed \subseteq combat.owed /\ x.owed \subseteq Living(x)
      BY <1>0, <3>2 DEF Living, FairRound, FairRoundBut
    <3>5. x \in Ready
      BY <1>0, <3>2, <3>3, <3>4, SameTurnReady
    <3> QED BY <3>1, <3>5 DEF Written
  <2> QED BY <2>1, <2>2
<1>3. ASSUME NEW p \in Players, ConfirmDeath(p)
      PROVE  Written
  <2>1. /\ p \in Combatants /\ p \in combat.fighters
    BY <1>3 DEF Combatants, ConfirmDeath, Living
  <2>2. PICK asked \in SUBSET combat.saves :
          /\ \A w \in combat.saves : w[1] = p => w \in asked
          /\ Write(LeaveTurn(EffectsEnd(Defeat(combat, {p}), asked), combat, p))
    BY <1>3 DEF ConfirmDeath
  <2> DEFINE x == EffectsEnd(Defeat(combat, {p}), asked)
  <2>3. /\ x \in CombatType
        /\ x.status = combat.status /\ x.turn = combat.turn /\ x.fighters = combat.fighters
        /\ x.initiative = combat.initiative /\ x.current = combat.current
        /\ x.round = combat.round /\ x.had = combat.had
        /\ x.skipped = combat.skipped /\ x.repeated = combat.repeated
        /\ x.saves = combat.saves \ asked /\ x.damage = combat.damage
        /\ x.defeated = combat.defeated \cup {p} /\ x.owed = combat.owed \ {p}
    BY <1>1, <2>1
  <2>4. Write(LeaveTurn(x, combat, p))
    BY <2>2
  <2> HIDE DEF x
  <2>5. Members(x) = Members(combat)
    BY <2>3 DEF Members
  <2>6. FairRound(x)
    BY <1>0, <2>3, <2>5 DEF FairRound, FairRoundBut, Living
  <2>7. ASSUME NEW y \in LeaveTurn(x, combat, p)
        PROVE  y \in Ready
    <3>1. LeavingBut(y, p)
      BY <1>0, <2>1, <2>3, <2>6, LeaveTurnReady
    <3>2. /\ y.owed \subseteq x.owed \cup Living(x) /\ y.saves \subseteq x.saves \cup MayOpen(x, NextGroup(combat, p, {p}))
      <4>1. CASE y.owed = x.owed /\ y.saves = x.saves
        BY <4>1
      <4>2. CASE y \in StartTurn(x, NextGroup(combat, p, {p}), NextRound(x, combat, p, {p}))
        <5> DEFINE ids == NextGroup(combat, p, {p})
                   r == NextRound(x, combat, p, {p})
        <5>1. ids \in SUBSET Combatants /\ r \in Nat
          BY <1>0, <2>3, NextGroupType, NextRoundType
        <5> HIDE DEF ids, r
        <5>2. Begun(x, ids, r, y)
          BY <2>3, <4>2, <5>1, StartedFields DEF ids, r
        <5> QED BY <5>2 DEF Begun, ids
      <4>3. \A c : /\ [x EXCEPT !.current = c].owed = x.owed
                   /\ [x EXCEPT !.current = c].saves = x.saves
        BY <2>3 DEF CombatType
      <4>4. LET z == [x EXCEPT !.turn = [c \in Combatants |-> "idle"], !.current = Nobody]
            IN  z.owed = x.owed /\ z.saves = x.saves
        BY <2>3 DEF CombatType
      <4> QED BY <4>1, <4>2, <4>3, <4>4 DEF LeaveTurn
    <3>3. p \notin y.owed /\ <<p, "start">> \notin y.saves
      <4>1. p \notin x.owed \cup Living(x)
        BY <2>3 DEF Living
      <4>2. <<p, "start">> \notin x.saves
        BY <2>2, <2>3
      <4>3. p \notin NextGroup(combat, p, {p})
        BY NextGroupLives
      <4> QED BY <3>2, <4>1, <4>2, <4>3 DEF MayOpen
    <3>4. FairRound(y)
      BY <3>1, <3>3 DEF LeavingBut, FairRound, FairRoundBut
    <3>5. StartsWaitBut(y, Down(y))
      BY <3>1, <3>3 DEF LeavingBut, StartsWaitBut
    <3> QED BY <3>1, <3>4, <3>5 DEF LeavingBut, Ready
  <2>8. LeaveTurn(x, combat, p) \in SUBSET Ready
    BY <2>7
  <2> QED BY <2>4, <2>8 DEF Written
<1>4. ASSUME NEW c \in Combatants, RemoveCombatant(c)
      PROVE  Written
  <2>1. c \in combat.fighters /\ ~(c \in Players /\ combat.status = "active")
    BY <1>4 DEF RemoveCombatant, MayLeave
  <2>2. Leavers(c) \in SUBSET Combatants /\ c \in Leavers(c)
    BY DEF Leavers, Combatants
  <2>3. combat.status = "active" => Leavers(c) = {c}
    BY <2>1, CombatantsAssumption DEF Leavers
  <2>4. ASSUME NEW asked, NEW x \in LeaveTurn(EffectsEnd(combat, asked), combat, c)
        PROVE  Without(x, Leavers(c)) \in Ready
    <3> DEFINE y == EffectsEnd(combat, asked)
    <3>1. /\ y \in CombatType /\ y.saves \subseteq combat.saves /\ y.damage = combat.damage
          /\ y.status = combat.status /\ y.round = combat.round /\ y.fighters = combat.fighters
          /\ y.initiative = combat.initiative /\ y.turn = combat.turn
          /\ y.defeated = combat.defeated /\ y.current = combat.current
          /\ y.owed = combat.owed /\ y.had = combat.had
          /\ y.skipped = combat.skipped /\ y.repeated = combat.repeated
      BY <1>0, EffectsEndFields
    <3>2. x \in LeaveTurn(y, combat, c)
      OBVIOUS
    <3> HIDE DEF y
    <3>3. Members(y) = Members(combat) /\ Living(y) = Living(combat)
      BY <3>1 DEF Members, Living
    <3>4. FairRound(y)
      BY <1>0, <3>1, <3>3 DEF FairRound, FairRoundBut
    <3>5. LeavingBut(x, c)
      BY <1>0, <2>1, <3>1, <3>2, <3>4, LeaveTurnReady
    <3>6. x.status = "active" => combat.status = "active"
      <4>1. combat.status # "active" => x = y
        BY <3>1, <3>2 DEF LeaveTurn
      <4> QED BY <3>1, <4>1
    <3> QED BY <2>2, <2>3, <3>5, <3>6, WithoutReady
  <2>5. \A asked : {Without(x, Leavers(c)) : x \in LeaveTurn(EffectsEnd(combat, asked), combat, c)} \in SUBSET Ready
    BY <2>4
  <2> QED BY <1>4, <2>5 DEF RemoveCombatant, Written
<1> QED BY <1>2, <1>3, <1>4

(* Who comes back to life was in no running turn but its own.              *)
LEMMA ReviveSound ==
  ASSUME combat \in Whole, NEW p \in Players, ReviveInCombat(p)
  PROVE  combat' \in Sound
<1>0. /\ combat \in CombatType /\ combat \in Sound /\ FairRound(combat) /\ Named(combat)
      /\ p \in Combatants
  BY DEF Whole, Sound, Ready, Combatants
<1>1. p \in combat.defeated
  BY DEF ReviveInCombat
<1>2. /\ combat' \in CombatType
      /\ combat'.turn = [combat.turn EXCEPT ![p] = "idle"]
      /\ combat'.defeated = combat.defeated \ {p}
      /\ combat'.status = combat.status /\ combat'.fighters = combat.fighters
      /\ combat'.initiative = combat.initiative /\ combat'.current = combat.current
      /\ combat'.round = combat.round /\ combat'.saves = combat.saves
      /\ combat'.damage = combat.damage
  BY <1>0 DEF ReviveInCombat, CombatType, TurnState
<1>3. /\ combat'.owed = combat.owed /\ combat'.had = combat.had
      /\ combat'.skipped = combat.skipped /\ combat'.repeated = combat.repeated
  BY <1>0 DEF ReviveInCombat, CombatType
<1> DEFINE y == combat'
<1> HIDE DEF y
<1>4. Members(y) = Members(combat) \ {p} /\ Acting(y) = Acting(combat) \ {p}
  BY <1>0, <1>2 DEF Members, Acting, CombatType, y
<1>5. Named(y)
  <2> SUFFICES ASSUME y.status = "active", Acting(y) # {}
               PROVE  /\ y.current \in Members(y)
                      /\ y.current \in y.defeated \cap Players => Acting(y) \subseteq {y.current}
    BY DEF Named
  <2>1. /\ combat.current \in Members(combat)
        /\ combat.current \in combat.defeated \cap Players => Acting(combat) \subseteq {combat.current}
    BY <1>0, <1>2, <1>4 DEF Named, y
  <2>2. combat.current # p
    BY <1>1, <1>4, <2>1
  <2> QED BY <1>2, <1>4, <2>1, <2>2 DEF y
<1>6. FairRound(y)
  BY <1>0, <1>2, <1>3, <1>4 DEF FairRound, FairRoundBut, Living, y
<1>7. SavesOnlyInPlay(y)
  BY <1>0, <1>2 DEF SavesOnlyInPlay, Sound, Ready, y
<1>8. StartsWaitBut(y, {})
  <2> SUFFICES ASSUME NEW c \in Combatants, <<c, "start">> \in y.saves
               PROVE  \/ Members(y) = {}
                      \/ c \in Acting(y) /\ (c \in y.defeated \cap Players => Members(y) = {c})
    BY DEF StartsWaitBut
  <2>1. \/ Members(combat) = {}
        \/ c \in Acting(combat) /\ (c \in combat.defeated \cap Players => Members(combat) = {c})
    BY <1>0, <1>2 DEF Sound, StartsWaitBut, y
  <2>2. CASE c = p
    BY <1>1, <1>4, <2>1, <2>2
  <2>3. CASE c # p
    BY <1>2, <1>4, <2>1, <2>3 DEF y
  <2> QED BY <2>2, <2>3
<1>9. StartsWaitBut(y, Down(y))
  BY <1>8 DEF StartsWaitBut
<1> QED BY <1>2, <1>5, <1>6, <1>7, <1>8, <1>9 DEF Sound, Ready, y

(* An ended combat waits for nothing.                                      *)
LEMMA EndSound ==
  ASSUME combat \in Whole, EndEncounter
  PROVE  combat' \in Sound
<1>0. combat \in CombatType /\ FairRound(combat)
  BY DEF Whole, Sound, Ready
<1>1. combat' \in CombatType
  BY <1>0 DEF EndEncounter, CombatType, Status
<1>2. /\ combat'.status = "ended" /\ combat'.saves = {} /\ combat'.turn = combat.turn
      /\ combat'.fighters = combat.fighters /\ combat'.defeated = combat.defeated
      /\ combat'.initiative = combat.initiative
      /\ combat'.owed = combat.owed /\ combat'.had = combat.had
      /\ combat'.skipped = combat.skipped /\ combat'.repeated = combat.repeated
  BY <1>0 DEF EndEncounter, CombatType
<1> DEFINE y == combat'
<1> HIDE DEF y
<1>3. FairRound(y)
  BY <1>0, <1>2 DEF FairRound, FairRoundBut, Living, Members, y
<1>4. Named(y) /\ SavesOnlyInPlay(y) /\ StartsWaitBut(y, {}) /\ StartsWaitBut(y, Down(y))
  BY <1>2 DEF Named, SavesOnlyInPlay, StartsWaitBut, y
<1> QED BY <1>1, <1>3, <1>4 DEF Sound, Ready, y

(* The strengthening is inductive.                                         *)
LEMMA NextWhole ==
  ASSUME combat \in Whole, [Next]_combat
  PROVE  combat' \in Whole
<1>1. combat' \in Good /\ combat' \in InLine
  BY NextGood, NextInLine DEF Whole
<1>2. CASE Written
  BY <1>1, <1>2, WriteSound DEF Written, Whole
<1>3. CASE UNCHANGED combat
  BY <1>3
<1>4. CASE Next
  BY <1>1, <1>2, <1>4, SetupWrites, TurnsWrites, HitsWrites, LeavingWrites, ReviveSound, EndSound
     DEF Next, Leaving, Whole
<1> QED BY <1>3, <1>4

(* A whole combat from the first state on.                                 *)
LEMMA AlwaysWhole == Spec => [](combat \in Whole)
<1>1. Init => combat \in Whole
  <2> SUFFICES ASSUME Init PROVE combat \in Whole
    OBVIOUS
  <2>1. /\ combat \in CombatType /\ combat.fighters = {} /\ combat.status = "none"
        /\ combat.turn = [c \in Combatants |-> "idle"]
        /\ combat.owed = {} /\ combat.had = {} /\ combat.skipped = {} /\ combat.repeated = {}
        /\ combat.saves = {} /\ combat.damage = {}
    BY EmptyType DEF Init, Empty
  <2>2. Members(combat) = {}
    BY <2>1 DEF Members
  <2>3. combat \in Sound
    BY <2>1, <2>2 DEF Sound, Ready, Named, FairRound, FairRoundBut, SavesOnlyInPlay, StartsWaitBut
  <2>4. combat \in Good /\ combat \in InLine
    BY <2>1 DEF Good, GoodTurn, InLine, Lined
  <2> QED BY <2>3, <2>4 DEF Whole
<1>2. combat \in Whole /\ [Next]_combat => (combat \in Whole)'
  BY NextWhole
<1> QED BY <1>1, <1>2, PTL DEF Spec

(* While somebody acts, the combatant a screen names as current is in the  *)
(* turn, whoever left it, died in it or came back to life.                 *)
THEOREM CurrentStaysInTurn == Spec => []CurrentIsInTurn
<1>1. combat \in Whole => CurrentIsInTurn
  BY DEF Whole, Sound, Ready, Named, CurrentIsInTurn
<1> QED BY <1>1, AlwaysWhole, PTL

(* No round is raised over somebody it still owed a turn.                  *)
THEOREM NobodyIsSkipped == Spec => []NobodySkipped
<1>1. combat \in Whole => NobodySkipped
  BY DEF Whole, Sound, Ready, FairRound, FairRoundBut, NobodySkipped
<1> QED BY <1>1, AlwaysWhole, PTL

(* Nobody's turn starts twice in one round.                                *)
THEOREM NobodyPlaysTwice == Spec => []NobodyTwice
<1>1. combat \in Whole => NobodyTwice
  BY DEF Whole, Sound, Ready, FairRound, FairRoundBut, NobodyTwice
<1> QED BY <1>1, AlwaysWhole, PTL

------------------------------------------------------------------------------
(* What a turn waits for.                                                  *)

(* A settled combat does not wait for nothing: where somebody can play and *)
(* nothing is open, somebody acts.                                         *)
LEMMA SettleMovesOn ==
  ASSUME NEW x \in CombatType, NEW y \in Settle(x)
  PROVE  ~HeldForNothing(y)
<1>1. CASE x.status # "active"
  BY <1>1 DEF Settle, HeldForNothing, Held
<1>2. CASE y = Closed(x) /\ ~(Held(Closed(x)) /\ Living(Closed(x)) # {})
  BY <1>2 DEF HeldForNothing
<1>3. CASE \E m : y \in StartTurn(Closed(x), NextGroup(Closed(x), m, {}), NextRound(Closed(x), Closed(x), m, {}))
  <2> DEFINE z == Closed(x)
  <2>1. z \in CombatType
    BY ClosedType
  <2> HIDE DEF z
  <2>2. PICK m : y \in StartTurn(z, NextGroup(z, m, {}), NextRound(z, z, m, {}))
    BY <1>3 DEF z
  <2> DEFINE ids == NextGroup(z, m, {})
             r == NextRound(z, z, m, {})
  <2>3. ids \in SUBSET z.fighters /\ r \in Nat /\ y \in StartTurn(z, ids, r)
    BY <2>1, <2>2, NextGroupGood, NextRoundType
  <2> HIDE DEF ids, r
  <2>4. Acting(y) = ids /\ y.current \in ids
    BY <2>1, <2>3, StartedMembers
  <2> QED BY <2>4 DEF HeldForNothing, Held
<1> QED BY <1>1, <1>2, <1>3 DEF Settle, ReleaseHeldTurn

(* A settled call leaves no turn that waits for nothing.                   *)
LEMMA WrittenMovesOn ==
  ASSUME Written
  PROVE  ~HeldForNothing(combat')
<1>1. PICK x \in Ready : combat' \in Settle(x)
  BY DEF Written, Write
<1> QED BY <1>1, SettleMovesOn DEF Ready

(* A turn waits only for what is open; a return to life alone may leave one*)
(* that waits for the next change.                                         *)
THEOREM TurnsMoveOn == Spec => NeverHeldForNothing
<1>1. combat \in Whole /\ [Next]_combat => [HeldForNothing(combat)' => Revival]_combat
  <2> SUFFICES ASSUME combat \in Whole, Next, HeldForNothing(combat')
               PROVE  Revival
    BY DEF HeldForNothing, Held, Acting, Members, Windows, Living
  <2>1. ~Written
    BY WrittenMovesOn
  <2>2. CASE EndEncounter
    <3>1. combat'.status = "ended"
      BY <2>2 DEF EndEncounter, Whole, Sound, Ready, CombatType
    <3> QED BY <3>1 DEF HeldForNothing, Held
  <2>3. ~Setup /\ ~Turns /\ ~Hits
    BY <2>1, SetupWrites, TurnsWrites, HitsWrites
  <2>4. CASE Leaving
    BY <2>1, <2>2, <2>4, LeavingWrites DEF Leaving, Revival
  <2> QED BY <2>3, <2>4 DEF Next
<1> QED BY <1>1, AlwaysWhole, PTL DEF Spec, NeverHeldForNothing

(* A turn of `was` that goes on in `now` with the windows it had.          *)
Unmoved(was, now) ==
    now.turn = was.turn /\ now.round = was.round /\ now.saves \subseteq was.saves /\ now.asks \subseteq was.asks

(* A turn that was waited out: nobody acted, and the only windows are the  *)
(* start-of-turn saves of the turn that starts and those new ones that the *)
(* damage of the change asks.                                              *)
WaitedOut(was, now) ==
    /\ Acting(was) = {} /\ Members(was) # {}
    /\ now.asks = {}
    /\ \A w \in now.saves : w[2] = "start" \/ (w[2] = "damage" /\ w \notin was.saves)

(* The settling moves the turn only when it was waited out, and nobody     *)
(* leaves or comes back by it.                                             *)
LEMMA SettleWaits ==
  ASSUME NEW x \in CombatType, NEW y \in Settle(x)
  PROVE  /\ Unmoved(x, y) \/ WaitedOut(x, y)
         /\ y.fighters = x.fighters /\ x.defeated \subseteq y.defeated
<1> DEFINE z == Closed(x)
<1>1. /\ z \in CombatType /\ z.turn = x.turn /\ z.round = x.round
      /\ z.saves \subseteq x.saves /\ z.asks \subseteq x.asks
      /\ z.fighters = x.fighters /\ z.defeated = x.defeated
      /\ z.saves = {w \in x.saves : w[1] \in x.fighters /\ ~(w[1] \in NonPlayers /\ w[1] \in x.defeated)}
  <2>1. z \in CombatType
    BY ClosedType
  <2> QED BY <2>1 DEF Closed, CombatType
<1> HIDE DEF z
<1>2. CASE y = x \/ y = z
  BY <1>1, <1>2 DEF Unmoved
<1>3. CASE /\ Held(z)
           /\ \E m : y \in StartTurn(z, NextGroup(z, m, {}), NextRound(z, z, m, {}))
  <2>1. PICK m : y \in StartTurn(z, NextGroup(z, m, {}), NextRound(z, z, m, {}))
    BY <1>3
  <2> DEFINE ids == NextGroup(z, m, {})
             r == NextRound(z, z, m, {})
  <2>2. ids \in SUBSET Combatants /\ r \in Nat /\ y \in StartTurn(z, ids, r) /\ ids \subseteq z.fighters
    BY <1>1, <2>1, NextGroupType, NextRoundType, NextGroupGood
  <2> HIDE DEF ids, r
  <2>3. Begun(z, ids, r, y)
    BY <1>1, <2>2, StartedFields
  <2>4. z.saves = {} /\ z.asks = {} /\ Acting(z) = {} /\ Members(z) # {}
    BY <1>3 DEF Held, Windows
  <2>5. Acting(x) = {} /\ Members(x) # {}
    BY <1>1, <2>4 DEF Acting, Members
  <2>6. y.asks = {} /\ y.saves \subseteq MayOpen(z, ids)
    BY <2>3, <2>4 DEF Begun
  <2>7. y.fighters = x.fighters /\ x.defeated \subseteq y.defeated
    BY <1>1, <2>3 DEF Begun
  <2>8. ASSUME NEW w \in y.saves
        PROVE  w[2] = "start" \/ (w[2] = "damage" /\ w \notin x.saves)
    <3>1. w \in MayOpen(z, ids)
      BY <2>6
    <3>2. CASE w \in ids \X {"start"}
      BY <3>2
    <3>3. CASE w \in (((Members(z) \cup ids) \cap NPCs) \ z.defeated) \X {"damage"}
      <4>1. w[2] = "damage" /\ w[1] \in z.fighters /\ w[1] \notin z.defeated
        BY <2>2, <3>3 DEF Members
      <4>2. w \notin x.saves
        BY <1>1, <2>4, <4>1
      <4> QED BY <4>1, <4>2
    <3> QED BY <3>1, <3>2, <3>3 DEF MayOpen
  <2> QED BY <2>5, <2>6, <2>7, <2>8 DEF WaitedOut
<1> QED BY <1>2, <1>3 DEF Settle, ReleaseHeldTurn, z

(* The step keeps what WindowsHoldTheTurn asks of it.                      *)
Waited ==
    TurnMoves /\ ~SomebodyLeaves =>
        /\ \A w \in combat'.saves : w[2] # "end"
        /\ \A w \in combat.saves \cap combat'.saves : w[2] = "damage" /\ Closes(w)
        /\ Acting(combat) # {} => combat.asks \cap combat'.asks = {}

(* A change outside the marks moves the turn only by its settling.         *)
LEMMA QuietWaits ==
  ASSUME combat \in Whole, combat' \in CombatType, NEW S, Write(S),
         \A x \in S : /\ x \in CombatType /\ x.turn = combat.turn /\ x.round = combat.round
                      /\ Members(x) = Members(combat) /\ Acting(x) = Acting(combat)
                      /\ \A w \in combat.saves \ x.saves : Closes(w)
  PROVE  Waited
<1>1. PICK x \in S : combat' \in Settle(x)
  BY DEF Write
<1>2. CASE Unmoved(x, combat')
  <2>1. ~TurnMoves
    BY <1>2 DEF Unmoved, TurnMoves
  <2> QED BY <2>1 DEF Waited
<1>3. CASE WaitedOut(x, combat')
  <2>1. /\ Acting(combat) = {} /\ Members(combat) # {}
        /\ \A w \in combat'.saves : w[2] = "start" \/ (w[2] = "damage" /\ w \notin x.saves)
    BY <1>3 DEF WaitedOut
  <2>2. \A c \in Combatants : <<c, "start">> \notin combat.saves
    BY <2>1 DEF Whole, Sound, StartsWaitBut
  <2>3. \A w \in combat'.saves : w[1] \in Combatants /\ w = <<w[1], w[2]>>
    BY DEF CombatType
  <2>4. ASSUME NEW w \in combat.saves \cap combat'.saves
        PROVE  w[2] = "damage" /\ Closes(w)
    <3>1. w[2] # "start"
      BY <2>2, <2>3
    <3>2. w[2] = "damage" /\ w \notin x.saves
      BY <2>1, <3>1
    <3> QED BY <3>2
  <2> QED BY <2>1, <2>4 DEF Waited
<1> QED BY <1>1, <1>2, <1>3, SettleWaits

(* Setting up moves no turn: it is before the first, or moves no mark.     *)
LEMMA SetupWaits ==
  ASSUME combat \in Whole, combat' \in CombatType, Setup
  PROVE  Waited
<1>0. combat \in CombatType /\ combat \in Good
  BY DEF Whole, Sound, Ready
<1>1. CASE combat.status # "active"
  BY <1>1 DEF Waited, TurnMoves
<1>2. CASE AddCombatants
  <2>1. PICK S \in SUBSET (Combatants \ combat.fighters) : Write(Joined(combat, S))
    BY <1>2 DEF AddCombatants
  <2>2. ASSUME NEW x \in Joined(combat, S)
        PROVE  /\ x \in CombatType /\ x.turn = combat.turn /\ x.round = combat.round
               /\ Members(x) = Members(combat) /\ Acting(x) = Acting(combat)
               /\ x.saves = combat.saves
    <3>1. x \in CombatType
      BY <1>0, JoinedType
    <3>2. PICK seat, total : x = Seated(combat, S, seat, total)
      BY DEF Joined
    <3>3. /\ x.turn = combat.turn /\ x.round = combat.round /\ x.fighters = combat.fighters \cup S
          /\ x.saves = combat.saves
      BY <1>0, <3>2 DEF Seated, Ordered, CombatType
    <3> QED BY <1>0, <3>1, <3>3 DEF Members, Acting, Good, GoodTurn
  <2> QED BY <2>1, <2>2, QuietWaits
<1>3. ASSUME NEW T \in SUBSET Combatants, SetInitiativeOrder(T)
      PROVE  Waited
  <2>1. PICK place \in [T -> {combat.place[c] : c \in T}] :
           Write({[combat EXCEPT !.place =
                [c \in Combatants |-> IF c \in T THEN place[c] ELSE @[c]]]})
    BY <1>3 DEF SetInitiativeOrder
  <2> DEFINE x == [combat EXCEPT !.place = [c \in Combatants |-> IF c \in T THEN place[c] ELSE @[c]]]
  <2>2. x \in CombatType
    BY <1>0 DEF CombatType
  <2>3. /\ x.turn = combat.turn /\ x.round = combat.round /\ x.fighters = combat.fighters
        /\ x.saves = combat.saves
    BY <1>0 DEF CombatType
  <2>4. Write({x})
    BY <2>1
  <2> HIDE DEF x
  <2>5. Members(x) = Members(combat) /\ Acting(x) = Acting(combat)
    BY <2>3 DEF Members, Acting
  <2> QED BY <2>2, <2>3, <2>4, <2>5, QuietWaits
<1> QED BY <1>1, <1>2, <1>3 DEF Setup, StartEncounter, BeginCombat, SubmitInitiative

(* A part ends only where no save is open and no hit waits but those it    *)
(* drops, so the turn that follows starts over none.                       *)
LEMMA TurnsWaits ==
  ASSUME combat \in Whole, combat' \in CombatType, Turns
  PROVE  Waited
<1>0. combat \in CombatType
  BY DEF Whole, Sound, Ready
<1>1. ASSUME NEW c \in Combatants, NEW drop \in BOOLEAN, EndTurn(c, drop)
      PROVE  Waited
  <2>1. PICK saves \in SUBSET {<<c, "end">>} :
           Write(PassTheTurn(PartEnded(c, PendingOf(c), saves), c))
    BY <1>1 DEF EndTurn
  <2>2. combat.saves = {} /\ combat.asks \subseteq PendingOf(c)
    BY <1>1 DEF EndTurn
  <2> DEFINE x == PartEnded(c, PendingOf(c), saves)
  <2>3. x \in CombatType
    BY <1>0, PartEndedType
  <2>4. /\ x.turn = [combat.turn EXCEPT ![c] = "ended"] /\ x.round = combat.round
        /\ x.saves = saves /\ x.asks = {}
    BY <1>0, <2>2 DEF PartEnded, CombatType
  <2> HIDE DEF x
  <2>5. PICK y \in PassTheTurn(x, c) : combat' \in Settle(y)
    BY <2>1 DEF Write, x
  <2>6. y \in CombatType
    BY <1>0, <2>3, <2>5, PassTheTurnOrder
  <2>7. y.asks = {} /\ (\/ y.turn = x.turn /\ y.round = x.round
                        \/ \A w \in y.saves : w[2] # "end")
    <3>1. CASE y = x
      BY <2>4, <3>1
    <3>2. CASE \E o : y = [x EXCEPT !.current = o]
      BY <2>3, <2>4, <3>2 DEF CombatType
    <3>3. CASE x.saves = {} /\ y \in StartTurn(x, NextGroup(x, c, {}), NextRound(x, x, c, {}))
      <4> DEFINE ids == NextGroup(x, c, {})
                 r == NextRound(x, x, c, {})
      <4>1. ids \in SUBSET Combatants /\ r \in Nat /\ y \in StartTurn(x, ids, r)
        BY <2>3, <3>3, NextGroupType, NextRoundType
      <4> HIDE DEF ids, r
      <4>2. Begun(x, ids, r, y)
        BY <2>3, <4>1, StartedFields
      <4> QED BY <2>4, <3>3, <4>2 DEF Begun, MayOpen
    <3> QED BY <2>5, <3>1, <3>2, <3>3 DEF PassTheTurn
  <2>8. CASE Unmoved(y, combat') /\ y.turn = x.turn /\ y.round = x.round
    <3>1. ~TurnMoves
      BY <1>0, <2>4, <2>8 DEF Unmoved, TurnMoves, CombatType
    <3> QED BY <3>1 DEF Waited
  <2>9. CASE Unmoved(y, combat') /\ \A w \in y.saves : w[2] # "end"
    BY <2>2, <2>7, <2>9 DEF Unmoved, Waited
  <2>10. CASE WaitedOut(y, combat')
    BY <2>2, <2>10 DEF WaitedOut, Waited
  <2> QED BY <2>5, <2>6, <2>7, <2>8, <2>9, <2>10, SettleWaits
<1>2. CASE RestartTurns
  <2> DEFINE x == [combat EXCEPT !.had = {}, !.owed = Living(combat)]
             ids == Highest(combat, Living(combat))
  <2>1. x \in CombatType /\ ids \in SUBSET Combatants /\ combat.round \in Nat
    BY <1>0 DEF CombatType, Living, Highest
  <2>2. x.saves = combat.saves /\ combat.saves = {} /\ Acting(combat) = {}
    BY <1>0, <1>2 DEF CombatType, RestartTurns
  <2>3. Write(StartTurn(x, ids, combat.round))
    BY <1>2 DEF RestartTurns
  <2> HIDE DEF x, ids
  <2>4. PICK y \in StartTurn(x, ids, combat.round) : combat' \in Settle(y)
    BY <2>3 DEF Write
  <2>5. y \in CombatType /\ Begun(x, ids, combat.round, y)
    BY <2>1, <2>4, StartTurnType, StartedFields
  <2>6. \A w \in y.saves : w[2] # "end"
    BY <2>2, <2>5 DEF Begun, MayOpen
  <2>7. \A w \in combat'.saves : w[2] # "end"
    BY <2>4, <2>5, <2>6, SettleWaits DEF Unmoved, WaitedOut
  <2> QED BY <2>2, <2>7 DEF Waited
<1>3. ASSUME NEW w \in combat.saves, RollEffectSave(w)
      PROVE  Waited
  <2> DEFINE x == [combat EXCEPT !.saves = @ \ {w}]
  <2>1. /\ x \in CombatType /\ x.turn = combat.turn /\ x.round = combat.round
        /\ x.fighters = combat.fighters /\ x.saves = combat.saves \ {w}
    BY <1>0 DEF CombatType
  <2>2. Write({x})
    BY <1>3 DEF RollEffectSave
  <2> HIDE DEF x
  <2>3. Members(x) = Members(combat) /\ Acting(x) = Acting(combat)
    BY <2>1 DEF Members, Acting
  <2>4. \A v \in combat.saves \ x.saves : Closes(v)
    BY <1>3, <2>1 DEF Closes
  <2> QED BY <2>1, <2>2, <2>3, <2>4, QuietWaits
<1> QED BY <1>1, <1>2, <1>3 DEF Turns

(* Hits and damage move no mark.                                           *)
LEMMA HitsWaits ==
  ASSUME combat \in Whole, combat' \in CombatType, Hits
  PROVE  Waited
<1>0. combat \in CombatType
  BY DEF Whole, Sound, Ready
<1>1. ASSUME NEW x \in CombatType, x.turn = combat.turn, x.round = combat.round,
             x.fighters = combat.fighters, combat.saves \subseteq x.saves, Write({x})
      PROVE  Waited
  <2>1. Members(x) = Members(combat) /\ Acting(x) = Acting(combat)
    BY <1>1 DEF Members, Acting
  <2> QED BY <1>1, <2>1, QuietWaits
<1>2. ASSUME NEW a \in Combatants, NEW t \in Combatants, NEW asks \in BOOLEAN, RollAttack(a, t, asks)
      PROVE  Waited
  <2> DEFINE x == [combat EXCEPT !.damage = @ \cup {<<a, t>>},
                                 !.asks = IF asks THEN @ \cup {<<a, t>>} ELSE @]
  <2>1. x \in CombatType
    BY <1>0, AttackType
  <2>2. /\ x.turn = combat.turn /\ x.round = combat.round /\ x.fighters = combat.fighters
        /\ x.saves = combat.saves
    BY <1>0 DEF CombatType
  <2>3. Write({x})
    BY <1>2 DEF RollAttack
  <2> HIDE DEF x
  <2> QED BY <1>1, <2>1, <2>2, <2>3
<1>3. ASSUME NEW d \in combat.asks, NEW miss \in BOOLEAN, AnswerReaction(d, miss)
      PROVE  Waited
  <2> DEFINE x == [combat EXCEPT !.asks = @ \ {d}, !.damage = IF miss THEN @ \ {d} ELSE @]
  <2>1. /\ x \in CombatType /\ x.turn = combat.turn /\ x.round = combat.round
        /\ x.fighters = combat.fighters /\ x.saves = combat.saves
    BY <1>0 DEF CombatType
  <2>2. Write({x})
    BY <1>3 DEF AnswerReaction
  <2> HIDE DEF x
  <2> QED BY <1>1, <2>1, <2>2
<1>4. ASSUME NEW d \in combat.damage, NEW down \in BOOLEAN, LandDamage(d, down)
      PROVE  Waited
  <2>1. PICK asked \in DamageAsks(d[2]) : Write({Landed(d, down, asked)})
    BY <1>4 DEF LandDamage
  <2> DEFINE x == Landed(d, down, asked)
  <2>2. /\ x \in CombatType /\ x.turn = combat.turn /\ x.round = combat.round
        /\ x.fighters = combat.fighters /\ x.saves = combat.saves \cup asked
    BY <1>0, <2>1, LandedFields
  <2>3. Write({x})
    BY <2>1
  <2> HIDE DEF x
  <2> QED BY <1>1, <2>2, <2>3
<1>5. ASSUME NEW d \in combat.damage, DiscardPendingDamage(d)
      PROVE  Waited
  <2> DEFINE x == [combat EXCEPT !.damage = @ \ {d}]
  <2>1. /\ x \in CombatType /\ x.turn = combat.turn /\ x.round = combat.round
        /\ x.fighters = combat.fighters /\ x.saves = combat.saves
    BY <1>0 DEF CombatType
  <2>2. Write({x})
    BY <1>5 DEF DiscardPendingDamage
  <2> HIDE DEF x
  <2> QED BY <1>1, <2>1, <2>2
<1> QED BY <1>2, <1>3, <1>4, <1>5 DEF Hits

(* Who falls moves no mark; a death and a removal are a member that leaves.*)
LEMMA LeavingWaits ==
  ASSUME combat \in Whole, combat' \in CombatType, Leaving
  PROVE  Waited
<1>0. combat \in CombatType
  BY DEF Whole, Sound, Ready
<1>1. ASSUME NEW c \in Combatants, NEW down \in BOOLEAN, AdjustHitPoints(c, down)
      PROVE  Waited
  <2>1. PICK x : /\ Write({x})
                 /\ \/ down /\ \E asked : x = EffectsEnd(Defeat(combat, {c}), asked)
                    \/ x = [combat EXCEPT !.defeated = @ \ {c}]
    BY <1>1 DEF AdjustHitPoints
  <2>2. /\ x \in CombatType /\ x.turn = combat.turn /\ x.round = combat.round
        /\ x.fighters = combat.fighters /\ (~down => x.saves = combat.saves)
    <3>1. CASE x = [combat EXCEPT !.defeated = @ \ {c}]
      BY <1>0, <3>1 DEF CombatType
    <3>2. ASSUME NEW asked, down, x = EffectsEnd(Defeat(combat, {c}), asked)
          PROVE  x \in CombatType /\ x.turn = combat.turn /\ x.round = combat.round
                 /\ x.fighters = combat.fighters
      <4>1. x \in CombatType
        BY <1>0, <3>2, FallOrder
      <4> QED BY <1>0, <3>2, <4>1 DEF Defeat, EffectsEnd, CombatType
    <3> QED BY <2>1, <3>1, <3>2
  <2>3. Members(x) = Members(combat) /\ Acting(x) = Acting(combat)
    BY <2>2 DEF Members, Acting
  <2>4. \A w \in combat.saves \ x.saves : Closes(w)
    <3>1. CASE down = TRUE
      BY <1>1, <3>1 DEF Closes
    <3>2. CASE down = FALSE
      BY <2>2, <3>2
    <3> QED BY <3>1, <3>2
  <2> QED BY <2>1, <2>2, <2>3, <2>4, QuietWaits
<1>2. ASSUME NEW p \in Players, ConfirmDeath(p)
      PROVE  Waited
  <2>1. PICK asked : Write(LeaveTurn(EffectsEnd(Defeat(combat, {p}), asked), combat, p))
    BY <1>2 DEF ConfirmDeath
  <2> DEFINE x == EffectsEnd(Defeat(combat, {p}), asked)
  <2>2. p \in Combatants /\ p \notin combat.defeated
    BY <1>2 DEF Combatants, ConfirmDeath, Living
  <2>3. x \in CombatType
    BY <1>0, <2>2, FallOrder
  <2>4. p \in x.defeated
    BY <1>0 DEF Defeat, EffectsEnd, CombatType
  <2> HIDE DEF x
  <2>5. PICK y \in LeaveTurn(x, combat, p) : combat' \in Settle(y)
    BY <2>1 DEF Write, x
  <2>6. y \in CombatType
    BY <1>0, <2>2, <2>3, <2>5, LeaveTurnType
  <2>7. p \in y.defeated
    <3>1. \A c : [x EXCEPT !.current = c].defeated = x.defeated
      BY <2>3 DEF CombatType
    <3>2. [x EXCEPT !.turn = [c \in Combatants |-> "idle"], !.current = Nobody].defeated = x.defeated
      BY <2>3 DEF CombatType
    <3>3. CASE y \in StartTurn(x, NextGroup(combat, p, {p}), NextRound(x, combat, p, {p}))
      <4> DEFINE ids == NextGroup(combat, p, {p})
                 r == NextRound(x, combat, p, {p})
      <4>1. ids \in SUBSET Combatants /\ r \in Nat /\ y \in StartTurn(x, ids, r)
        BY <1>0, <2>3, <3>3, NextGroupType, NextRoundType
      <4> HIDE DEF ids, r
      <4>2. Begun(x, ids, r, y)
        BY <2>3, <4>1, StartedFields
      <4> QED BY <2>4, <4>2 DEF Begun
    <3> QED BY <2>4, <2>5, <3>1, <3>2, <3>3 DEF LeaveTurn
  <2>8. p \in combat'.defeated
    BY <2>5, <2>6, <2>7, SettleWaits
  <2>9. SomebodyLeaves
    BY <2>2, <2>8 DEF SomebodyLeaves
  <2> QED BY <2>9 DEF Waited
<1>3. ASSUME NEW p \in Players, ReviveInCombat(p)
      PROVE  Waited
  <2>1. p \in combat.defeated /\ p \notin combat'.defeated
    BY <1>0, <1>3 DEF ReviveInCombat, CombatType
  <2>2. SomebodyLeaves
    BY <2>1 DEF SomebodyLeaves
  <2> QED BY <2>2 DEF Waited
<1>4. ASSUME NEW c \in Combatants, RemoveCombatant(c)
      PROVE  Waited
  <2>1. PICK asked : \E x \in LeaveTurn(EffectsEnd(combat, asked), combat, c) :
           combat' \in Settle(Without(x, Leavers(c)))
    BY <1>4 DEF RemoveCombatant, Write
  <2>0. PICK x \in LeaveTurn(EffectsEnd(combat, asked), combat, c) :
           combat' \in Settle(Without(x, Leavers(c)))
    BY <2>1
  <2>2. x \in CombatType /\ Leavers(c) \in SUBSET Combatants /\ c \in Leavers(c)
    <3>1. EffectsEnd(combat, asked) \in CombatType
      BY <1>0, EffectsEndType
    <3> QED BY <1>0, <2>0, <3>1, LeaveTurnType DEF Leavers, Combatants
  <2>3. Without(x, Leavers(c)) \in CombatType
    BY <2>2, WithoutType
  <2>4. c \notin Without(x, Leavers(c)).fighters
    BY <2>2 DEF Without, Ordered, CombatType
  <2>5. c \notin combat'.fighters
    BY <2>0, <2>3, <2>4, SettleWaits
  <2>6. c \in combat.fighters
    BY <1>4 DEF RemoveCombatant
  <2>7. SomebodyLeaves
    BY <2>5, <2>6 DEF SomebodyLeaves
  <2> QED BY <2>7 DEF Waited
<1>5. CASE EndEncounter
  <2>1. combat'.turn = combat.turn /\ combat'.round = combat.round
    BY <1>0, <1>5 DEF EndEncounter, CombatType
  <2> QED BY <2>1 DEF TurnMoves, Waited
<1> QED BY <1>1, <1>2, <1>3, <1>4, <1>5 DEF Leaving

(* Unless a member leaves or dies, no turn starts over a saving throw that *)
(* was open, over the end-of-turn save of the part that ended, nor, while  *)
(* somebody acts, over a hit that waits for its reaction; the saves that   *)
(* the damage of the very change asks are all that may be open with those  *)
(* of the start, even one the same change closed first.                    *)
THEOREM WindowsHold == Spec => WindowsHoldTheTurn
<1>1. combat \in Whole /\ [Next]_combat => [Waited]_combat
  <2> SUFFICES ASSUME combat \in Whole, Next
               PROVE  Waited
    OBVIOUS
  <2>1. combat' \in CombatType
    BY NextWhole DEF Whole, Good
  <2> QED BY <2>1, SetupWaits, TurnsWaits, HitsWaits, LeavingWaits DEF Next
<1>2. [Waited]_combat =>
        [TurnMoves /\ ~SomebodyLeaves =>
          /\ \A w \in combat'.saves : w[2] # "end"
          /\ \A w \in combat.saves \cap combat'.saves : w[2] = "damage" /\ Closes(w)
          /\ Acting(combat) # {} => combat.asks \cap combat'.asks = {}]_combat
  BY DEF Waited
<1> QED BY <1>1, <1>2, AlwaysWhole, PTL DEF Spec, WindowsHoldTheTurn
=============================================================================
