----------------------------- MODULE CombatTurns -----------------------------
(***************************************************************************)
(* The turn of a combat (backend/internal/play): the order, the joint      *)
(* turns of the combatants with one initiative total, the parts that end   *)
(* one by one, the saving throws that hold the turn, and who takes it next.*)
(*                                                                         *)
(* Every operation is one transaction over the locked session, so one      *)
(* action of the model.  The code threads a combatTx through a call, then  *)
(* settles it (settleChange); the model does the same: `combat` is the     *)
(* record a combatTx sees, an operator takes a record to the SET of records*)
(* the call may leave (the damage and the saves a turn brings are not      *)
(* chosen here), and an action ends in Settle, as write does.              *)
(***************************************************************************)
EXTENDS Integers, FiniteSets

CONSTANTS
    Players,        \* combatants of players' characters
    NPCs,           \* combatants of the master's NPCs and monsters
    Creatures,      \* the creatures of one summoning, with one initiative
    Owner,          \* the player whose character summoned them
    Bonus,          \* the initiative bonus of each combatant
    MaxInitiative,  \* initiative totals are 1..MaxInitiative (0: not rolled)
    MaxRound,       \* bound: the rounds a behaviour may reach
    MaxSaves,       \* bound: saving throws open at once
    MaxStruck,      \* bound: non-players a turn that starts may bring down
    MaxDamage,      \* bound: damages still to roll or to apply at once
    Nobody          \* the NULL of current_combatant_id

Combatants == Players \cup NPCs \cup Creatures

ASSUME CombatantsAssumption ==
    /\ IsFiniteSet(Players) /\ IsFiniteSet(NPCs) /\ IsFiniteSet(Creatures)
    /\ Players \cap NPCs = {} /\ Players \cap Creatures = {} /\ NPCs \cap Creatures = {}
    /\ Nobody \notin Combatants
    /\ Owner \in Players
    /\ Bonus \in [Combatants -> Int]
    /\ \A c, d \in Creatures : Bonus[c] = Bonus[d]

ASSUME BoundsAssumption ==
    /\ MaxInitiative \in Nat \ {0} /\ MaxRound \in Nat \ {0}
    /\ MaxSaves \in Nat /\ MaxStruck \in Nat /\ MaxDamage \in Nat

VARIABLE combat   \* the encounter, its combatants, its open windows and damage

Status == {"none", "setup", "active", "ended"}
TurnState == {"idle", "acting", "ended"}

(* What an effect asks its save for: the start or the end of the turn of   *)
(* who is under it, or damage that one took (phase "end" with OnDamage).   *)
Phases == {"start", "end", "damage"}

(* `place` is order_index; `defeated` also holds the dead; `saves` are the *)
(* open EFFECT_SAVE windows, <<who rolls, phase>>; a damage is <<attacker, target>>*)
(* and `asks` are the hits among them that wait for the target's reaction. *)
(* The last four fields are history: who the round still owes a turn, who  *)
(* had one, who a round was raised over and who had two in one round.      *)
CombatType ==
    [status : Status, round : Nat, fighters : SUBSET Combatants,
     initiative : [Combatants -> 0..MaxInitiative], place : [Combatants -> Nat],
     turn : [Combatants -> TurnState], defeated : SUBSET Combatants,
     current : Combatants \cup {Nobody}, saves : SUBSET (Combatants \X Phases),
     damage : SUBSET (Combatants \X Combatants),
     asks : SUBSET (Combatants \X Combatants),
     owed : SUBSET Combatants, had : SUBSET Combatants,
     skipped : SUBSET Combatants, repeated : SUBSET Combatants]

Empty ==
    [status |-> "none", round |-> 0, fighters |-> {},
     initiative |-> [c \in Combatants |-> 0], place |-> [c \in Combatants |-> 0],
     turn |-> [c \in Combatants |-> "idle"], defeated |-> {}, current |-> Nobody,
     saves |-> {}, damage |-> {}, asks |-> {},
     owed |-> {}, had |-> {}, skipped |-> {}, repeated |-> {}]

------------------------------------------------------------------------------
(* The order (combat_rules.go). *)

(* a comes before b: the higher total, then the higher bonus, then the place*)
(* it holds; who has no initiative comes last.                             *)
Precedes(x, a, b) ==
    LET ia == x.initiative[a]
        ib == x.initiative[b]
    IN  \/ ia > ib
        \/ ia = ib /\ ia > 0 /\ Bonus[a] > Bonus[b]
        \/ ia = ib /\ (ia = 0 \/ Bonus[a] = Bonus[b]) /\ x.place[a] < x.place[b]

SameTie(x, a, b) ==
    x.initiative[a] > 0 /\ x.initiative[a] = x.initiative[b] /\ Bonus[a] = Bonus[b]

(* saveOrder(orderCombatants): every fighter takes the place it has now.   *)
Ordered(x) ==
    [x EXCEPT !.place = [c \in Combatants |->
        IF c \in x.fighters
        THEN Cardinality({o \in x.fighters : Precedes(x, o, c)}) ELSE 0]]

(* The first of S in the order, as a set: of one member, or none for {}.   *)
FirstOf(x, S) == {c \in S : \A o \in S : ~Precedes(x, o, c)}

------------------------------------------------------------------------------
(* Who plays next (combat_turn.go).  A group is the fighters with one total*)
(* (the order keeps them side by side), so the group after another is the  *)
(* highest total below its own.                                            *)

NonPlayers == NPCs \cup Creatures

Living(x) == x.fighters \ x.defeated
Members(x) == {c \in x.fighters : x.turn[c] # "idle"}
Acting(x) == {c \in x.fighters : x.turn[c] = "acting"}
Windows(x) == x.saves \cup x.asks

Highest(x, S) == {c \in S : \A o \in S : x.initiative[o] <= x.initiative[c]}

(* The ones after the group of `from` that can play, `leaver` aside.       *)
Below(x, from, leaver) ==
    {c \in Living(x) \ leaver : x.initiative[c] < x.initiative[from]}

(* After the last group the turns wrap to the top of the order.            *)
NextGroup(x, from, leaver) ==
    IF Below(x, from, leaver) # {} THEN Highest(x, Below(x, from, leaver))
                                   ELSE Highest(x, Living(x) \ leaver)

(* Mutant: the wrap to the top raises no round. *)
SameRound(x, seen, from, leaver) == x.round

NextRound(x, seen, from, leaver) ==
    IF Below(seen, from, leaver) # {} THEN x.round ELSE x.round + 1

(* Non-players that go to 0 hit points are defeated (the flag, not the     *)
(* turn_state), and the round owes them nothing.                           *)
Defeat(x, S) == [x EXCEPT !.defeated = @ \cup S, !.owed = @ \ S]

(* What a turn that starts does to the history fields: it may be the turn  *)
(* of a new round, or one more of the same round.                          *)
Recorded(x, ids, r) ==
    IF r > x.round
    THEN [x EXCEPT !.skipped = @ \cup (x.owed \ ids),
                   !.owed = Living(x) \ ids, !.had = ids]
    ELSE [x EXCEPT !.repeated = @ \cup (x.had \cap ids),
                   !.owed = @ \ ids, !.had = @ \cup ids]

(* Mutant: the marks of the turn that ended stay. *)
StartedOverOldMarks(x, ids, r, struck, asked, first) ==
    [Defeat(Recorded(x, ids, r), struck) EXCEPT
        !.status = "active", !.round = r,
        !.turn = [c \in Combatants |-> IF c \in ids THEN "acting" ELSE x.turn[c]],
        !.saves = @ \cup asked, !.current = first]

(* startTurn: the marks of the old turn go, every one of ids acts, the     *)
(* effects that land damage at the end of the old turn and at the start of *)
(* this one may bring a non-player down (`struck`), the saves open that    *)
(* those damages and the start of the turn ask (`asked`), and the stored   *)
(* current is the first of ids.                                            *)
Started(x, ids, r, struck, asked, first) ==
    [Defeat(Recorded(x, ids, r), struck) EXCEPT
        !.status = "active", !.round = r,
        !.turn = [c \in Combatants |-> IF c \in ids THEN "acting" ELSE "idle"],
        !.saves = @ \cup asked, !.current = first]

MayFall(x, ids) ==
    {S \in SUBSET ((Members(x) \cup ids) \cap NonPlayers) : Cardinality(S) <= MaxStruck}

(* Those damages land at once on an NPC only (a player's waits for the     *)
(* master, who applies it later; a creature owes no save for damage).      *)
MayAsk(x, ids) ==
    LET starting == ids \ (x.defeated \cap NonPlayers)
        hurt == ((Members(x) \cup ids) \cap NPCs) \ x.defeated
    IN  {S \in SUBSET ((starting \X {"start"}) \cup (hurt \X {"damage"})) :
            Cardinality(x.saves \cup S) <= MaxSaves \/ S = {}}

StartTurn(x, ids, r) ==
    {Started(x, ids, r, struck, asked, first) :
        struck \in MayFall(x, ids), asked \in MayAsk(x, ids), first \in FirstOf(x, ids)}

(* leaveTurn: `seen` is the list of combatants as they were read before the*)
(* change, in which `who` still stands.                                    *)
OthersActing(seen, who) == (Acting(seen) \ seen.defeated) \ {who}

(* Mutants: the current stays on who left; the last to act leaves and the  *)
(* turns go on from the top, as after the last group.                      *)
LeaveTurnUnmoved(x, seen, who) ==
    IF x.status # "active" \/ seen.turn[who] = "idle" \/ OthersActing(seen, who) # {} THEN {x}
    ELSE IF Living(seen) \ {who} = {}
         THEN {[x EXCEPT !.turn = [c \in Combatants |-> "idle"], !.current = Nobody]}
    ELSE StartTurn(x, NextGroup(seen, who, {who}), NextRound(x, seen, who, {who}))

LeaveTurnToTheTop(x, seen, who) ==
    IF x.status # "active" \/ seen.turn[who] = "idle" THEN {x}
    ELSE IF OthersActing(seen, who) # {}
         THEN {[x EXCEPT !.current = c] : c \in FirstOf(seen, OthersActing(seen, who))}
    ELSE IF Living(seen) \ {who} = {}
         THEN {[x EXCEPT !.turn = [c \in Combatants |-> "idle"], !.current = Nobody]}
    ELSE StartTurn(x, Highest(seen, Living(seen) \ {who}), x.round + 1)

LeaveTurn(x, seen, who) ==
    IF x.status # "active" \/ seen.turn[who] = "idle" THEN {x}
    ELSE IF OthersActing(seen, who) # {}
         THEN {[x EXCEPT !.current = c] : c \in FirstOf(seen, OthersActing(seen, who))}
    ELSE IF Living(seen) \ {who} = {}
         THEN {[x EXCEPT !.turn = [c \in Combatants |-> "idle"], !.current = Nobody]}
    ELSE StartTurn(x, NextGroup(seen, who, {who}), NextRound(x, seen, who, {who}))

------------------------------------------------------------------------------
(* The settling of every change (combat_reaction_window.go).               *)

(* Mutant: a hit goes on waiting for a target that is gone. *)
ClosedByDamageOnly(x) ==
    [x EXCEPT !.saves = {w \in @ : w[1] \in x.fighters /\ ~(w[1] \in NonPlayers /\ w[1] \in x.defeated)},
              !.asks = {d \in @ : d \in x.damage}]

(* settleOnce: the saves of the non-players that are down and the hits on  *)
(* who cannot react any more close.                                        *)
Closed(x) ==
    [x EXCEPT !.saves = {w \in @ : w[1] \in x.fighters /\ ~(w[1] \in NonPlayers /\ w[1] \in x.defeated)},
              !.asks = {d \in @ : d \in x.damage /\ d[2] \in Living(x)}]

(* releaseHeldTurn: nobody acts (a defeated member that acts still counts),*)
(* some part ended and no window is open.                                  *)
Held(x) ==
    /\ x.status = "active"
    /\ Acting(x) = {} /\ Members(x) # {}
    /\ Windows(x) = {}

ReleaseHeldTurn(x) ==
    IF Held(x) /\ Living(x) # {}
    THEN UNION {StartTurn(x, NextGroup(x, m, {}), NextRound(x, x, m, {}))
                   : m \in FirstOf(x, Members(x))}
    ELSE {x}

(* Mutant: nothing releases the turn that waited. *)
SettleWithoutRelease(x) == {IF x.status = "active" THEN Closed(x) ELSE x}

Settle(x) == IF x.status = "active" THEN ReleaseHeldTurn(Closed(x)) ELSE {x}

(* A call that leaves any of the records of S, settled.                    *)
Write(S) == \E x \in S : combat' \in Settle(x)

NotEnded == combat.status \in {"setup", "active"}
MayLandHit == Windows(combat) = {}   \* reactionGate holds everybody

------------------------------------------------------------------------------
(* Before the combat begins (combat_start.go, combat_join.go,              *)
(* combat_setup.go).                                                       *)

(* addParticipants: S joins in some order of the request, each NPC rolls   *)
(* its own total at once (RN-19), and everybody takes its place.           *)
Seated(x, S, seat, total) ==
    Ordered([x EXCEPT !.fighters = @ \cup S,
        !.place = [c \in Combatants |-> IF c \in S THEN Cardinality(x.fighters) + seat[c] ELSE @[c]],
        !.initiative = [c \in Combatants |-> IF c \in S \cap NPCs THEN total[c] ELSE @[c]]])

Seats(S) == {f \in [S -> 1..Cardinality(S)] : \A a, b \in S : f[a] = f[b] => a = b}

Joined(x, S) ==
    {Seated(x, S, seat, total) : seat \in Seats(S), total \in [S \cap NPCs -> 1..MaxInitiative]}

(* A player's character brings its creatures along (joinOwnCreatures).     *)
MayBring(S) == S \cap Creatures # {} => Owner \in S

(* StartEncounter, in a session with no open combat.                       *)
StartEncounter ==
    /\ combat.status \in {"none", "ended"}
    /\ \E S \in SUBSET Combatants :
        /\ S # {} /\ MayBring(S)
        /\ Write(Joined([Empty EXCEPT !.status = "setup"], S))

(* AddCombatants: a player only before the combat begins, and once.        *)
AddCombatants ==
    /\ NotEnded
    /\ \E S \in SUBSET (Combatants \ combat.fighters) :
        /\ S # {} /\ MayBring(S)
        /\ S \cap Players # {} => combat.status = "setup"
        /\ Write(Joined(combat, S))

(* Mutant: a creature rolls for itself. *)
RollAlone(c) == {c}

(* Who takes the roll: the creatures of a casting roll as one.             *)
RollGroup(c) == IF c \in Creatures THEN Creatures \cap combat.fighters ELSE {c}

(* Mutants: the order is not made again; the bonus is counted twice. *)
SubmitInPlace(c, total) ==
    /\ combat.status = "setup" /\ c \in combat.fighters
    /\ Write({[combat EXCEPT !.initiative =
            [d \in Combatants |-> IF d \in RollGroup(c) THEN total ELSE @[d]]]})

SubmitBonusTwice(c, total) ==
    /\ combat.status = "setup" /\ c \in combat.fighters
    /\ Write({Ordered([combat EXCEPT !.initiative =
            [d \in Combatants |-> IF d \in RollGroup(c) THEN total + Bonus[d] ELSE @[d]]])})

(* SubmitInitiative: only in setup; a player once, the master any time.    *)
SubmitInitiative(c, total) ==
    /\ combat.status = "setup" /\ c \in combat.fighters
    /\ Write({Ordered([combat EXCEPT !.initiative =
            [d \in Combatants |-> IF d \in RollGroup(c) THEN total ELSE @[d]]])})

(* SetInitiativeOrder: the tied ones T share their places out anew.        *)
SetInitiativeOrder(T) ==
    /\ NotEnded
    /\ Cardinality(T) >= 2 /\ T \subseteq combat.fighters
    /\ \A a, b \in T : SameTie(combat, a, b)
    /\ \E place \in [T -> {combat.place[c] : c \in T}] :
        /\ \A a, b \in T : place[a] = place[b] => a = b
        /\ Write({[combat EXCEPT !.place =
                [c \in Combatants |-> IF c \in T THEN place[c] ELSE @[c]]]})

(* BeginCombat: everybody has a total, and the first group that can play   *)
(* starts (the first of the order when everybody is defeated).             *)
BeginCombat ==
    /\ combat.status = "setup" /\ combat.fighters # {}
    /\ \A c \in combat.fighters : combat.initiative[c] > 0
    /\ Write(UNION {StartTurn(combat, ids, 1) : ids \in
            IF Living(combat) # {} THEN {Highest(combat, Living(combat))}
            ELSE {FirstOf(combat, combat.fighters)}})

------------------------------------------------------------------------------
(* The turn that runs (combat_endturn.go).                                 *)

(* The damages c dealt that are still to roll or to apply.                 *)
PendingOf(c) == {d \in combat.damage : d[1] = c}

(* closeTurnPart: c's part ends, the damages dropped go and, when it has an*)
(* effect that asks one, its end-of-turn save opens.                       *)
PartEnded(c, dropped, saves) ==
    [combat EXCEPT !.turn[c] = "ended", !.damage = @ \ dropped,
                   !.asks = @ \ dropped, !.saves = @ \cup saves]

(* Mutant: the save that opened at the end of the part holds nothing. *)
PassOverSaves(x, c) ==
    IF OthersActing(combat, c) # {}
    THEN {[x EXCEPT !.current = o] : o \in FirstOf(x, OthersActing(combat, c))}
    ELSE IF Living(x) = {} THEN {}
    ELSE StartTurn(x, NextGroup(x, c, {}), NextRound(x, x, c, {}))

(* passTheTurn: to the members of the group that still act, nowhere while  *)
(* a save is open, or to the next group; an error when nobody can play.    *)
PassTheTurn(x, c) ==
    IF OthersActing(combat, c) # {}
    THEN {[x EXCEPT !.current = o] : o \in FirstOf(x, OthersActing(combat, c))}
    ELSE IF x.saves # {} THEN {x}
    ELSE IF Living(x) = {} THEN {}
    ELSE StartTurn(x, NextGroup(x, c, {}), NextRound(x, x, c, {}))

(* EndTurn of the part of c.  A damage c dealt holds its part, unless the  *)
(* master drops it (`drop`); a window holds it unless it waits on a damage *)
(* that was dropped.                                                       *)
EndTurn(c, drop) ==
    /\ combat.status = "active" /\ combat.turn[c] = "acting" /\ c \in combat.fighters
    /\ ~drop => PendingOf(c) = {}
    /\ combat.saves = {} /\ combat.asks \subseteq PendingOf(c)
    /\ \E saves \in SUBSET {<<c, "end">>} :
        /\ saves # {} => c \notin combat.defeated \cap NonPlayers /\ MaxSaves > 0
        /\ Write(PassTheTurn(PartEnded(c, PendingOf(c), saves), c))

(* EndTurn by the master when nobody acts and no save holds the turn: the  *)
(* turns start again from the top of the order, in the same round.         *)
RestartTurns ==
    /\ combat.status = "active" /\ Acting(combat) = {}
    /\ combat.saves = {} /\ Living(combat) # {}
    /\ Write(StartTurn([combat EXCEPT !.had = {}, !.owed = Living(combat)],
                       Highest(combat, Living(combat)), combat.round))

(* RollEffectSave: the window closes; the settling may pass the turn.      *)
RollEffectSave(w) ==
    /\ NotEnded /\ w \in combat.saves
    /\ Write({[combat EXCEPT !.saves = @ \ {w}]})

------------------------------------------------------------------------------
(* The hits of a turn (combat_attack.go, combat_damage.go,                 *)
(* combat_apply_damage.go), as far as they hold it.                        *)

(* RollAttack, on its turn, and it hits: a damage opens, which may wait for*)
(* the target's reaction (Shield, Parry).                                  *)
RollAttack(a, t, asks) ==
    /\ combat.status = "active" /\ combat.turn[a] = "acting" /\ MayLandHit
    /\ a \in Living(combat) /\ t \in Living(combat) \ {a}
    /\ <<a, t>> \notin combat.damage /\ Cardinality(combat.damage) < MaxDamage
    /\ Write({[combat EXCEPT !.damage = @ \cup {<<a, t>>},
                             !.asks = IF asks THEN @ \cup {<<a, t>>} ELSE @]})

(* AnswerReaction: the hit goes on, or it became a miss.                   *)
AnswerReaction(d, miss) ==
    /\ NotEnded /\ d \in combat.asks
    /\ Write({[combat EXCEPT !.asks = @ \ {d}, !.damage = IF miss THEN @ \ {d} ELSE @]})

(* afterDamage: an effect on who was hurt may ask its save again; not of a *)
(* creature, nor of an NPC that is down.                                   *)
DamageAsks(c) ==
    IF MaxSaves = 0 \/ c \in Creatures \cup (NPCs \cap combat.defeated) THEN {{}}
    ELSE SUBSET {<<c, "damage">>}

Landed(d, down, asked) ==
    [Defeat(combat, IF down THEN {d[2]} ELSE {}) EXCEPT
        !.damage = @ \ {d}, !.saves = @ \cup asked]

(* RollDamage (a non-player takes it as it is rolled, and may go down) and *)
(* ApplyPendingDamage (a player's, by the master).                         *)
LandDamage(d, down) ==
    /\ NotEnded /\ MayLandHit /\ d \in combat.damage
    /\ {d[1], d[2]} \subseteq combat.fighters
    /\ down => d[2] \in NonPlayers
    /\ \E asked \in DamageAsks(d[2]) : Write({Landed(d, down, asked)})

(* DiscardPendingDamage, by the master, whatever waits.                    *)
DiscardPendingDamage(d) ==
    /\ NotEnded /\ d \in combat.damage /\ {d[1], d[2]} \subseteq combat.fighters
    /\ Write({[combat EXCEPT !.damage = @ \ {d}]})

------------------------------------------------------------------------------
(* Who falls, comes back and leaves.                                       *)

(* Effects end (those on somebody, those a concentration held on others),  *)
(* and the saving throws they asked close.                                 *)
EffectsEnd(x, asked) == [x EXCEPT !.saves = @ \ asked]

(* AdjustHitPoints of a non-player: at 0 it is defeated and concentrates on*)
(* nothing, above 0 it is not.                                             *)
AdjustHitPoints(c, down) ==
    /\ NotEnded /\ c \in combat.fighters \cap NonPlayers
    /\ (c \in combat.defeated) # down
    /\ \/ down /\ \E asked \in SUBSET combat.saves :
                Write({EffectsEnd(Defeat(combat, {c}), asked)})
       \/ ~down /\ Write({[combat EXCEPT !.defeated = @ \ {c}]})

(* ConfirmDeath of a player's character: its effects end, it is out, and   *)
(* leaves the turn.                                                        *)
ConfirmDeath(p) ==
    /\ NotEnded /\ p \in Living(combat) \cap Players
    /\ \E asked \in SUBSET combat.saves :
        /\ \A w \in combat.saves : w[1] = p => w \in asked
        /\ Write(LeaveTurn(EffectsEnd(Defeat(combat, {p}), asked), combat, p))

(* ReviveInCombat: back in its place, out of the running turn.  Nothing is *)
(* settled: the characters module made the change.                         *)
ReviveInCombat(p) ==
    /\ NotEnded /\ p \in combat.defeated \cap Players
    /\ combat' = [combat EXCEPT !.defeated = @ \ {p}, !.turn[p] = "idle"]

(* The rows of S go, with what the foreign keys cascade to.                *)
Without(x, S) ==
    Ordered([x EXCEPT !.fighters = @ \ S, !.defeated = @ \ S,
        !.saves = {w \in @ : w[1] \notin S},
        !.turn = [c \in Combatants |-> IF c \in S THEN "idle" ELSE @[c]],
        !.initiative = [c \in Combatants |-> IF c \in S THEN 0 ELSE @[c]],
        !.damage = {d \in @ : {d[1], d[2]} \cap S = {}},
        !.asks = {d \in @ : {d[1], d[2]} \cap S = {}},
        !.owed = @ \ S, !.had = @ \ S])

(* Who goes with c: a player's creatures leave with it, before the combat. *)
Leavers(c) == IF c = Owner THEN {c} \cup Creatures ELSE {c}

(* mayLeave: no player leaves a fight that runs, and nobody a damage names.*)
MayLeave(c) ==
    /\ ~(c \in Players /\ combat.status = "active")
    /\ \A d \in combat.damage : c \notin {d[1], d[2]}

(* The saving throws its effects asked of others (`asked`) close with it:   *)
(* who did it is not there any more (actorGone).                           *)
RemoveCombatant(c) ==
    /\ NotEnded /\ c \in combat.fighters /\ MayLeave(c)
    /\ \E asked \in SUBSET combat.saves :
        Write({Without(x, Leavers(c)) : x \in LeaveTurn(EffectsEnd(combat, asked), combat, c)})

(* EndEncounter, and EndGameSession's endOpenEncounter: what the windows   *)
(* held is discarded; the turn marks stay as they are.                     *)
EndEncounter ==
    /\ NotEnded
    /\ combat' = [combat EXCEPT !.status = "ended", !.current = Nobody, !.saves = {}, !.asks = {}]

------------------------------------------------------------------------------
Init == combat = Empty

Setup ==
    \/ StartEncounter \/ AddCombatants \/ BeginCombat
    \/ \E c \in Combatants, total \in 1..MaxInitiative : SubmitInitiative(c, total)
    \/ \E T \in SUBSET Combatants : SetInitiativeOrder(T)

Turns ==
    \/ \E c \in Combatants, drop \in BOOLEAN : EndTurn(c, drop)
    \/ RestartTurns
    \/ \E w \in combat.saves : RollEffectSave(w)

Hits ==
    \/ \E a, t \in Combatants, asks \in BOOLEAN : RollAttack(a, t, asks)
    \/ \E d \in combat.asks, miss \in BOOLEAN : AnswerReaction(d, miss)
    \/ \E d \in combat.damage, down \in BOOLEAN : LandDamage(d, down)
    \/ \E d \in combat.damage : DiscardPendingDamage(d)

Leaving ==
    \/ \E c \in Combatants, down \in BOOLEAN : AdjustHitPoints(c, down)
    \/ \E p \in Players : ConfirmDeath(p) \/ ReviveInCombat(p)
    \/ \E c \in Combatants : RemoveCombatant(c)
    \/ EndEncounter

(* MaxRound stops a behaviour that would go on: no step raises the round   *)
(* past it.                                                                *)
WithinRounds == combat'.round <= MaxRound

Next == (Setup \/ Turns \/ Hits \/ Leaving) /\ WithinRounds

Spec == Init /\ [][Next]_combat

(* The table plays on: the master ends the part of who acts (he may, for   *)
(* anybody, dropping its damage), starts an orphaned turn again, and the   *)
(* windows are answered.  No other call has to be made.                    *)
MasterEndsPart == (\E c \in Combatants : EndTurn(c, TRUE)) /\ WithinRounds
MasterRestarts == RestartTurns /\ WithinRounds
SavesAnswered == (\E w \in combat.saves : RollEffectSave(w)) /\ WithinRounds
ReactionsAnswered == (\E d \in combat.asks, miss \in BOOLEAN : AnswerReaction(d, miss)) /\ WithinRounds

FairSpec ==
    /\ Spec
    /\ WF_combat(MasterEndsPart) /\ WF_combat(MasterRestarts)
    /\ WF_combat(SavesAnswered) /\ WF_combat(ReactionsAnswered)

------------------------------------------------------------------------------
(* Properties. *)

(* The record keeps its type: whatever sequence of calls, every field stays*)
(* in its range (the CHECK constraints of combatants and encounters).      *)
TypeOK == combat \in CombatType

(* Nobody is in a turn while the combat is being set up, and only who is in*)
(* the fight is ever in a turn, down, or waited for by a saving throw.     *)
OnlyFightersTakeTurns ==
    /\ combat.status = "setup" => Members(combat) = {} /\ combat.round = 0
    /\ combat.defeated \subseteq combat.fighters
    /\ \A w \in combat.saves : w[1] \in combat.fighters
    /\ \A c \in Combatants : combat.turn[c] # "idle" => c \in combat.fighters

(* The stored order is a line in which the totals go down: so the members  *)
(* of a group are side by side in it, which groupRuns takes for granted    *)
(* through every roll, tie, reinforcement and removal.                     *)
GroupsAreRuns ==
    \A a, b \in combat.fighters :
        /\ a # b => combat.place[a] # combat.place[b]
        /\ combat.initiative[a] > combat.initiative[b] => combat.place[a] < combat.place[b]

(* A running turn is one group's: a reorder, a reinforcement or a removal  *)
(* in the middle of it mixes no other total in (combat_turn.go:16-19).     *)
JointTurn ==
    \A a, b \in Members(combat) : combat.initiative[a] = combat.initiative[b]

(* While somebody acts, the stored current combatant is in the turn, so a  *)
(* screen that reads it names a part that can end.                         *)
CurrentIsInTurn ==
    combat.status = "active" /\ Acting(combat) # {} => combat.current \in Members(combat)

(* The round never goes up over somebody: who was alive in the order when  *)
(* it began and still is has had its turn in it, whoever left, died, came  *)
(* back, was reordered or reinforced meanwhile.                            *)
NobodySkipped == combat.skipped = {}

(* In one round nobody's turn starts twice, unless the master starts the   *)
(* turns of an orphaned turn again.                                        *)
NobodyTwice == combat.repeated = {}

(* A turn that waits has something to wait for: when some part ended,      *)
(* nobody acts and somebody can play, a window is open.  (A character that *)
(* comes back to life out of its own turn is settled by the next change.)  *)
Revival == \E p \in Players : ReviveInCombat(p)
HeldForNothing(x) == Held(x) /\ Living(x) # {}
NeverHeldForNothing ==
    [][HeldForNothing(combat)' => Revival]_combat

(* The turn moves: somebody starts to act, or the round goes up.           *)
TurnMoves ==
    /\ combat.status = "active"
    /\ \/ combat'.round # combat.round
       \/ \E c \in Combatants : combat.turn[c] # "acting" /\ combat'.turn[c] = "acting"

SomebodyLeaves ==
    \/ ~(combat.fighters \subseteq combat'.fighters)
    \/ combat'.defeated \cap Players # combat.defeated \cap Players

(* A call that may close a saving throw that is open. *)
Closes(w) == RollEffectSave(w) \/ \E c \in Combatants : AdjustHitPoints(c, TRUE)

(* No turn starts over a saving throw that was open, over the end-of-turn  *)
(* save of the part that ended, nor, while somebody acts, over a hit that  *)
(* waits for its reaction, unless a member leaves or dies: what is open as *)
(* a turn starts was asked by that very change, at the start of the turn or*)
(* for the damage that the end of the old turn and the start of the new one*)
(* deal, even when the change closed the same save an instant before       *)
(* (reactionGate, releaseHeldTurn, lasting_effects_save.go:28-30).         *)
WindowsHoldTheTurn ==
    [][TurnMoves /\ ~SomebodyLeaves =>
        /\ \A w \in combat'.saves : w[2] # "end"
        /\ \A w \in combat.saves \cap combat'.saves : w[2] = "damage" /\ Closes(w)
        /\ Acting(combat) # {} => combat.asks \cap combat'.asks = {}]_combat

(* The turn that ended waits for the end-of-turn saves of its members that *)
(* still play, whatever else happens meanwhile (lasting_effects_save.go:29)*)
SavesAlwaysHoldTheTurn ==
    [][TurnMoves => combat.saves \cap combat'.saves \cap (Living(combat)' \X {"end"}) = {}]_combat

(* The fight goes on: from any round, while somebody can play, a later     *)
(* round comes, whatever holds, falls, leaves or joins in between, if the  *)
(* master does not bring characters back to life over and over.            *)
TheRoundComesRound ==
    <>[][~Revival]_combat =>
    \A r \in 1..(MaxRound - 1) :
        (combat.status = "active" /\ combat.round = r) ~>
            (combat.round > r \/ combat.status # "active" \/ Living(combat) = {})
=============================================================================
