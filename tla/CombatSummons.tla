---------------------------- MODULE CombatSummons ----------------------------
(***************************************************************************)
(* The creatures of a player's character in a running combat: a cast brings*)
(* them with one initiative, the end of the concentration dismisses their  *)
(* rows (hidden, kept for an undo), the characters module sends one away,  *)
(* and the master takes the last of these back.  Extends the turn of       *)
(* CombatTurns, through which they leave and come.                         *)
(***************************************************************************)
EXTENDS CombatTurns

VARIABLE last   \* what UndoLastAction can take back: the last cast, or the
                \* last end of a concentration with the rows it dismissed

svars == <<combat, last>>

Nothing == [kind |-> "none", rows |-> {}]
RowType == [creature : Creatures, initiative : 0..MaxInitiative, place : Nat, down : BOOLEAN]
UndoType == [kind : {"none", "cast", "concentration"}, rows : SUBSET RowType]

Brought == Creatures \cap combat.fighters

(* The dismissed row keeps what it had; its row in the order is gone, with *)
(* the saves it was asked (endEffectsOfLeaver), but not with the damage    *)
(* that names it (only CreaturesLeaving discards that).                    *)
Row(c) == [creature |-> c, initiative |-> combat.initiative[c],
           place |-> combat.place[c], down |-> c \in combat.defeated]

Dismissed(x, c) == [Without(x, {c}) EXCEPT !.damage = x.damage, !.asks = x.asks]

Gone(x, c, dismiss) == IF dismiss THEN Dismissed(x, c) ELSE Without(x, {c})

(* Those of S before c in the order.                                       *)
Ahead(x, S, c) == {o \in S : Precedes(x, o, c)}

(* What y may be once the effects of a leaver ended: those it carried, and  *)
(* those it held on others, whose open saving throws close with them.      *)
EffectsOfLeaver(y) == {EffectsEnd(y, asked) : asked \in SUBSET y.saves}

(* One of drop goes from y: its effects end, it leaves the turn and then   *)
(* its row is dismissed, or deleted with the damage that names it.  The    *)
(* list of combatants is read once, before the first one went: x, less     *)
(* those that went.                                                        *)
GoneFrom(x, drop, dismiss, y, c) ==
    UNION {{Gone(z, c, dismiss) : z \in LeaveTurn(e, [x EXCEPT !.fighters = @ \ Ahead(x, drop, c)], c)}
             : e \in EffectsOfLeaver(y)}

DropOne(x, drop, dismiss, k, left) ==
    UNION {GoneFrom(x, drop, dismiss, y, c)
             : y \in left, c \in {d \in drop : Cardinality(Ahead(x, drop, d)) = k - 1}}

(* dropCombatants: one after another in the order.  `left` is what is left *)
(* after the k first of drop went.                                         *)
Dropped(x, drop, dismiss) ==
    LET left[k \in 0..Cardinality(drop)] ==
            IF k = 0 THEN {x} ELSE DropOne(x, drop, dismiss, k, left[k - 1])
    IN  left[Cardinality(drop)]

(* EndConcentration, a new concentration spell, 0 hit points: the creatures*)
(* that last while Owner concentrates go, and the other effects it held end*)
(* (`asked`).                                                              *)
EndConcentration ==
    /\ NotEnded /\ Owner \in combat.fighters /\ Brought # {}
    /\ \E asked \in SUBSET combat.saves :
        Write({EffectsEnd(x, asked) : x \in Dropped(combat, Brought, TRUE)})
    /\ last' = [kind |-> "concentration", rows |-> {Row(c) : c \in Brought}]

(* CreaturesLeaving: one creature is dismissed from the character's list.  *)
(* The damage that names it is discarded, and nothing is settled: the      *)
(* characters module made the change.                                      *)
CreaturesLeaving(c) ==
    /\ NotEnded /\ c \in Brought
    /\ \E y \in EffectsOfLeaver(combat) :
        combat' \in {Without(x, {c}) : x \in LeaveTurn(
            [y EXCEPT !.damage = {d \in @ : c \notin {d[1], d[2]}}], combat, c)}
    /\ last' = Nothing

(* A summoning spell cast by Owner in its turn: the creatures take the end *)
(* of the list and one initiative for all (joinSummon).                    *)
SummonCreatures(S, total) ==
    /\ combat.status = "active" /\ combat.turn[Owner] = "acting" /\ Owner \in Living(combat)
    /\ MayLandHit /\ S # {} /\ Brought = {}
    /\ \A d \in combat.damage : {d[1], d[2]} \cap Creatures = {}
    /\ Write({Ordered([x EXCEPT !.initiative = [c \in Combatants |-> IF c \in S THEN total ELSE @[c]]])
                : x \in Joined(combat, S)})
    /\ last' = [kind |-> "cast", rows |-> {}]

(* UndoLastAction of the cast: its creatures go, rows and all.             *)
UndoCast ==
    /\ NotEnded /\ last.kind = "cast"
    /\ Write(Dropped(combat, Brought, FALSE))
    /\ last' = Nothing

(* Mutant: the rows come back to the places they had. *)
RejoinedInPlace(x, rows, side) ==
    LET back == {r.creature : r \in rows}
        row(c) == CHOOSE r \in rows : r.creature = c
    IN  [x EXCEPT
            !.fighters = @ \cup back,
            !.defeated = @ \cup {c \in back : row(c).down},
            !.initiative = [c \in Combatants |-> IF c \in back THEN row(c).initiative ELSE @[c]],
            !.place = [c \in Combatants |-> IF c \in back THEN row(c).place ELSE @[c]]]

(* rejoinCreatures: the rows come back out of the turn, with the initiative*)
(* they had, and the order is made again.  The others took their places    *)
(* meanwhile: with whom they tie, the time their rows were made decides    *)
(* (the order of ListCombatants), not the order the master gave.           *)
Rejoined(x, rows, side) ==
    LET back == {r.creature : r \in rows}
        row(c) == CHOOSE r \in rows : r.creature = c
    IN  Ordered([x EXCEPT
            !.fighters = @ \cup back,
            !.defeated = @ \cup {c \in back : row(c).down},
            !.initiative = [c \in Combatants |-> IF c \in back THEN row(c).initiative ELSE @[c]],
            !.place = [c \in Combatants |-> IF c \in back THEN 2 * row(c).place + side
                                                           ELSE 2 * @[c] + 1]])

(* UndoLastAction of the end of the concentration.                         *)
UndoEndConcentration ==
    /\ NotEnded /\ last.kind = "concentration"
    /\ \E side \in {0, 2} : Write({Rejoined(combat, last.rows, side)})
    /\ last' = Nothing

------------------------------------------------------------------------------
SInit == Init /\ last = Nothing

Summoning ==
    \/ EndConcentration \/ UndoCast \/ UndoEndConcentration
    \/ \E c \in Creatures : CreaturesLeaving(c)
    \/ \E S \in SUBSET Creatures, total \in 1..MaxInitiative : SummonCreatures(S, total)

(* Every other change of the combat closes the undo chain.                 *)
Fighting == (Setup \/ Turns \/ Hits \/ Leaving) /\ last' = Nothing

SNext == (Fighting \/ Summoning) /\ WithinRounds

SSpec == SInit /\ [][SNext]_svars

------------------------------------------------------------------------------
(* Properties. *)

(* The creatures of one casting act together: while the combat runs those  *)
(* in it have one total, so one joint turn, however they came (with their  *)
(* owner, by a cast, by an undo) and whoever of them went meanwhile.       *)
OneTotalForTheCasting ==
    combat.status = "active" =>
        \A c, d \in Brought : combat.initiative[c] = combat.initiative[d]

(* No row that left the order is still waited for: no saving throw and no  *)
(* reaction of a creature that is gone holds the turn of the others.       *)
TheGoneHoldNothing ==
    combat.status = "active" =>
        /\ \A w \in combat.saves : w[1] \in combat.fighters
        /\ \A d \in combat.asks : d[2] \in combat.fighters

(* Whatever way a creature goes or comes back, it leaves no turn that went *)
(* on waiting with no window to wait for, but for the one that took away   *)
(* the saving throw of somebody else: CreaturesLeaving settles nothing     *)
(* (creature_host.go:22), and the next change of the combat does.          *)
TookASave ==
    \E c \in Creatures : CreaturesLeaving(c) /\ \E w \in combat.saves \ combat'.saves : w[1] # c

NeverHeldBySummons ==
    [][HeldForNothing(combat)' => Revival \/ HeldForNothing(combat) \/ TookASave]_svars

(* The round goes up after the last combatant of the order, so one change  *)
(* raises it at most by one (stories.md:298).                              *)
TheRoundGoesUpByOne ==
    [][combat.status = "active" => combat'.round <= combat.round + 1 \/ combat'.status = "setup"]_svars
=============================================================================
