---------------------------- MODULE CombatScreen ----------------------------
(***************************************************************************)
(* One screen that follows a running combat (web/src/app/core/combat and   *)
(* pages/live-session), on a map without fog: the changes the server       *)
(* commits and then tells its streams, the stream that may drop, the reads *)
(* of the combat that overlap, the answers to the screen's own calls, and  *)
(* the events applied in place.                                            *)
(*                                                                         *)
(* What a copy of the combat shows is kept as versions: the revision that  *)
(* last changed the turn, the squares and the rest of it.                  *)
(***************************************************************************)
EXTENDS Integers, Sequences, SequencesExt

CONSTANTS
    MaxRevision,  \* bound: the last revision of the combat
    MaxReads,     \* bound: reads of the combat in the air at once
    MaxTrouble,   \* bound: calls of this screen, reads that fail the first
                  \* time, drops of the stream and restarts of the server,
                  \* together
    Rereads,      \* COMBAT_REREADS
    None          \* a read the server has not answered yet

ASSUME BoundsAssumption ==
    /\ MaxRevision \in Nat /\ MaxReads \in Nat /\ MaxTrouble \in Nat
    /\ Rereads \in Nat

ASSUME NoneAssumption == None \notin [revision : Nat, turn : Nat, place : Nat, rest : Nat]

VARIABLES
    server,   \* the committed combat, and how its turn came to be (`go`)
    telling,  \* the changes committed whose call has not told all of it yet
    stream,   \* the events on their way to this screen
    screen,   \* CombatState and the reads of LiveSessionLoader
    past      \* history: the newest shown (`seen`) and read (`read`), the
              \* revision at the last ready, the one at which a read was
              \* given up, the changes nobody was told of, and whether a read
              \* crossed a newer one

vars == <<server, telling, stream, screen, past>>

Kinds == {"end_turn", "turn", "move", "other"}

(* How a turn that changed goes on: to somebody who stands, to somebody who*)
(* is down, or a part ended inside a joint turn.                           *)
Goes == {"on", "down", "part"}

CopyOf(s) == [revision |-> s.revision, turn |-> s.turn, place |-> s.place, rest |-> s.rest]

------------------------------------------------------------------------------
(* The server. *)

Hint(d) == [kind |-> "encounter_changed", revision |-> d.revision]
Turn(d) == [kind |-> "turn_changed", revision |-> d.revision, turn |-> d.turn, go |-> d.go]
Moved(at) == [kind |-> "combatant_moved", place |-> at]

(* What the call that made the change at revision `at` publishes, in order;*)
(* d is the combat as finish reads it after the commit.                    *)
Published(kind, at, d) ==
    CASE kind = "end_turn" -> <<Turn(d), Hint(d)>>
      [] kind = "turn" -> <<Hint(d), Turn(d)>>
      [] kind = "move" -> <<Moved(at)>>
      [] kind = "other" -> <<Hint(d)>>

Troubles == screen.calls + stream.drops

(* A change commits.  A turn that starts may change more than the turn (its*)
(* joint group, the effects that end or hurt, the parts that ended).       *)
Commit(kind, go, more, mine) ==
    /\ server.revision < MaxRevision
    /\ mine => ~screen.busy /\ Troubles < MaxTrouble
    /\ LET r == server.revision + 1
           turns == kind \in {"end_turn", "turn"}
       IN  /\ ~turns => go = "on" /\ ~more
           /\ go = "part" => more
           /\ server' = [revision |-> r,
                         turn |-> IF turns THEN r ELSE server.turn,
                         place |-> IF kind = "move" THEN r ELSE server.place,
                         rest |-> IF kind = "other" \/ more THEN r ELSE server.rest,
                         go |-> IF turns THEN go ELSE server.go]
           /\ telling' = telling \cup
                {[at |-> r, kind |-> kind, mine |-> mine, read |-> None, failed |-> FALSE, events |-> <<>>]}
    /\ screen' = IF mine THEN [screen EXCEPT !.busy = TRUE, !.calls = @ + 1] ELSE screen
    /\ UNCHANGED <<stream, past>>

(* finish reads the combat after the commit, for the hints and the answer. *)
FinishReads(t) ==
    /\ t.read = None /\ ~t.failed
    /\ telling' = (telling \ {t}) \cup
        {[t EXCEPT !.read = CopyOf(server), !.events = Published(t.kind, t.at, server)]}
    /\ UNCHANGED <<server, stream, screen, past>>

(* finish cannot read the combat, or the answer to the commit itself was   *)
(* lost: the call answers with an error, and nobody is told.  (Who repeats *)
(* the call with its key tells the change then: CombatWrite.)              *)
FinishFails(t) ==
    /\ t.read = None /\ ~t.failed
    /\ telling' = (telling \ {t}) \cup IF t.mine THEN {[t EXCEPT !.failed = TRUE]} ELSE {}
    /\ past' = [past EXCEPT !.lost = @ \cup {t.at}]
    /\ UNCHANGED <<server, stream, screen>>

Told(t) == t.read # None /\ t.events = <<>>

(* hub.Publish of one event; a call of somebody else is then over.         *)
Publish(t) ==
    /\ t.events # <<>>
    /\ stream' = [stream EXCEPT !.queue = Append(@, Head(t.events))]
    /\ LET rest == [t EXCEPT !.events = Tail(@)]
       IN  telling' = (telling \ {t}) \cup IF Told(rest) /\ ~t.mine THEN {} ELSE {rest}
    /\ UNCHANGED <<server, screen, past>>

------------------------------------------------------------------------------
(* CombatState (combat-state.ts).  A ticket is compared with the counters  *)
(* of its read's time: here a read in the air is marked instead, when an   *)
(* answer or an event changes the copy (`disturbed`) and when a read that  *)
(* began after it is applied (`overtaken`).  Reads are in starting order.  *)

Read(attempt) == [served |-> None, attempt |-> attempt, disturbed |-> FALSE, overtaken |-> FALSE]

Disturbed(reads) == [i \in DOMAIN reads |-> [reads[i] EXCEPT !.disturbed = TRUE]]

BeginRead(s, attempt) == [s EXCEPT !.reads = Append(@, Read(attempt))]

(* Mutant: an answer leaves the reads in the air as they are. *)
AppliedQuietly(s, c) ==
    IF c.revision < s.copy.revision THEN s ELSE [s EXCEPT !.copy = c, !.whole = TRUE]

(* apply: an answer to a call, unless the copy on screen is newer.         *)
Applied(s, c) ==
    IF c.revision < s.copy.revision THEN s
    ELSE [s EXCEPT !.copy = c, !.whole = TRUE, !.reads = Disturbed(@)]

(* applyTurn in place: the copy claims the event's revision (a player's has*)
(* no number) and the group of the turn is not known any more.             *)
Patched(s, e) ==
    [s EXCEPT !.copy.turn = e.turn, !.copy.revision = IF s.master THEN e.revision ELSE @,
              !.whole = FALSE, !.reads = Disturbed(@)]

NoNewer(s, e) == s.master /\ e.revision <= s.copy.revision
AGap(s, e) == s.master /\ e.revision > s.copy.revision + 1

(* The screens a turn_changed may lead to.  In a joint turn the event of a *)
(* part that ended reads again, unless it names who is current already.    *)
OnTurnChanged(s, e) ==
    CASE NoNewer(s, e) -> {s}
      [] ~NoNewer(s, e) /\ (AGap(s, e) \/ e.go = "down") -> {BeginRead(s, 0)}
      [] ~NoNewer(s, e) /\ ~AGap(s, e) /\ e.go # "down" ->
            IF s.whole /\ s.copy.turn = e.turn THEN {s}
            ELSE IF s.whole /\ e.go = "part" THEN {s, BeginRead(s, 0)}
            ELSE {Patched(s, e)}

(* The screens each event may lead to (live-session-events.ts).            *)
OnEvent(s, e) ==
    CASE e.kind = "ready" -> {[s EXCEPT !.snapshot = TRUE]}
      [] e.kind = "encounter_changed" ->
            {IF e.revision > s.copy.revision THEN BeginRead(s, 0) ELSE s}
      [] e.kind = "turn_changed" -> OnTurnChanged(s, e)
      [] e.kind = "combatant_moved" ->
            {[s EXCEPT !.copy.place = e.place, !.reads = Disturbed(@)]}

(* History: what nobody told and no read has brought since; the revision   *)
(* at which the last read there was in the air was given up.               *)
StillLost(s) == {r \in past.lost : ~s.whole \/ r > s.copy.revision}
GivenUp(i) == IF i = Len(screen.reads) THEN server.revision ELSE past.gaveUp

Newest(a, b) == IF a > b THEN a ELSE b
Seen(c) == [turn |-> Newest(past.seen.turn, c.turn), place |-> Newest(past.seen.place, c.place)]

Receive ==
    /\ stream.queue # <<>> /\ Len(screen.reads) < MaxReads
    /\ screen' \in OnEvent(screen, Head(stream.queue))
    /\ stream' = [stream EXCEPT !.queue = Tail(@)]
    /\ past' = [past EXCEPT !.seen = Seen(screen'.copy),
                    !.readyAt = IF Head(stream.queue).kind = "ready" THEN server.revision ELSE @]
    /\ UNCHANGED <<server, telling>>

(* Mutant: the snapshot does not read the combat. *)
SnapshotWithoutCombat ==
    /\ screen.snapshot /\ Len(screen.reads) < MaxReads
    /\ screen' = [screen EXCEPT !.snapshot = FALSE]
    /\ UNCHANGED <<server, telling, stream, past>>

(* GetLiveSession answers after a ready: the combat is read (readSnapshot).*)
SnapshotAnswers ==
    /\ screen.snapshot /\ Len(screen.reads) < MaxReads
    /\ screen' = BeginRead([screen EXCEPT !.snapshot = FALSE], 0)
    /\ UNCHANGED <<server, telling, stream, past>>

(* GetEncounter reads one snapshot of the database, in whatever order the  *)
(* reads in the air get there.                                             *)
ReadIsServed(i) ==
    /\ screen.reads[i].served = None
    /\ screen' = [screen EXCEPT !.reads[i].served = CopyOf(server)]
    /\ UNCHANGED <<server, telling, stream, past>>

(* Mutant: a read that was dropped is not tried again. *)
ReadAnswersOnce(i) ==
    LET r == screen.reads[i]
        left == [screen EXCEPT !.reads = RemoveAt(@, i)]
    IN  /\ r.served # None
        /\ screen' = IF r.disturbed \/ r.overtaken THEN left
                     ELSE [left EXCEPT !.copy = r.served, !.whole = TRUE]
        /\ past' = [past EXCEPT !.seen = Seen(screen'.copy)]
        /\ UNCHANGED <<server, telling, stream>>

(* applyRead, and loadCombat's next read when this one was dropped for what*)
(* came while it was out.                                                  *)
ReadAnswers(i) ==
    LET r == screen.reads[i]
        left == [screen EXCEPT !.reads = RemoveAt(@, i)]
        shown == [left EXCEPT !.copy = r.served, !.whole = TRUE,
                    !.reads = [j \in DOMAIN @ |-> IF j < i THEN [@[j] EXCEPT !.overtaken = TRUE] ELSE @[j]]]
        again == r.disturbed /\ r.attempt < Rereads
        isShown == ~r.disturbed /\ ~r.overtaken
    IN  /\ r.served # None
        /\ screen' = IF isShown THEN shown ELSE IF again THEN BeginRead(left, r.attempt + 1) ELSE left
        /\ past' = [past EXCEPT !.seen = Seen(screen'.copy), !.lost = StillLost(screen'),
                        !.gaveUp = IF isShown THEN (IF r.served.revision >= @ THEN 0 ELSE @)
                                   ELSE IF again THEN @ ELSE GivenUp(i),
                        !.read = IF isShown THEN Newest(@, r.served.revision) ELSE @,
                        !.crossed = IF isShown THEN r.served.revision < past.read ELSE @]
        /\ UNCHANGED <<server, telling, stream>>

(* A read that fails is tried once more, 1.5 s later; ...                  *)
ReadFails(i) ==
    /\ screen.reads[i].attempt = 0 /\ Troubles < MaxTrouble
    /\ screen' = [screen EXCEPT !.reads = RemoveAt(@, i), !.retries = @ + 1]
    /\ stream' = [stream EXCEPT !.drops = @ + 1]
    /\ UNCHANGED <<server, telling, past>>

RetryRead ==
    /\ screen.retries > 0 /\ Len(screen.reads) < MaxReads
    /\ screen' = BeginRead([screen EXCEPT !.retries = @ - 1], Rereads)
    /\ UNCHANGED <<server, telling, stream, past>>

(* ... the retry, a read that replaced a dropped one and the read after a  *)
(* refusal (refreshAfter) are not tried again.                             *)
ReadIsGivenUp(i) ==
    /\ screen.reads[i].attempt # 0
    /\ screen' = [screen EXCEPT !.reads = RemoveAt(@, i)]
    /\ past' = [past EXCEPT !.gaveUp = GivenUp(i)]
    /\ UNCHANGED <<server, telling, stream>>

(* The screen's own call answers (CombatCalls.run).                        *)
MyCallAnswers(t) ==
    /\ Told(t) /\ t.mine
    /\ screen' = Applied([screen EXCEPT !.busy = FALSE], t.read)
    /\ past' = [past EXCEPT !.seen = Seen(screen'.copy), !.lost = StillLost(screen')]
    /\ telling' = telling \ {t}
    /\ UNCHANGED <<server, stream>>

(* refreshAfter: for some of the codes the combat is read again, once.     *)
Refused(s) == {[s EXCEPT !.busy = FALSE], BeginRead([s EXCEPT !.busy = FALSE], Rereads)}

(* Its answer is an error, or is lost.                                     *)
MyCallFails(t) ==
    /\ t.failed \/ Told(t)
    /\ t.mine /\ Len(screen.reads) < MaxReads
    /\ screen' \in Refused(screen)
    /\ telling' = telling \ {t}
    /\ UNCHANGED <<server, stream, past>>

------------------------------------------------------------------------------
(* The stream drops (slow, replaced, hidden tab, dead connection) with what*)
(* was on its way, and the page opens another, which sends ready once it is*)
(* subscribed.  (An event told in between is lost with the others, and a   *)
(* snapshot that fails, which restarts the stream, is a drop too.)  A      *)
(* server that restarts drops it too, and never tells what it committed and*)
(* had not told.                                                           *)
Reconnected == [queue |-> <<[kind |-> "ready"]>>, drops |-> stream.drops + 1]

Drop ==
    /\ Troubles < MaxTrouble
    /\ stream' = Reconnected
    /\ UNCHANGED <<server, telling, screen, past>>

Restart ==
    /\ Troubles < MaxTrouble /\ Len(screen.reads) < MaxReads
    /\ stream' = Reconnected
    /\ telling' = {}
    /\ IF screen.busy THEN screen' \in Refused(screen) ELSE UNCHANGED screen
    /\ UNCHANGED <<server, past>>

------------------------------------------------------------------------------
(* A screen, of the master or of a player, that just read the combat.      *)
Start == [revision |-> 1, turn |-> 1, place |-> 1, rest |-> 1]

Init ==
    /\ server = [revision |-> 1, turn |-> 1, place |-> 1, rest |-> 1, go |-> "on"]
    /\ telling = {}
    /\ stream = [queue |-> <<>>, drops |-> 0]
    /\ \E master \in BOOLEAN :
        screen = [master |-> master, copy |-> Start, whole |-> TRUE, reads |-> <<>>,
                  retries |-> 0, snapshot |-> FALSE, busy |-> FALSE, calls |-> 0]
    /\ past = [seen |-> [turn |-> 1, place |-> 1], read |-> 1, readyAt |-> 1,
               gaveUp |-> 0, lost |-> {}, crossed |-> FALSE]

Server ==
    \/ \E kind \in Kinds, go \in Goes, more, mine \in BOOLEAN : Commit(kind, go, more, mine)
    \/ \E t \in telling : FinishReads(t) \/ FinishFails(t) \/ Publish(t)

Page ==
    \/ Receive \/ SnapshotAnswers \/ RetryRead
    \/ \E i \in DOMAIN screen.reads :
        ReadIsServed(i) \/ ReadAnswers(i) \/ ReadFails(i) \/ ReadIsGivenUp(i)
    \/ \E t \in telling : MyCallAnswers(t) \/ MyCallFails(t)

Network == Drop \/ Restart

Next == Server \/ Page \/ Network

Spec == Init /\ [][Next]_vars

------------------------------------------------------------------------------
(* Properties. *)

(* Everything told has arrived and nothing is in the air.                  *)
Quiet ==
    /\ telling = {} /\ stream.queue = <<>>
    /\ screen.reads = <<>> /\ screen.retries = 0 /\ ~screen.snapshot /\ ~screen.busy

(* An event with no number came late, over a newer copy: a turn_changed of *)
(* a player, a combatant_moved of anybody.  No hint reads these back.      *)
TurnSetBack == ~screen.master /\ screen.copy.turn < past.seen.turn
PlaceSetBack == screen.copy.place < past.seen.place

(* Somebody told the screen of the change at revision r, and the read it   *)
(* asked for was not given up: dropped or failed too often with no later   *)
(* read in the air.  (A read shown since makes up for both.)               *)
Followed(r) == r \notin past.lost /\ r > past.gaveUp

Settled == Quiet /\ ~past.crossed /\ ~TurnSetBack

(* A copy read or answered whole is the combat as it is, once everything   *)
(* told has arrived: no interleaving of reads, answers, hints and drops    *)
(* leaves a screen that looks complete behind a change it could follow.    *)
(* One it could not, because finish failed after the commit or the reads   *)
(* it asked for failed, stays missing until something reads again.         *)
WholeCopyIsCurrent ==
    Settled /\ screen.whole =>
        /\ Followed(server.turn) => screen.copy.turn = server.turn
        /\ Followed(server.rest) => screen.copy.rest = server.rest

(* Whatever was patched in place, the turn on screen is the turn that runs *)
(* (unless the turn is one of the changes it could not follow).            *)
QuietScreenShowsTheTurn ==
    Settled /\ Followed(server.turn) => screen.copy.turn = server.turn

(* A screen that connects again after the last change ends up with all of  *)
(* it, even what no event told (a restart between the commit and the hint, *)
(* a finish that failed), unless the snapshot's read of the combat fails   *)
(* twice: only the read of the session restarts the stream.                *)
ReadyHeals ==
    Settled /\ past.readyAt = server.revision /\ past.gaveUp < server.revision =>
        /\ screen.copy.turn = server.turn /\ screen.copy.rest = server.rest
        /\ PlaceSetBack \/ screen.copy.place = server.place

(* A patched copy claims the revision of the event and must hold everything*)
(* up to it (docs/architecture/play/combat.md:236): a screen that claims   *)
(* the revision the server is at shows all of the combat.                  *)
TheClaimIsHeld ==
    Settled /\ Followed(server.rest) /\ screen.copy.revision = server.revision =>
        screen.copy.rest = server.rest
=============================================================================
