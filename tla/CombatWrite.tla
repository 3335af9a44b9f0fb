---------------------------- MODULE CombatWrite ----------------------------
(***************************************************************************)
(* How a change of a combat is made once (play/combat_write.go, the keyed  *)
(* sender of web/src/app/core/combat/combat-client-base.ts): a tap takes   *)
(* the key of its request, the call reads what the players see, one        *)
(* transaction under the session's lock looks for the key and applies the  *)
(* change with its event, and after the commit the streams are told and    *)
(* the call answers.  Calls overlap, answers are lost, commits have        *)
(* unknown outcomes, the server restarts, sessions end and start.          *)
(***************************************************************************)
EXTENDS Integers, FiniteSets

CONSTANTS
    Screens,        \* the people's screens, one person each
    Fogged,         \* the combat's map has the fog of war: a change needs a sight
    MaxSightTries,  \* maxSightTries
    MaxTaps,        \* bound: things people want done
    MaxSends,       \* bound: calls sent
    MaxSessions,    \* bound: sessions of the campaign
    MaxCrashes,     \* bound: restarts of the server
    None            \* no key, no combat, no sight, no call

ASSUME BoundsAssumption ==
    /\ Fogged \in BOOLEAN
    /\ {MaxSightTries, MaxTaps, MaxSends, MaxCrashes} \subseteq Nat
    /\ MaxSessions \in Nat \ {0}
    /\ None \notin Nat

VARIABLES
    table,    \* the session and its combat
    events,   \* session_events with a key
    calls,    \* the calls the server is running
    screens,  \* what each screen waits for and the keys it keeps (`sending`)
    past      \* history: taps, sends, crashes, the revisions told and answered,
              \* the changes that passed while a call that was aborted tried

vars == <<table, events, calls, screens, past>>

(* "start" makes a combat and names none; "act" is a change of the combat  *)
(* it names, its request always the same (the same hit, the same Dash).    *)
Changes == {"start", "act"}

------------------------------------------------------------------------------
(* The screen: CombatClientBase.keyed under CombatCalls.run. *)

(* The request names the combat: the combat of the session for "act".      *)
Named(v) == IF v = "act" THEN table.combat ELSE None

(* The same request as the one this screen sent and got no answer for.     *)
SameAgain(s, v) ==
    /\ screens[s].sending[v] # None
    /\ screens[s].sending[v].combat = Named(v)

(* What the person means: something new, or the last try of this again.    *)
Meant(s, v) ==
    {past.taps + 1} \cup IF SameAgain(s, v) THEN {screens[s].sending[v].tap} ELSE {}

(* The same request keeps the key of the one that got no answer.           *)
Tap(s, v) ==
    /\ screens[s].waits = None /\ past.sends < MaxSends
    /\ v = "act" => table.combat # None
    /\ \E tap \in Meant(s, v) :
        LET key == IF SameAgain(s, v) THEN screens[s].sending[v].key ELSE tap
            id == past.sends + 1
        IN  /\ tap <= MaxTaps
            /\ calls' = calls \cup
                {[id |-> id, by |-> s, change |-> v, key |-> key, tap |-> tap, at |-> "sent",
                  combat |-> Named(v), rev |-> None, sight |-> None, try |-> 1,
                  first |-> table.revision, made |-> None]}
            /\ screens' = [screens EXCEPT ![s].waits = id,
                    ![s].sending[v] = [key |-> key, tap |-> tap, combat |-> Named(v)]]
            /\ past' = [past EXCEPT !.sends = id, !.taps = IF tap > @ THEN tap ELSE @]
    /\ UNCHANGED <<table, events>>

(* The deadline passes, or the answer does not arrive: the key stays.      *)
GiveUp(s) ==
    /\ screens[s].waits # None
    /\ screens' = [screens EXCEPT ![s].waits = None]
    /\ UNCHANGED <<table, events, calls, past>>

------------------------------------------------------------------------------
(* The server. *)

Moves(c, d) == calls' = (calls \ {c}) \cup {d}

(* The call ends with an error; the screen, if it still waits, keeps the key.*)
Fails(c) ==
    /\ calls' = calls \ {c}
    /\ screens' = IF screens[c.by].waits = c.id
                  THEN [screens EXCEPT ![c.by].waits = None] ELSE screens

NeedsSight(c) == Fogged /\ c.combat # None

(* Mutant: the sight is read first, then the revision it is taken for.     *)
SightThenRevision(c) ==
    /\ \/ /\ c.at = "sent" /\ ~NeedsSight(c)
          /\ Moves(c, [c EXCEPT !.at = "ready"])
       \/ /\ c.at = "sent" /\ NeedsSight(c)
          /\ Moves(c, [c EXCEPT !.at = "reading", !.sight = table.revision])
       \/ /\ c.at = "reading"
          /\ Moves(c, [c EXCEPT !.at = "ready", !.rev = table.revision])
    /\ UNCHANGED <<table, events, screens, past>>

(* sightForWrite, outside the transaction: the combat's revision, and then *)
(* in a read of its own what the players see (which revision it shows).    *)
ReadSight(c) ==
    /\ \/ /\ c.at = "sent" /\ ~NeedsSight(c)
          /\ Moves(c, [c EXCEPT !.at = "ready"])
       \/ /\ c.at = "sent" /\ NeedsSight(c)
          /\ Moves(c, [c EXCEPT !.at = "reading", !.rev = table.revision])
       \/ /\ c.at = "reading"
          /\ Moves(c, [c EXCEPT !.at = "ready", !.sight = table.revision])
    /\ UNCHANGED <<table, events, screens, past>>

(* Mutant: the key is not looked for. *)
OfNoKey(c) == {}

(* replayOfKey: the event of this session with the call's key, and whether *)
(* it was the same request (kind, hash) of the same person.                *)
OfKey(c) == {e \in events : e.session = table.session /\ e.key = c.key}
Same(c, e) ==
    /\ e.change = c.change /\ e.by = c.by
    /\ c.change = "act" => e.combat = c.combat
IsRetry(c) == \E e \in OfKey(c) : Same(c, e)

(* openChange found no such combat open in the session, or start found one.*)
Misplaced(c) == c.combat # table.combat

Stale(c) == NeedsSight(c) /\ c.rev # table.revision

Running(c) == c.at = "ready" /\ table.open

(* No session, a key used for something else, no such combat, a change its *)
(* rules refuse, or a transaction that was not saved.                      *)
Refused(c) ==
    /\ c.at = "ready"
    /\ \/ ~table.open
       \/ OfKey(c) # {} /\ ~IsRetry(c)
       \/ OfKey(c) = {} /\ (Misplaced(c) \/ ~Stale(c))
    /\ Fails(c)
    /\ UNCHANGED <<table, events, past>>

(* Mutant: a retry answers at once, without telling the streams. *)
ReplayQuietly(c) ==
    /\ Running(c)
    /\ \E e \in OfKey(c) :
        Same(c, e) /\ Moves(c, [c EXCEPT !.at = "told", !.made = e.revision, !.combat = e.combat])
    /\ UNCHANGED <<table, events, screens, past>>

(* A retry changes nothing: it tells and answers what the first call made. *)
(* (A start's looks at the session's latest combat, the one it started.)   *)
Replay(c) ==
    /\ Running(c)
    /\ \E e \in OfKey(c) :
        Same(c, e) /\ Moves(c, [c EXCEPT !.at = "done", !.made = e.revision, !.combat = e.combat])
    /\ UNCHANGED <<table, events, screens, past>>

(* Mutant: the next try keeps the sight of the first. *)
SightStaysStale(c) ==
    /\ Running(c) /\ OfKey(c) = {} /\ ~Misplaced(c) /\ Stale(c)
    /\ IF c.try < MaxSightTries
       THEN /\ Moves(c, [c EXCEPT !.try = @ + 1])
            /\ UNCHANGED <<screens, past>>
       ELSE /\ Fails(c)
            /\ past' = [past EXCEPT !.aborted = @ \cup {table.revision - c.first}]
    /\ UNCHANGED <<table, events>>

(* errSightStale: read it again, or give the change up.                    *)
SightIsStale(c) ==
    /\ Running(c) /\ OfKey(c) = {} /\ ~Misplaced(c) /\ Stale(c)
    /\ IF c.try < MaxSightTries
       THEN /\ Moves(c, [c EXCEPT !.at = "sent", !.try = @ + 1])
            /\ UNCHANGED <<screens, past>>
       ELSE /\ Fails(c)
            /\ past' = [past EXCEPT !.aborted = @ \cup {table.revision - c.first}]
    /\ UNCHANGED <<table, events>>

MayApply(c) == Running(c) /\ OfKey(c) = {} /\ ~Misplaced(c) /\ ~Stale(c)

(* Mutant: the change is saved and its event is not. *)
AppliedWithNoEvent(c) ==
    /\ table' = [table EXCEPT !.revision = @ + 1,
                    !.combat = IF c.change = "start" THEN table.revision + 1 ELSE @]
    /\ UNCHANGED events

(* The change and its event, in one commit.                                *)
Applied(c) ==
    /\ table' = [table EXCEPT !.revision = @ + 1,
                    !.combat = IF c.change = "start" THEN table.revision + 1 ELSE @]
    /\ events' = events \cup
        {[session |-> table.session, key |-> c.key, by |-> c.by, change |-> c.change, tap |-> c.tap,
          combat |-> table'.combat, sight |-> c.sight, revision |-> table'.revision]}

Apply(c) ==
    /\ MayApply(c) /\ Applied(c)
    /\ Moves(c, [c EXCEPT !.at = "done", !.made = table'.revision, !.combat = table'.combat])
    /\ UNCHANGED <<screens, past>>

(* The commit's outcome is unknown to the server, and the change was saved.*)
ApplyUnknown(c) ==
    /\ MayApply(c) /\ Applied(c)
    /\ Fails(c)
    /\ UNCHANGED past

(* A change of a combat had nothing to change (no event), and answers.     *)
NothingToDo(c) ==
    /\ MayApply(c) /\ c.change = "act"
    /\ Moves(c, [c EXCEPT !.at = "nothing"])
    /\ UNCHANGED <<table, events, screens, past>>

(* finish: read the combat after the commit, tell the streams to read it   *)
(* again (they will see all of it so far), answer.                         *)
Hinted(c) == {e.revision : e \in {f \in events : f.combat = c.combat}}
Tell(c) ==
    /\ c.at \in {"done", "nothing"}
    /\ past' = [past EXCEPT !.told = @ \cup Hinted(c)]
    /\ Moves(c, [c EXCEPT !.at = IF @ = "done" THEN "told" ELSE "nothing told"])
    /\ UNCHANGED <<table, events, screens>>

(* ... or the reading fails: nothing is told, the call answers an error.   *)
FinishFails(c) ==
    /\ c.at \in {"done", "nothing"}
    /\ Fails(c)
    /\ UNCHANGED <<table, events, past>>

(* The answer arrives: the key is forgotten, the next tap is new.  One that*)
(* nobody waits for any more is lost.                                      *)
Answer(c) ==
    LET heard == screens[c.by].waits = c.id
    IN  /\ c.at \in {"told", "nothing told"}
        /\ calls' = calls \ {c}
        /\ screens' = IF heard THEN [screens EXCEPT ![c.by].waits = None, ![c.by].sending[c.change] = None]
                      ELSE screens
        /\ past' = IF heard /\ c.at = "told"
                   THEN [past EXCEPT !.answered = @ \cup {c.made}] ELSE past
        /\ UNCHANGED <<table, events>>

(* A restart: the calls die wherever they are.                             *)
Crash ==
    /\ past.crashes < MaxCrashes /\ calls # {}
    /\ calls' = {}
    /\ past' = [past EXCEPT !.crashes = @ + 1]
    /\ UNCHANGED <<table, events, screens>>

(* Mutant: the session ends over its combat. *)
EndSessionOnly ==
    /\ table.open
    /\ table' = [table EXCEPT !.open = FALSE]
    /\ UNCHANGED <<events, calls, screens, past>>

(* EndGameSession closes its combat; StartGameSession opens the next.      *)
EndSession ==
    /\ table.open
    /\ table' = [table EXCEPT !.open = FALSE, !.combat = None]
    /\ UNCHANGED <<events, calls, screens, past>>

StartSession ==
    /\ ~table.open /\ table.session < MaxSessions
    /\ table' = [table EXCEPT !.open = TRUE, !.session = @ + 1]
    /\ UNCHANGED <<events, calls, screens, past>>

------------------------------------------------------------------------------
(* A session with no combat yet, or with one that runs.                    *)
Init ==
    /\ \E combat \in {None, 1} :
        table = [session |-> 1, open |-> TRUE, combat |-> combat, revision |-> 1]
    /\ events = {} /\ calls = {}
    /\ screens = [s \in Screens |-> [waits |-> None, sending |-> [v \in Changes |-> None]]]
    /\ past = [taps |-> 0, sends |-> 0, crashes |-> 0, told |-> {}, answered |-> {}, aborted |-> {}]

People == \E s \in Screens : GiveUp(s) \/ \E v \in Changes : Tap(s, v)

Server == \E c \in calls :
    \/ ReadSight(c) \/ Refused(c) \/ Replay(c) \/ SightIsStale(c)
    \/ Apply(c) \/ ApplyUnknown(c) \/ NothingToDo(c)
    \/ Tell(c) \/ FinishFails(c) \/ Answer(c)

Next == People \/ Server \/ Crash \/ EndSession \/ StartSession

Spec == Init /\ [][Next]_vars

------------------------------------------------------------------------------
(* Properties. *)

OrNone(S) == S \cup {None}

(* The type of the state; no combat runs outside an open session.          *)
TypeOK ==
    /\ table \in [session : 1..MaxSessions, open : BOOLEAN, combat : OrNone(Nat), revision : Nat]
    /\ ~table.open => table.combat = None
    /\ events \subseteq [session : 1..MaxSessions, key : Nat, by : Screens, change : Changes,
                         tap : 1..MaxTaps, combat : Nat, sight : OrNone(Nat), revision : Nat]
    /\ calls \subseteq [id : Nat, by : Screens, change : Changes, key : Nat, tap : 1..MaxTaps,
                        at : {"sent", "reading", "ready", "done", "nothing", "told", "nothing told"},
                        combat : OrNone(Nat), rev : OrNone(Nat), sight : OrNone(Nat),
                        try : Nat, first : Nat, made : OrNone(Nat)]
    /\ screens \in [Screens -> [waits : OrNone(Nat),
                                sending : [Changes -> OrNone([key : Nat, tap : 1..MaxTaps, combat : OrNone(Nat)])]]]
    /\ past \in [taps : 0..MaxTaps, sends : Nat, crashes : Nat, told : SUBSET Nat,
                 answered : SUBSET Nat, aborted : SUBSET Int]

(* What an event did, in the words of ChangesOnce.  A start tried again in *)
(* the next session is a start of that session.                            *)
Wish(e) == [tap |-> e.tap, session |-> IF e.change = "start" THEN e.session ELSE None]

Promise == INSTANCE ChangesOnce WITH
    Wishes <- [tap : 1..MaxTaps, session : 1..MaxSessions \cup {None}],
    last <- table.revision,
    made <- {[wish |-> Wish(e), at |-> e.revision] : e \in events},
    told <- past.told,
    heard <- past.answered

(* The protocol of keys, locks, retries and replays implements ChangesOnce.*)
KeepsThePromise == Promise!Spec

(* A thing somebody wants done is done at most once, however many calls    *)
(* carried it, whatever was lost and whichever of them commits first.      *)
(* (A start tried again in the next session is a start of that session.)   *)
AppliedOnce ==
    \A e, f \in events : e.tap = f.tap =>
        \/ e = f
        \/ e.change = "start" /\ e.session # f.session

(* A change that was answered as done was told to the streams after it was *)
(* saved, by the call that saved it or by the retry that found the first   *)
(* call had died before telling.                                           *)
AnsweredWasTold == past.answered \subseteq past.told

(* With the fog, no change is made on what the players saw before another  *)
(* change: what was seen shows the revision the change follows, although   *)
(* it was read in a read of its own, before the lock and beside changes of *)
(* others, and only the revision read before it is compared.               *)
SightIsOfTheChange ==
    Fogged => \A e \in events : e.change = "act" => e.sight = e.revision - 1

(* A change is given up for a sight that went stale only when others really*)
(* kept changing the combat: one change for every try.                     *)
GivenUpAmongChanges == \A n \in past.aborted : n >= MaxSightTries
=============================================================================
