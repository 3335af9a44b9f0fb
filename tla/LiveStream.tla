----------------------------- MODULE LiveStream -----------------------------
(***************************************************************************)
(* The live stream of a session, for the pages one person has open         *)
(* (play/live/hub.go, WatchGameSession in play/live.go, and the page's     *)
(* web/src/app/core/play/live-stream.ts): the hub queues events for each   *)
(* subscription without waiting, the server's stream forwards them and     *)
(* ends on its own, and the page reconnects, pauses while it is hidden     *)
(* and reads everything again at each `ready`; other news is a hint to     *)
(* read one panel again.  Heartbeats only keep the page's dead-stream      *)
(* timer from firing, and are not messages here.                           *)
(***************************************************************************)
EXTENDS Integers, Sequences, FiniteSets, SequencesExt

CONSTANTS
    Tabs,         \* the pages the person has open
    MaxPerUser,   \* Hub.maxPerUser
    Buffer,       \* Hub.buffer
    Window,       \* bound: messages under way to a page before Send waits
    MaxStreams,   \* bound: streams the server runs at a time
    MaxChanges,   \* bound: changes of what the page shows
    MaxEnds,      \* bound: sessions that end
    MaxTrouble,   \* bound: dropped connections, failed reads, restarts, hidings
    None          \* no event in hand

ASSUME StreamBounds ==
    /\ {MaxPerUser, Buffer, Window, MaxStreams} \subseteq Nat \ {0}
    /\ {MaxChanges, MaxEnds, MaxTrouble} \subseteq Nat

VARIABLES
    world,    \* the campaign's session and what changed in it so far
    due,      \* events of committed changes that are not published yet
    streams,  \* the server's streams in the order they subscribed, the oldest first
    tabs,     \* the pages
    trouble   \* history: how much went wrong

vars == <<world, due, streams, tabs, trouble>>

Ended(session) == [kind |-> "ended", of |-> session]

------------------------------------------------------------------------------
(* The hub. *)

(* Hub.remove: no event is queued any more; those queued are still read.   *)
Removed(st) == [st EXCEPT !.sub = FALSE]

(* Hub.deliver: a hint that waits in the queue will do for this one too; a *)
(* full buffer drops the subscription (ErrSlow).                           *)
Delivered(st, e) ==
    IF ~st.sub \/ (e.kind = "hint" /\ st.pending) THEN st
    ELSE IF Len(st.queue) = Buffer THEN Removed(st)
    ELSE [st EXCEPT !.queue = Append(@, e), !.pending = @ \/ e.kind = "hint"]

(* Hub.Publish, after the commit and under no lock with it.                *)
Publish(e) ==
    /\ due' = due \ {e}
    /\ streams' = [i \in DOMAIN streams |-> Delivered(streams[i], e)]
    /\ UNCHANGED <<world, tabs, trouble>>

(* The person's subscriptions, all for this campaign.                      *)
Held == {i \in DOMAIN streams : streams[i].sub}
Oldest == CHOOSE i \in Held : \A j \in Held : i <= j

------------------------------------------------------------------------------
(* The server's stream. *)

(* One more message on its way, if the page still reads.                   *)
Sent(st, m) == IF st.heard THEN [st EXCEPT !.wire = Append(@, m)] ELSE st
(* The call ends, with a last message the page may still read.             *)
Over(st, m) ==
    [Sent(st, m) EXCEPT !.at = "over", !.sub = FALSE, !.queue = <<>>, !.pending = FALSE, !.hand = None]
(* An ended call that nobody reads is gone.                                *)
Gone(st) == st.at = "over" /\ ~st.heard
With(i, st) == IF Gone(st) THEN RemoveAt(streams, i) ELSE [streams EXCEPT ![i] = st]
SetStream(i, st) ==
    /\ streams' = With(i, st)
    /\ UNCHANGED <<world, due, tabs, trouble>>

(* Mutant: one more than the cap. *)
JoinedPastTheCap(i) ==
    LET room == IF Cardinality(Held) > MaxPerUser
                THEN [streams EXCEPT ![Oldest] = Removed(@)] ELSE streams
    IN  Append(RemoveAt(room, i), [streams[i] EXCEPT !.at = "subscribed", !.sub = TRUE])

(* The call arrives and joins the hub as the newest subscription; past the *)
(* cap, the oldest ends (ErrReplaced).                                     *)
Joined(i) ==
    LET room == IF Cardinality(Held) >= MaxPerUser
                THEN [streams EXCEPT ![Oldest] = Removed(@)] ELSE streams
    IN  Append(RemoveAt(room, i), [streams[i] EXCEPT !.at = "subscribed", !.sub = TRUE])

(* Mutant: the session is read first, and the hub joined after. *)
SubscribeAfter(i) ==
    \/ /\ streams[i].at = "called" /\ streams[i].session = 0 /\ world.open
       /\ SetStream(i, [streams[i] EXCEPT !.session = world.session])
    \/ /\ streams[i].at = "called" /\ streams[i].session # 0
       /\ SetStream(i, Sent([streams[i] EXCEPT !.at = "waits", !.sub = TRUE], [kind |-> "ready"]))

Subscribe(i) ==
    /\ streams[i].at = "called"
    /\ streams' = Joined(i)
    /\ UNCHANGED <<world, due, tabs, trouble>>

(* The open session is read, after subscribing, and `ready` sent.          *)
ReadSession(i) ==
    /\ streams[i].at = "subscribed"
    /\ SetStream(i, IF world.open
                    THEN Sent([streams[i] EXCEPT !.at = "waits", !.session = world.session], [kind |-> "ready"])
                    ELSE Over(streams[i], [kind |-> "no session"]))

(* watchLoop: an event is received from the queue, ...                     *)
Receive(i) ==
    LET st == streams[i]
    IN  /\ st.at = "waits" /\ st.queue # <<>>
        /\ SetStream(i, [st EXCEPT !.at = "received", !.hand = Head(st.queue), !.queue = Tail(@)])

(* Mutant: the hub is not told. *)
TakenQuietly(i) ==
    /\ streams[i].at = "received"
    /\ SetStream(i, [streams[i] EXCEPT !.at = "taken"])

(* ... Taken: the next hint is queued again, ...                           *)
Taken(i) ==
    LET st == streams[i]
    IN  /\ st.at = "received"
        /\ SetStream(i, [st EXCEPT !.at = "taken", !.pending = @ /\ st.hand.kind # "hint"])

(* ... and sent, unless it is the end of another session of the campaign;  *)
(* the end of its own ends the stream.                                     *)
Forward(i) ==
    LET st == streams[i]
        empty == [st EXCEPT !.at = "waits", !.hand = None]
    IN  /\ st.at = "taken" /\ Len(st.wire) < Window
        /\ SetStream(i, IF st.hand.kind # "ended" THEN Sent(empty, st.hand)
                        ELSE IF st.hand = Ended(st.session) THEN Over(empty, st.hand)
                        ELSE empty)

(* The hub dropped the subscription; the stream's longest life; the page   *)
(* is gone and the server learned it.  The page reads an end it retries.   *)
Dropped(i) ==
    /\ streams[i].at = "waits" /\ streams[i].queue = <<>> /\ ~streams[i].sub
    /\ SetStream(i, Over(streams[i], [kind |-> "end"]))
Lifetime(i) ==
    /\ streams[i].at = "waits"
    /\ SetStream(i, Over(streams[i], [kind |-> "end"]))

(* recheckWatch: the session is not open any more.                         *)
Recheck(i) ==
    /\ streams[i].at = "waits"
    /\ ~world.open \/ world.session # streams[i].session
    /\ SetStream(i, Over(streams[i], Ended(streams[i].session)))

------------------------------------------------------------------------------
(* The page's LiveStream. *)

(* Its `controller`: the connection it reads. *)
Reads(t) == {i \in DOMAIN streams : streams[i].tab = t /\ streams[i].heard}

(* abortCurrent: what the connection, if there is one, sends is not read.  *)
Aborted(t) ==
    IF Reads(t) = {} THEN streams
    ELSE LET i == CHOOSE j \in Reads(t) : TRUE
         IN  With(i, [streams[i] EXCEPT !.heard = FALSE, !.wire = <<>>])

(* connect, called only with no connection: not while hidden.              *)
NewCall(t) == [tab |-> t, heard |-> TRUE, sub |-> FALSE, at |-> "called", session |-> 0,
               queue |-> <<>>, pending |-> FALSE, hand |-> None, wire |-> <<>>]
Connect(t, tab) ==
    IF tab.hidden
    THEN /\ tabs' = [tabs EXCEPT ![t] = [tab EXCEPT !.status = "paused", !.retry = FALSE]]
         /\ UNCHANGED streams
    ELSE /\ Len(streams) < MaxStreams
         /\ tabs' = [tabs EXCEPT ![t] = [tab EXCEPT !.retry = FALSE]]
         /\ streams' = Append(streams, NewCall(t))

(* scheduleReconnect: after the backoff, and only while visible.           *)
Rescheduled(tab) ==
    IF tab.hidden THEN [tab EXCEPT !.status = "paused"]
    ELSE [tab EXCEPT !.status = "reconnecting", !.retry = TRUE]

(* stop: over for good.                                                    *)
Stopped(tab) == [tab EXCEPT !.status = "closed", !.retry = FALSE, !.leaving = FALSE, !.asks = {}]

Start(t) ==
    /\ tabs[t].status = "new"
    /\ Connect(t, [tabs[t] EXCEPT !.status = "connecting"])
    /\ UNCHANGED <<world, due, trouble>>

Retry(t) ==
    /\ tabs[t].retry
    /\ Connect(t, tabs[t])
    /\ UNCHANGED <<world, due, trouble>>

(* Mutant: every failure is tried again. *)
FailedAlways(tab, m) == Rescheduled(tab)

(* failed, and the end with no error: an end is tried again, "no session"  *)
(* is final.                                                               *)
Failed(tab, m) == IF m.kind = "no session" THEN Stopped(tab) ELSE Rescheduled(tab)

(* What the page has to read, and has read.                                *)
Asking(tab, what) == [tab EXCEPT !.asks = @ \cup {what}]
Answered(tab, what) == [tab EXCEPT !.asks = @ \ {what}]

(* receive: `ready` makes the page read the snapshot, and a hint the panel *)
(* it is about; the end closes the page.                                   *)
Hear(t) == \E i \in Reads(t) :
    LET m == Head(streams[i].wire)
        goesOn == m.kind \in {"ready", "hint"}
    IN  /\ streams[i].wire # <<>>
        /\ streams' = IF goesOn THEN [streams EXCEPT ![i].wire = Tail(@)] ELSE Aborted(t)
        /\ tabs' = [tabs EXCEPT ![t] =
                IF m.kind = "ready" THEN Asking([@ EXCEPT !.status = "live"], "snapshot")
                ELSE IF goesOn THEN Asking(@, "panel")
                ELSE IF m.kind = "ended" THEN Stopped(@)
                ELSE Failed(@, m)]
        /\ UNCHANGED <<world, due, trouble>>

(* readSnapshot: every panel is read after it; with no session the page is *)
(* over.                                                                   *)
ReadSnapshot(t) ==
    /\ "snapshot" \in tabs[t].asks
    /\ IF world.open
       THEN tabs' = [tabs EXCEPT ![t].asks = {"panel"}] /\ UNCHANGED streams
       ELSE tabs' = [tabs EXCEPT ![t] = Stopped(@)] /\ streams' = Aborted(t)
    /\ UNCHANGED <<world, due, trouble>>

(* The panel is read.                                                      *)
ReadPanel(t) ==
    /\ "panel" \in tabs[t].asks
    /\ tabs' = [tabs EXCEPT ![t] = [Answered(@, "panel") EXCEPT !.seen = world.version, !.missed = FALSE]]
    /\ UNCHANGED <<world, due, streams, trouble>>

(* The connection is cut, or nothing came for 60 s (deadTimer).            *)
Cut(t) ==
    /\ trouble < MaxTrouble /\ Reads(t) # {}
    /\ trouble' = trouble + 1
    /\ streams' = Aborted(t)
    /\ tabs' = [tabs EXCEPT ![t] = Rescheduled(@)]
    /\ UNCHANGED <<world, due>>

(* snapshotFailed: restart, and the next `ready` reads it.                 *)
SnapshotFails(t) ==
    /\ trouble < MaxTrouble /\ "snapshot" \in tabs[t].asks
    /\ trouble' = trouble + 1
    /\ streams' = Aborted(t)
    /\ tabs' = [tabs EXCEPT ![t] = Rescheduled(Answered(@, "snapshot"))]
    /\ UNCHANGED <<world, due>>

(* The panel's read fails: it keeps what it shows until the next one, and  *)
(* nothing asks for that (`missed` is history, for the property).          *)
PanelFails(t) ==
    /\ trouble < MaxTrouble /\ "panel" \in tabs[t].asks
    /\ trouble' = trouble + 1
    /\ tabs' = [tabs EXCEPT ![t] = [Answered(@, "panel") EXCEPT !.missed = TRUE]]
    /\ UNCHANGED <<world, due, streams>>

(* visibilityChanged.  A hidden page keeps its stream for two minutes.     *)
Hide(t) ==
    /\ trouble < MaxTrouble /\ ~tabs[t].hidden /\ tabs[t].status # "closed"
    /\ trouble' = trouble + 1
    /\ tabs' = [tabs EXCEPT ![t].hidden = TRUE, ![t].leaving = tabs[t].status # "new"]
    /\ UNCHANGED <<world, due, streams>>

(* Mutant: the stream is closed and the page not marked as paused. *)
CloseHidden(t) ==
    /\ tabs[t].leaving
    /\ streams' = Aborted(t)
    /\ tabs' = [tabs EXCEPT ![t] = [@ EXCEPT !.leaving = FALSE, !.retry = FALSE]]
    /\ UNCHANGED <<world, due, trouble>>

HiddenClose(t) ==
    /\ tabs[t].leaving
    /\ streams' = Aborted(t)
    /\ tabs' = [tabs EXCEPT ![t] = [@ EXCEPT !.leaving = FALSE, !.retry = FALSE, !.status = "paused"]]
    /\ UNCHANGED <<world, due, trouble>>

Show(t) ==
    LET tab == [tabs[t] EXCEPT !.hidden = FALSE, !.leaving = FALSE]
    IN  /\ tabs[t].hidden
        /\ IF tab.status = "paused"
           THEN Connect(t, [tab EXCEPT !.status = "reconnecting"])
           ELSE tabs' = [tabs EXCEPT ![t] = tab] /\ UNCHANGED streams
        /\ UNCHANGED <<world, due, trouble>>

------------------------------------------------------------------------------
(* The campaign. *)

(* A change of what the page shows, told by a hint that coalesces.  (Other *)
(* events are queued as the end is.)                                       *)
Change ==
    /\ world.open /\ world.version < MaxChanges
    /\ world' = [world EXCEPT !.version = @ + 1]
    /\ due' = due \cup {[kind |-> "hint", of |-> world.version + 1]}
    /\ UNCHANGED <<streams, tabs, trouble>>

EndGameSession ==
    /\ world.open /\ world.session <= MaxEnds
    /\ world' = [world EXCEPT !.open = FALSE]
    /\ due' = due \cup {Ended(world.session)}
    /\ UNCHANGED <<streams, tabs, trouble>>

StartGameSession ==
    /\ ~world.open
    /\ world' = [world EXCEPT !.open = TRUE, !.session = @ + 1]
    /\ UNCHANGED <<due, streams, tabs, trouble>>

(* The server restarts: what was not published never is, every call ends   *)
(* (in no order: none is subscribed any more).                             *)
Restart ==
    /\ trouble < MaxTrouble
    /\ trouble' = trouble + 1
    /\ due' = {}
    /\ streams' = SetToSeq({Over([st EXCEPT !.wire = <<>>], [kind |-> "end"]) : st \in {s \in ToSet(streams) : s.heard}})
    /\ UNCHANGED <<world, tabs>>

------------------------------------------------------------------------------
Init ==
    /\ world = [session |-> 1, open |-> TRUE, version |-> 0]
    /\ due = {} /\ streams = <<>> /\ trouble = 0
    /\ tabs \in [Tabs -> [status : {"new"}, retry : {FALSE}, hidden : BOOLEAN, leaving : {FALSE},
                          asks : {{}}, missed : {FALSE}, seen : {0}]]

StreamSteps(i) ==
    \/ Subscribe(i) \/ ReadSession(i) \/ Receive(i) \/ Taken(i) \/ Forward(i)
    \/ Dropped(i)

Page(t) ==
    \/ Start(t) \/ Retry(t) \/ Hear(t) \/ ReadSnapshot(t) \/ ReadPanel(t)
    \/ Cut(t) \/ SnapshotFails(t) \/ PanelFails(t)
    \/ Hide(t) \/ HiddenClose(t) \/ Show(t)

(* Bound: nothing more happens once every page is closed.                  *)
Campaign ==
    \/ /\ \E t \in Tabs : tabs[t].status # "closed"
       /\ Change \/ EndGameSession \/ StartGameSession \/ Restart
    \/ \E e \in due : Publish(e)

Next ==
    \/ \E i \in DOMAIN streams : StreamSteps(i) \/ Lifetime(i) \/ Recheck(i)
    \/ \E t \in Tabs : Page(t)
    \/ Campaign

(* Streams are goroutines, which run; what was committed is published; the *)
(* backoff's timer fires, messages arrive and reads answer.                *)
StepOf(t) == \E i \in DOMAIN streams : streams[i].tab = t /\ StreamSteps(i)
Fairness ==
    /\ WF_vars(\E e \in due : Publish(e))
    /\ \A t \in Tabs :
        /\ WF_vars(StepOf(t)) /\ WF_vars(Start(t) \/ Retry(t))
        /\ WF_vars(Hear(t)) /\ WF_vars(ReadSnapshot(t)) /\ WF_vars(ReadPanel(t))

Spec == Init /\ [][Next]_vars /\ Fairness

------------------------------------------------------------------------------
(* Properties. *)

Events == [kind : {"hint"}, of : 1..MaxChanges] \cup [kind : {"ended"}, of : 1..MaxEnds]
Messages == Events \cup [kind : {"ready", "no session", "end"}]

(* The type of the state, the cap of a person's subscriptions with it: a   *)
(* stream that is over holds none, a page reads one connection at most and *)
(* a closed or paused page none.                                           *)
TypeOK ==
    /\ world \in [session : 1..(MaxEnds + 1), open : BOOLEAN, version : 0..MaxChanges]
    /\ due \subseteq Events
    /\ \A i \in DOMAIN streams :
        LET st == streams[i]
        IN  /\ st.tab \in Tabs /\ st.session \in 0..(MaxEnds + 1) /\ {st.heard, st.sub, st.pending} \subseteq BOOLEAN
            /\ st.at \in {"called", "subscribed", "waits", "received", "taken", "over"}
            /\ Len(st.queue) <= Buffer /\ ToSet(st.queue) \subseteq Events
            /\ st.hand \in Events \cup {None} /\ ToSet(st.wire) \subseteq Messages
            /\ st.at = "over" => ~st.sub
    /\ Cardinality(Held) <= MaxPerUser
    /\ tabs \in [Tabs -> [status : {"new", "connecting", "live", "reconnecting", "paused", "closed"},
                          retry : BOOLEAN, hidden : BOOLEAN, leaving : BOOLEAN,
                          asks : SUBSET {"snapshot", "panel"}, missed : BOOLEAN, seen : 0..MaxChanges]]
    /\ \A t \in Tabs :
        /\ Cardinality(Reads(t)) <= 1
        /\ tabs[t].status \in {"new", "paused", "closed"} => Reads(t) = {} /\ (tabs[t].asks # {} => tabs[t].status = "paused")
    /\ trouble \in 0..MaxTrouble

(* The stream i reads is idle: nothing is queued, in hand or on its way.   *)
Idle(i) ==
    /\ streams[i].at = "waits" /\ streams[i].sub
    /\ streams[i].queue = <<>> /\ streams[i].wire = <<>>

(* However many hints stood for one, a live page at rest shows the latest: *)
(* no change falls between the snapshot of `ready`, the queue and a hint   *)
(* that was already on its way when the next one was left out.  The one    *)
(* exception is a panel whose last read failed (`missed`): it waits for    *)
(* the next hint or the next `ready`.                                      *)
QuietPageIsFresh ==
    due = {} => \A t \in Tabs : \A i \in Reads(t) :
        tabs[t].status = "live" /\ tabs[t].asks = {} /\ ~tabs[t].missed /\ Idle(i) => tabs[t].seen = world.version

(* A session that ended without its stream hearing about it "cannot happen *)
(* with one server": once the end is published, every stream of that       *)
(* session that is still subscribed has it in its queue or its hand.       *)
EndIsHeard ==
    \A i \in Held : LET st == streams[i] IN
        /\ st.at \in {"waits", "received", "taken"}
        /\ ~world.open \/ world.session # st.session
        /\ Ended(st.session) \notin due
        => st.hand = Ended(st.session) \/ Ended(st.session) \in ToSet(st.queue)

Away(t) == tabs[t].hidden \/ tabs[t].status = "closed"

(* A page somebody looks at is again and again live on a connection of its *)
(* own, whatever dropped it, hid it or failed, or closed for good.         *)
AgainLive == \A t \in Tabs : []<>(Away(t) \/ (tabs[t].status = "live" /\ Reads(t) # {}))

(* When the session is over a page in view closes, or the next session     *)
(* begins: none reconnects for ever to a session that is gone.             *)
EndIsKnown == \A t \in Tabs : ~world.open ~> (world.open \/ Away(t))
=============================================================================
