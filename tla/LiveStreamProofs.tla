-------------------------- MODULE LiveStreamProofs --------------------------
(* Theorems about LiveStream: its types with the cap of the hub, that the  *)
(* end of a session reaches its streams, and that a page at rest is fresh. *)
EXTENDS LiveStream, FiniteSetTheorems, TLAPS

Streaming == {"waits", "received", "taken"}

StreamType ==
    [tab : Tabs, heard : BOOLEAN, sub : BOOLEAN,
     at : {"called", "subscribed", "waits", "received", "taken", "over"}, session : 0..(MaxEnds + 1),
     queue : Seq(Events), pending : BOOLEAN, hand : Events \cup {None}, wire : Seq(Messages)]

PageType ==
    [status : {"new", "connecting", "live", "reconnecting", "paused", "closed"},
     retry : BOOLEAN, hidden : BOOLEAN, leaving : BOOLEAN,
     asks : SUBSET {"snapshot", "panel"}, missed : BOOLEAN, seen : 0..MaxChanges]

(* The invariant speaks of any function `g` of streams, so that a step can *)
(* be told before the streams that are gone are taken out.                 *)

HasHint(es) == \E k \in DOMAIN es : es[k].kind = "hint"

(* A hint, or a `ready`, that the page has not read yet.                   *)
HintComes(st) ==
    \/ HasHint(st.queue)
    \/ st.at \in {"received", "taken"} /\ st.hand.kind = "hint"
    \/ \E k \in DOMAIN st.wire : st.wire[k].kind \in {"ready", "hint"}

EndComes(st) ==
    \/ st.at # "waits" /\ st.hand = Ended(st.session)
    \/ \E k \in DOMAIN st.queue : st.queue[k] = Ended(st.session)

(* A stream that runs reads a session there was, holds an event when it has*)
(* received one, and knows of the end unless the end is still to be told;  *)
(* `pending` stands for a hint that is queued or was just received.        *)
Sane(w, d, st) ==
    /\ st \in StreamType /\ Len(st.queue) <= Buffer
    /\ st.at \in {"over", "called"} => ~st.sub /\ ~st.pending
    /\ st.at \in Streaming => st.session \in 1..w.session
    /\ st.at \in {"received", "taken"} => st.hand \in Events
    /\ /\ st.sub /\ st.at \in Streaming
       /\ ~w.open \/ w.session # st.session
       /\ Ended(st.session) \notin d
       => EndComes(st)
    /\ st.sub /\ st.pending => HasHint(st.queue) \/ (st.at = "received" /\ st.hand.kind = "hint")

(* What the page of a stream does not show yet, it will be told to read,   *)
(* is reading, or asked for in the last read, which failed.                *)
Fresh(w, d, st, tab) ==
    st.heard /\ st.sub /\ st.at \in Streaming =>
        \/ tab.seen = w.version
        \/ tab.asks # {}
        \/ tab.missed
        \/ \E e \in d : e.kind = "hint"
        \/ HintComes(st)

HeldIn(g) == {i \in DOMAIN g : g[i].sub}

(* A page reads one connection at most, ...                                *)
OneReader(g) ==
    \A i, j \in DOMAIN g : g[i].heard /\ g[j].heard /\ g[i].tab = g[j].tab => i = j

Alone(g, t) == \A i \in DOMAIN g : g[i].tab = t => ~g[i].heard

(* ... and none when it is closed, paused or waits for its backoff.        *)
PageKnows(g, t, tab) ==
    /\ tab.retry \/ tab.status \in {"new", "paused", "closed"} => Alone(g, t)
    /\ tab.status = "paused" \/ tab.leaving => tab.hidden
    /\ tab.status \in {"new", "closed"} => ~tab.retry /\ ~tab.leaving /\ tab.asks = {}

Worlds ==
    {w \in [session : 1..(MaxEnds + 1), open : BOOLEAN, version : 0..MaxChanges] :
        ~w.open => w.session <= MaxEnds}

UnderTheCap(g) == IsFiniteSet(HeldIn(g)) /\ Cardinality(HeldIn(g)) <= MaxPerUser

Kept(w, d, g, tb) ==
    /\ w \in Worlds /\ d \subseteq Events /\ tb \in [Tabs -> PageType]
    /\ \A i \in DOMAIN g : Sane(w, d, g[i])
    /\ \A i \in DOMAIN g : Fresh(w, d, g[i], tb[g[i].tab])
    /\ UnderTheCap(g)
    /\ OneReader(g)
    /\ \A t \in Tabs : PageKnows(g, t, tb[t])

Inv ==
    /\ streams \in Seq(StreamType)
    /\ Kept(world, due, streams, tabs)
    /\ trouble \in 0..MaxTrouble

------------------------------------------------------------------------------
(* Streams that move.                                                      *)

(* ss are some of the streams of g, each once, in any order.               *)
SomeOf(ss, g) ==
    /\ ss \in Seq(StreamType)
    /\ \E f \in [DOMAIN ss -> DOMAIN g] :
        /\ \A j, k \in DOMAIN ss : f[j] = f[k] => j = k
        /\ \A j \in DOMAIN ss : ss[j] = g[f[j]]

(* Whatever is kept of all of them is kept of some.                        *)
LEMMA SomeAreKept ==
  ASSUME NEW w, NEW d, NEW tb, NEW g, NEW ss, Kept(w, d, g, tb), SomeOf(ss, g)
  PROVE  Kept(w, d, ss, tb)
<1>1. PICK f \in [DOMAIN ss -> DOMAIN g] :
        /\ \A j, k \in DOMAIN ss : f[j] = f[k] => j = k
        /\ \A j \in DOMAIN ss : ss[j] = g[f[j]]
  BY DEF SomeOf
<1>2. \A j \in DOMAIN ss : f[j] \in DOMAIN g /\ ss[j] = g[f[j]]
  BY <1>1
<1>3. \A j \in DOMAIN ss : Sane(w, d, ss[j]) /\ Fresh(w, d, ss[j], tb[ss[j].tab])
  BY <1>2 DEF Kept
<1>4. OneReader(ss)
  BY <1>1, <1>2 DEF Kept, OneReader
<1>5. \A t \in Tabs : PageKnows(ss, t, tb[t])
  <2>1. \A t \in Tabs : Alone(g, t) => Alone(ss, t)
    BY <1>2 DEF Alone
  <2> QED BY <2>1 DEF Kept, PageKnows
<1>6. UnderTheCap(ss)
  <2> DEFINE h == [j \in HeldIn(ss) |-> f[j]]
  <2>1. h \in [HeldIn(ss) -> HeldIn(g)]
    BY <1>2 DEF HeldIn
  <2>2. IsInjective(h)
    BY <1>1 DEF IsInjective, HeldIn
  <2>3. h \in Injection(HeldIn(ss), HeldIn(g))
    BY <2>1, <2>2 DEF Injection
  <2>4. IsFiniteSet(HeldIn(g)) /\ Cardinality(HeldIn(g)) <= MaxPerUser
    BY DEF Kept, UnderTheCap
  <2> HIDE DEF h
  <2>5. IsFiniteSet(HeldIn(ss)) /\ Cardinality(HeldIn(ss)) <= Cardinality(HeldIn(g))
    BY <2>3, <2>4, FS_Injection
  <2>6. Cardinality(HeldIn(ss)) \in Nat /\ Cardinality(HeldIn(g)) \in Nat /\ MaxPerUser \in Nat
    BY <2>4, <2>5, FS_CardinalityType, StreamBounds
  <2> QED BY <2>4, <2>5, <2>6 DEF UnderTheCap
<1> QED BY <1>3, <1>4, <1>5, <1>6 DEF Kept

(* A sequence without its i-th element.                                    *)
LEMMA RemovedOne ==
  ASSUME NEW S, NEW s \in Seq(S), NEW i \in DOMAIN s
  PROVE  /\ RemoveAt(s, i) \in Seq(S)
         /\ DOMAIN RemoveAt(s, i) = 1..(Len(s) - 1)
         /\ \A j \in 1..(Len(s) - 1) : RemoveAt(s, i)[j] = s[IF j < i THEN j ELSE j + 1]
<1>1. i \in 1..Len(s) /\ Len(s) \in Nat
  OBVIOUS
<1> DEFINE a == SubSeq(s, 1, i - 1)
           b == SubSeq(s, i + 1, Len(s))
<1>2. a \in Seq(S) /\ Len(a) = i - 1 /\ \A j \in 1..(i - 1) : a[j] = s[j]
  BY <1>1
<1>3. b \in Seq(S) /\ Len(b) = Len(s) - i /\ \A j \in 1..(Len(s) - i) : b[j] = s[j + i]
  BY <1>1
<1>4. RemoveAt(s, i) = a \o b
  BY DEF RemoveAt
<1> HIDE DEF a, b
<1>5. a \o b \in Seq(S) /\ Len(a \o b) = Len(s) - 1
  BY <1>1, <1>2, <1>3
<1>6. ASSUME NEW j \in 1..(Len(s) - 1)
      PROVE  (a \o b)[j] = s[IF j < i THEN j ELSE j + 1]
  <2>1. CASE j < i
    BY <1>1, <1>2, <1>3, <2>1
  <2>2. CASE ~(j < i)
    <3>1. j - (i - 1) \in 1..(Len(s) - i) /\ j \in Nat /\ i \in Nat
      BY <1>1, <2>2
    <3>2. j > Len(a) /\ j \in 1..(Len(a) + Len(b))
      BY <1>1, <1>2, <1>3, <2>2
    <3>3. (a \o b)[j] = b[j - Len(a)]
      <4>1. Len(a) \in Nat /\ Len(b) \in Nat /\ ~(j <= Len(a)) /\ j \in Int
        BY <1>2, <1>3, <3>1, <3>2
      <4> QED BY <1>2, <1>3, <3>2, <4>1, SMTT(30)
    <3>4. b[j - (i - 1)] = s[(j - (i - 1)) + i] /\ (j - (i - 1)) + i = j + 1
      BY <1>1, <1>3, <3>1
    <3> QED BY <1>2, <2>2, <3>3, <3>4
  <2> QED BY <2>1, <2>2
<1> QED BY <1>1, <1>4, <1>5, <1>6

(* What `With` leaves are streams of the table with one changed.           *)
LEMMA WithIsSome ==
  ASSUME streams \in Seq(StreamType), NEW i \in DOMAIN streams, NEW st \in StreamType
  PROVE  SomeOf(With(i, st), [streams EXCEPT ![i] = st])
<1> DEFINE g == [streams EXCEPT ![i] = st]
<1>1. CASE ~Gone(st)
  <2>1. With(i, st) = g /\ g \in Seq(StreamType)
    BY <1>1 DEF With
  <2> HIDE DEF g
  <2>2. [j \in DOMAIN g |-> j] \in [DOMAIN g -> DOMAIN g]
    OBVIOUS
  <2> QED BY <2>1, <2>2 DEF SomeOf, g
<1>2. CASE Gone(st)
  <2> DEFINE r == RemoveAt(streams, i)
             f == [j \in DOMAIN r |-> IF j < i THEN j ELSE j + 1]
  <2>1. With(i, st) = r
    BY <1>2 DEF With
  <2>2. r \in Seq(StreamType) /\ DOMAIN r = 1..(Len(streams) - 1)
    BY RemovedOne
  <2>3. \A j \in DOMAIN r : r[j] = streams[IF j < i THEN j ELSE j + 1]
    BY <2>2, RemovedOne
  <2>4. DOMAIN g = 1..Len(streams) /\ i \in 1..Len(streams) /\ Len(streams) \in Nat
    OBVIOUS
  <2> HIDE DEF r
  <2>5. f \in [DOMAIN r -> DOMAIN g]
    BY <2>2, <2>4
  <2>6. \A j, k \in DOMAIN r : f[j] = f[k] => j = k
    BY <2>2, <2>4
  <2>7. \A j \in DOMAIN r : f[j] # i /\ r[j] = streams[f[j]]
    BY <2>2, <2>3, <2>4
  <2>8. \A j \in DOMAIN r : r[j] = g[f[j]]
    BY <2>5, <2>7
  <2> HIDE DEF f, g
  <2>9. SomeOf(r, g)
    BY <2>2, <2>5, <2>6, <2>8 DEF SomeOf
  <2> QED BY <2>1, <2>9 DEF g
<1> QED BY <1>1, <1>2

(* With no subscription more the cap is kept.                              *)
LEMMA FewerHeld ==
  ASSUME NEW g, NEW h, UnderTheCap(g), DOMAIN h = DOMAIN g,
         \A j \in DOMAIN h : h[j].sub => g[j].sub
  PROVE  UnderTheCap(h)
<1>1. HeldIn(h) \in SUBSET HeldIn(g)
  BY DEF HeldIn
<1>2. IsFiniteSet(HeldIn(g)) /\ Cardinality(HeldIn(g)) <= MaxPerUser
  BY DEF UnderTheCap
<1>3. IsFiniteSet(HeldIn(h)) /\ Cardinality(HeldIn(h)) <= Cardinality(HeldIn(g))
  BY <1>1, <1>2, FS_Subset
<1>4. Cardinality(HeldIn(h)) \in Nat /\ Cardinality(HeldIn(g)) \in Nat /\ MaxPerUser \in Nat
  BY <1>2, <1>3, FS_CardinalityType, StreamBounds
<1> QED BY <1>2, <1>3, <1>4 DEF UnderTheCap

(* One stream that changes, no page of another and no subscription more.   *)
LEMMA OneChanges ==
  ASSUME NEW w, NEW d, NEW tb, streams \in Seq(StreamType), Kept(w, d, streams, tb),
         NEW i \in DOMAIN streams, NEW st,
         Sane(w, d, st), Fresh(w, d, st, tb[st.tab]),
         st.tab = streams[i].tab, st.heard => streams[i].heard, st.sub => streams[i].sub
  PROVE  Kept(w, d, [streams EXCEPT ![i] = st], tb)
<1> DEFINE g == [streams EXCEPT ![i] = st]
<1>1. DOMAIN g = DOMAIN streams /\ g[i] = st /\ \A j \in DOMAIN g : j # i => g[j] = streams[j]
  OBVIOUS
<1> HIDE DEF g
<1>2. \A j \in DOMAIN g : Sane(w, d, g[j]) /\ Fresh(w, d, g[j], tb[g[j].tab])
  BY <1>1 DEF Kept
<1>3. \A j \in DOMAIN g : /\ g[j].tab = streams[j].tab
                          /\ g[j].heard => streams[j].heard
                          /\ g[j].sub => streams[j].sub
  BY <1>1
<1>4. OneReader(g) /\ \A t \in Tabs : PageKnows(g, t, tb[t])
  <2>1. OneReader(g)
    BY <1>1, <1>3 DEF Kept, OneReader
  <2>2. \A t \in Tabs : Alone(streams, t) => Alone(g, t)
    BY <1>1, <1>3 DEF Alone
  <2> QED BY <2>1, <2>2 DEF Kept, PageKnows
<1>5. UnderTheCap(g)
  BY <1>1, <1>3, FewerHeld DEF Kept
<1> QED BY <1>2, <1>4, <1>5 DEF Kept, g

(* A stream changes: it stays, or is gone and taken out of the list.       *)
LEMMA SetStreamKeeps ==
  ASSUME Inv, NEW i \in DOMAIN streams, NEW st,
         Sane(world, due, st), Fresh(world, due, st, tabs[st.tab]),
         st.tab = streams[i].tab, st.heard => streams[i].heard, st.sub => streams[i].sub,
         SetStream(i, st)
  PROVE  Inv'
<1>1. Kept(world, due, [streams EXCEPT ![i] = st], tabs)
  BY OneChanges DEF Inv
<1>2. SomeOf(With(i, st), [streams EXCEPT ![i] = st])
  BY WithIsSome DEF Inv, Sane
<1>3. Kept(world, due, With(i, st), tabs) /\ With(i, st) \in Seq(StreamType)
  BY <1>1, <1>2, SomeAreKept DEF SomeOf
<1> QED BY <1>3 DEF Inv, SetStream

------------------------------------------------------------------------------
(* The server's stream.                                                    *)

(* One more message on its way changes nothing else.                       *)
LEMMA SentType ==
  ASSUME NEW st \in StreamType, NEW m \in Messages
  PROVE  /\ Sent(st, m) \in StreamType
         /\ Sent(st, m).tab = st.tab /\ Sent(st, m).heard = st.heard /\ Sent(st, m).sub = st.sub
         /\ Sent(st, m).at = st.at /\ Sent(st, m).session = st.session /\ Sent(st, m).queue = st.queue
         /\ Sent(st, m).pending = st.pending /\ Sent(st, m).hand = st.hand
         /\ Sent(st, m).wire = IF st.heard THEN Append(st.wire, m) ELSE st.wire
<1>1. Append(st.wire, m) \in Seq(Messages)
  BY DEF StreamType
<1>2. CASE st.heard
  BY <1>1, <1>2 DEF Sent, StreamType
<1>3. CASE ~st.heard
  BY <1>3 DEF Sent
<1> QED BY <1>2, <1>3

(* A call that is over holds no subscription: nothing is asked of it.      *)
LEMMA OverIsSane ==
  ASSUME NEW st \in StreamType, NEW m \in Messages, NEW w, NEW d, NEW tab
  PROVE  /\ Sane(w, d, Over(st, m)) /\ Fresh(w, d, Over(st, m), tab)
         /\ Over(st, m).tab = st.tab /\ Over(st, m).heard = st.heard /\ ~Over(st, m).sub
<1> DEFINE x == Sent(st, m)
<1>1. x \in StreamType /\ x.tab = st.tab /\ x.heard = st.heard
  BY SentType
<1> HIDE DEF x
<1> DEFINE y == [x EXCEPT !.at = "over", !.sub = FALSE, !.queue = <<>>, !.pending = FALSE, !.hand = None]
<1>2. Over(st, m) = y
  BY DEF Over, x
<1>3. <<>> \in Seq(Events) /\ None \in Events \cup {None}
  OBVIOUS
<1>4. y \in StreamType
  BY <1>1, <1>3 DEF StreamType
<1>5. y.tab = x.tab /\ y.heard = x.heard /\ y.at = "over" /\ y.sub = FALSE /\ y.pending = FALSE
      /\ y.queue = <<>>
  BY <1>1 DEF StreamType
<1> HIDE DEF y
<1>6. Len(y.queue) <= Buffer
  BY <1>5, StreamBounds
<1> QED BY <1>1, <1>2, <1>4, <1>5, <1>6 DEF Sane, Fresh, Streaming

(* A stream that is over, with its last message or none.                   *)
LEMMA OverKeeps ==
  ASSUME Inv, NEW i \in DOMAIN streams, NEW m \in Messages, SetStream(i, Over(streams[i], m))
  PROVE  Inv'
<1> DEFINE y == Over(streams[i], m)
<1>1. streams[i] \in StreamType
  BY DEF Inv
<1>2. /\ Sane(world, due, y) /\ Fresh(world, due, y, tabs[y.tab])
      /\ y.tab = streams[i].tab /\ y.heard = streams[i].heard /\ ~y.sub
  BY <1>1, OverIsSane
<1> HIDE DEF y
<1> QED BY <1>2, SetStreamKeeps DEF y

(* Messages with no counter.                                               *)
LEMMA PlainMessages ==
  \A k \in {"ready", "no session", "end"} : [kind |-> k] \in Messages
  BY DEF Messages

(* The events are messages, an ended session among them.                   *)
LEMMA EndsAndMessages ==
  /\ Events \subseteq Messages
  /\ \A s \in 1..MaxEnds : Ended(s) \in Events
  BY DEF Messages, Events, Ended

(* The stream of a session that is over knows an end that can be told.     *)
LEMMA EndsThatWere ==
  ASSUME NEW w \in Worlds, NEW s \in 1..w.session, ~w.open \/ w.session # s
  PROVE  Ended(s) \in Events
<1>1. w.session \in 1..(MaxEnds + 1) /\ (~w.open => w.session <= MaxEnds)
  BY DEF Worlds
<1>2. s \in 1..MaxEnds
  BY <1>1, StreamBounds
<1> QED BY <1>2, EndsAndMessages

LEMMA ReadSessionKeeps ==
  ASSUME Inv, NEW i \in DOMAIN streams, ReadSession(i)
  PROVE  Inv'
<1> DEFINE st == streams[i]
<1>1. st \in StreamType /\ Sane(world, due, st) /\ world \in Worlds /\ st.at = "subscribed"
  BY DEF Inv, Kept, Sane, ReadSession
<1> HIDE DEF st
<1>2. CASE world.open
  <2> DEFINE x == [st EXCEPT !.at = "waits", !.session = world.session]
             y == Sent(x, [kind |-> "ready"])
  <2>1. x \in StreamType /\ x.at = "waits" /\ x.session = world.session /\ x.tab = st.tab
        /\ x.heard = st.heard /\ x.sub = st.sub /\ x.queue = st.queue /\ x.pending = st.pending
    <3>1. world.session \in 0..(MaxEnds + 1)
      BY <1>1, StreamBounds DEF Worlds
    <3> QED BY <1>1, <3>1 DEF StreamType
  <2> HIDE DEF x
  <2>2. /\ y \in StreamType /\ y.at = "waits" /\ y.session = world.session /\ y.tab = st.tab
        /\ y.heard = st.heard /\ y.sub = st.sub /\ y.queue = st.queue /\ y.pending = st.pending
        /\ y.wire = IF x.heard THEN Append(x.wire, [kind |-> "ready"]) ELSE x.wire
    BY <2>1, SentType, PlainMessages
  <2>3. SetStream(i, y)
    BY <1>2 DEF ReadSession, x, st
  <2> HIDE DEF y
  <2>4. Sane(world, due, y)
    <3>1. world.session \in 1..world.session
      BY <1>1 DEF Worlds
    <3>2. st.sub /\ st.pending => HasHint(st.queue)
      BY <1>1 DEF Sane
    <3>3. Len(y.queue) <= Buffer
      BY <1>1, <2>2 DEF Sane
    <3> QED BY <1>2, <2>2, <3>1, <3>2, <3>3 DEF Sane
  <2>5. y.heard => HintComes(y)
    <3> SUFFICES ASSUME y.heard PROVE HintComes(y)
      OBVIOUS
    <3>1. x.wire \in Seq(Messages) /\ y.wire = Append(x.wire, [kind |-> "ready"])
      BY <2>1, <2>2 DEF StreamType
    <3>2. Len(x.wire) + 1 \in DOMAIN y.wire /\ y.wire[Len(x.wire) + 1] = [kind |-> "ready"]
      BY <3>1
    <3> QED BY <3>2 DEF HintComes
  <2> QED BY <2>2, <2>3, <2>4, <2>5, SetStreamKeeps DEF Fresh, st
<1>3. CASE ~world.open
  <2>1. SetStream(i, Over(st, [kind |-> "no session"]))
    BY <1>3 DEF ReadSession, st
  <2>2. [kind |-> "no session"] \in Messages
    BY PlainMessages
  <2> QED BY <1>1, <2>1, <2>2, OverKeeps DEF st
<1> QED BY <1>2, <1>3

LEMMA ReceiveKeeps ==
  ASSUME Inv, NEW i \in DOMAIN streams, Receive(i)
  PROVE  Inv'
<1> DEFINE st == streams[i]
           q == st.queue
           y == [st EXCEPT !.at = "received", !.hand = Head(st.queue), !.queue = Tail(@)]
<1>1. /\ st \in StreamType /\ Sane(world, due, st) /\ Fresh(world, due, st, tabs[st.tab])
      /\ st.at = "waits" /\ q # <<>> /\ q \in Seq(Events)
  BY DEF Inv, Kept, Sane, Receive, StreamType
<1>2. SetStream(i, y)
  BY DEF Receive
<1> HIDE DEF st
<1>3. Head(q) \in Events /\ Tail(q) \in Seq(Events) /\ Head(q) = q[1] /\ Len(q) > 0
  BY <1>1
<1>4. \A k \in DOMAIN q : k = 1 \/ (k - 1 \in DOMAIN Tail(q) /\ Tail(q)[k - 1] = q[k])
  BY <1>1, <1>3
<1>5. y \in StreamType
  BY <1>1, <1>3 DEF StreamType
<1>6. /\ y.at = "received" /\ y.hand = q[1] /\ y.queue = Tail(q) /\ y.tab = st.tab /\ y.heard = st.heard
      /\ y.sub = st.sub /\ y.session = st.session /\ y.pending = st.pending /\ y.wire = st.wire
  BY <1>1, <1>3 DEF StreamType
<1> HIDE DEF y, q
<1>7. HasHint(q) => HasHint(y.queue) \/ y.hand.kind = "hint"
  BY <1>4, <1>6 DEF HasHint
<1>8. EndComes(st) => EndComes(y)
  BY <1>1, <1>4, <1>6 DEF EndComes, q
<1>9. Sane(world, due, y)
  <2>1. y.hand \in Events
    BY <1>3, <1>6
  <2>2. st.sub /\ st.pending => HasHint(q)
    BY <1>1 DEF Sane, q
  <2>3. Len(y.queue) <= Buffer
    <3>1. Len(q) <= Buffer /\ Len(q) \in Nat
      BY <1>1 DEF Sane, q
    <3>2. Len(y.queue) = Len(q) - 1
      BY <1>1, <1>6
    <3> QED BY <3>1, <3>2, StreamBounds
  <2> QED BY <1>1, <1>5, <1>6, <1>7, <1>8, <2>1, <2>2, <2>3 DEF Sane, Streaming
<1>10. HintComes(st) => HintComes(y)
  BY <1>1, <1>6, <1>7 DEF HintComes, q
<1>11. Fresh(world, due, y, tabs[y.tab])
  BY <1>1, <1>6, <1>10 DEF Fresh, Streaming
<1> QED BY <1>2, <1>6, <1>9, <1>11, SetStreamKeeps DEF st

LEMMA TakenKeeps ==
  ASSUME Inv, NEW i \in DOMAIN streams, Taken(i)
  PROVE  Inv'
<1> DEFINE st == streams[i]
           y == [st EXCEPT !.at = "taken", !.pending = @ /\ st.hand.kind # "hint"]
<1>1. /\ st \in StreamType /\ Sane(world, due, st) /\ Fresh(world, due, st, tabs[st.tab])
      /\ st.at = "received"
  BY DEF Inv, Kept, Sane, Taken
<1>2. SetStream(i, y)
  BY DEF Taken
<1> HIDE DEF st
<1>3. y \in StreamType
  BY <1>1 DEF StreamType
<1>4. /\ y.at = "taken" /\ y.hand = st.hand /\ y.queue = st.queue /\ y.tab = st.tab /\ y.heard = st.heard
      /\ y.sub = st.sub /\ y.session = st.session /\ y.wire = st.wire
      /\ y.pending = (st.pending /\ st.hand.kind # "hint")
  BY <1>1 DEF StreamType
<1> HIDE DEF y
<1>5. Sane(world, due, y)
  <2>1. EndComes(st) => EndComes(y)
    BY <1>1, <1>4 DEF EndComes
  <2> QED BY <1>1, <1>3, <1>4, <2>1 DEF Sane, Streaming
<1>6. Fresh(world, due, y, tabs[y.tab])
  BY <1>1, <1>4 DEF Fresh, HintComes, Streaming
<1> QED BY <1>2, <1>4, <1>5, <1>6, SetStreamKeeps DEF st

LEMMA ForwardKeeps ==
  ASSUME Inv, NEW i \in DOMAIN streams, Forward(i)
  PROVE  Inv'
<1> DEFINE st == streams[i]
           empty == [st EXCEPT !.at = "waits", !.hand = None]
<1>1. /\ st \in StreamType /\ Sane(world, due, st) /\ Fresh(world, due, st, tabs[st.tab])
      /\ st.at = "taken" /\ st.hand \in Events
  BY DEF Inv, Kept, Sane, Forward
<1>2. SetStream(i, IF st.hand.kind # "ended" THEN Sent(empty, st.hand)
                   ELSE IF st.hand = Ended(st.session) THEN Over(empty, st.hand)
                   ELSE empty)
  BY DEF Forward
<1> HIDE DEF st
<1>3. empty \in StreamType
  BY <1>1 DEF StreamType
<1>4. /\ empty.at = "waits" /\ empty.queue = st.queue /\ empty.tab = st.tab /\ empty.heard = st.heard
      /\ empty.sub = st.sub /\ empty.session = st.session /\ empty.wire = st.wire
      /\ empty.pending = st.pending
  BY <1>1 DEF StreamType
<1>5. st.hand \in Messages
  BY <1>1, EndsAndMessages
<1> HIDE DEF empty
<1>6. st.hand # Ended(st.session) => (EndComes(st) => \E k \in DOMAIN st.queue : st.queue[k] = Ended(st.session))
  BY DEF EndComes
<1>7. ASSUME st.hand # Ended(st.session), NEW y \in StreamType,
             y.at = "waits" /\ y.queue = st.queue /\ y.tab = st.tab /\ y.heard = st.heard
             /\ y.sub = st.sub /\ y.session = st.session /\ y.pending = st.pending
      PROVE  Sane(world, due, y)
  <2>1. EndComes(st) => EndComes(y)
    BY <1>6, <1>7 DEF EndComes
  <2> QED BY <1>1, <1>7, <2>1 DEF Sane, Streaming
<1>8. CASE st.hand.kind # "ended"
  <2> DEFINE y == Sent(empty, st.hand)
  <2>1. /\ y \in StreamType
        /\ y.at = "waits" /\ y.queue = st.queue /\ y.tab = st.tab /\ y.heard = st.heard
        /\ y.sub = st.sub /\ y.session = st.session /\ y.pending = st.pending
        /\ y.wire = IF st.heard THEN Append(st.wire, st.hand) ELSE st.wire
    BY <1>3, <1>4, <1>5, SentType
  <2>2. SetStream(i, y)
    BY <1>2, <1>8
  <2> HIDE DEF y
  <2>3. Sane(world, due, y)
    BY <1>7, <1>8, <2>1 DEF Ended
  <2>4. st.heard /\ HintComes(st) => HintComes(y)
    <3> SUFFICES ASSUME st.heard, HintComes(st) PROVE HintComes(y)
      OBVIOUS
    <3>1. st.wire \in Seq(Messages) /\ y.wire = Append(st.wire, st.hand)
      BY <1>1, <2>1 DEF StreamType
    <3>2. \A k \in DOMAIN st.wire : k \in DOMAIN y.wire /\ y.wire[k] = st.wire[k]
      BY <1>5, <3>1
    <3>3. Len(st.wire) + 1 \in DOMAIN y.wire /\ y.wire[Len(st.wire) + 1] = st.hand
      BY <1>5, <3>1
    <3> QED BY <2>1, <3>2, <3>3 DEF HintComes
  <2>5. Fresh(world, due, y, tabs[y.tab])
    BY <1>1, <2>1, <2>4 DEF Fresh, Streaming
  <2> QED BY <2>1, <2>2, <2>3, <2>5, SetStreamKeeps DEF st
<1>9. CASE st.hand.kind = "ended" /\ st.hand # Ended(st.session)
  <2>1. SetStream(i, empty)
    BY <1>2, <1>9
  <2>2. Sane(world, due, empty)
    BY <1>3, <1>4, <1>7, <1>9
  <2>3. Fresh(world, due, empty, tabs[empty.tab])
    BY <1>1, <1>4, <1>9 DEF Fresh, HintComes, Streaming
  <2> QED BY <1>4, <2>1, <2>2, <2>3, SetStreamKeeps DEF st
<1>10. CASE st.hand = Ended(st.session)
  <2> DEFINE y == Over(empty, st.hand)
  <2>1. SetStream(i, y)
    BY <1>2, <1>10 DEF Ended
  <2>2. /\ Sane(world, due, y) /\ Fresh(world, due, y, tabs[y.tab])
        /\ y.tab = st.tab /\ y.heard = st.heard /\ ~y.sub
    BY <1>3, <1>4, <1>5, OverIsSane
  <2> HIDE DEF y
  <2> QED BY <2>1, <2>2, SetStreamKeeps DEF st
<1> QED BY <1>8, <1>9, <1>10 DEF Ended

(* What the server's stream does by itself, its end by age and the recheck.*)
LEMMA StreamsKeep ==
  ASSUME Inv, NEW i \in DOMAIN streams,
         ReadSession(i) \/ Receive(i) \/ Taken(i) \/ Forward(i) \/ Dropped(i) \/ Lifetime(i) \/ Recheck(i)
  PROVE  Inv'
<1>1. CASE Dropped(i) \/ Lifetime(i)
  <2>1. [kind |-> "end"] \in Messages
    BY PlainMessages
  <2>2. SetStream(i, Over(streams[i], [kind |-> "end"]))
    BY <1>1 DEF Dropped, Lifetime
  <2> QED BY <2>1, <2>2, OverKeeps
<1>2. CASE Recheck(i)
  <2>1. streams[i].session \in 1..world.session /\ world \in Worlds
    BY <1>2 DEF Recheck, Inv, Kept, Sane, Streaming
  <2>2. Ended(streams[i].session) \in Messages
    BY <1>2, <2>1, EndsThatWere, EndsAndMessages DEF Recheck
  <2>3. SetStream(i, Over(streams[i], Ended(streams[i].session)))
    BY <1>2 DEF Recheck
  <2> QED BY <2>2, <2>3, OverKeeps
<1> QED BY <1>1, <1>2, ReadSessionKeeps, ReceiveKeeps, TakenKeeps, ForwardKeeps

------------------------------------------------------------------------------
(* The hub.                                                                *)

(* A set of numbers that has one has a least.                              *)
LEMMA LeastOf ==
  ASSUME NEW S \in SUBSET Nat, S # {}
  PROVE  \E i \in S : \A j \in S : i <= j
<1>1. \E x \in S : \A y \in S : ~(<<y, x>> \in OpToRel(<, Nat))
  BY NatLessThanWellFounded, WFMin
<1>2. PICK x \in S : \A y \in S : ~(<<y, x>> \in OpToRel(<, Nat))
  BY <1>1
<1>3. ASSUME NEW y \in S
      PROVE  x <= y
  <2>1. <<y, x>> \in Nat \X Nat
    OBVIOUS
  <2>2. ~(<<y, x>>[1] < <<y, x>>[2])
    BY <1>2, <2>1 DEF OpToRel
  <2> QED BY <2>1, <2>2
<1> QED BY <1>3

(* The stream the hub drops at the cap is one it holds.                    *)
LEMMA OldestIsHeld ==
  ASSUME streams \in Seq(StreamType), Held # {}
  PROVE  Oldest \in Held
<1>1. Held \in SUBSET Nat
  BY DEF Held
<1>2. \E i \in Held : \A j \in Held : i <= j
  BY <1>1, LeastOf
<1> QED BY <1>2 DEF Oldest

(* A subscription taken away: the stream reads on, and then ends.          *)
LEMMA RemovedIsSane ==
  ASSUME NEW w, NEW d, NEW e, NEW tab, NEW st \in StreamType, Sane(w, d, st)
  PROVE  /\ Sane(w, e, Removed(st)) /\ Fresh(w, e, Removed(st), tab)
         /\ Removed(st).tab = st.tab /\ Removed(st).heard = st.heard /\ ~Removed(st).sub
         /\ Removed(st).at = st.at
<1> DEFINE y == [st EXCEPT !.sub = FALSE]
<1>1. y \in StreamType
  BY DEF StreamType
<1>2. /\ y.tab = st.tab /\ y.heard = st.heard /\ y.sub = FALSE /\ y.at = st.at
      /\ y.session = st.session /\ y.hand = st.hand /\ y.pending = st.pending
      /\ y.queue = st.queue
  BY DEF StreamType
<1>3. Removed(st) = y
  BY DEF Removed
<1> HIDE DEF y
<1> QED BY <1>1, <1>2, <1>3 DEF Sane, Fresh

LEMMA SubscribeKeeps ==
  ASSUME Inv, NEW i \in DOMAIN streams, Subscribe(i)
  PROVE  Inv'
<1> DEFINE full == Cardinality(Held) >= MaxPerUser
           room == IF full THEN [streams EXCEPT ![Oldest] = Removed(@)] ELSE streams
           new == [streams[i] EXCEPT !.at = "subscribed", !.sub = TRUE]
           g == [room EXCEPT ![i] = new]
           rest == RemoveAt(room, i)
           ss == Append(rest, new)
<1>1. streams' = ss /\ streams[i].at = "called" /\ UNCHANGED <<world, due, tabs, trouble>>
  BY DEF Subscribe, Joined
<1>2. /\ streams \in Seq(StreamType) /\ Kept(world, due, streams, tabs)
      /\ streams[i] \in StreamType /\ Sane(world, due, streams[i]) /\ ~streams[i].sub /\ ~streams[i].pending
  BY <1>1 DEF Inv, Kept, Sane
<1>3. IsFiniteSet(Held) /\ Cardinality(Held) \in Nat /\ Cardinality(Held) <= MaxPerUser
      /\ MaxPerUser \in Nat \ {0}
  BY <1>2, FS_CardinalityType, StreamBounds DEF Kept, UnderTheCap, HeldIn, Held
<1>4. full => Oldest \in Held
  <2>1. full => Held # {}
    BY <1>3, FS_EmptySet
  <2> QED BY <1>2, <2>1, OldestIsHeld
<1>5. full => /\ Oldest \in DOMAIN streams /\ Oldest # i
              /\ streams[Oldest] \in StreamType /\ Sane(world, due, streams[Oldest])
  BY <1>2, <1>4 DEF Held, Kept, Sane
<1> HIDE DEF full
<1>6. /\ full => Removed(streams[Oldest]) \in StreamType
      /\ full => ~Removed(streams[Oldest]).sub
      /\ full => Removed(streams[Oldest]).tab = streams[Oldest].tab
      /\ full => Removed(streams[Oldest]).heard = streams[Oldest].heard
      /\ full => Sane(world, due, Removed(streams[Oldest]))
      /\ full => \A tab : Fresh(world, due, Removed(streams[Oldest]), tab)
  <2>1. ASSUME full
        PROVE  \A tab : /\ Sane(world, due, Removed(streams[Oldest]))
                        /\ Fresh(world, due, Removed(streams[Oldest]), tab)
                        /\ Removed(streams[Oldest]).tab = streams[Oldest].tab
                        /\ Removed(streams[Oldest]).heard = streams[Oldest].heard
                        /\ ~Removed(streams[Oldest]).sub
    BY <1>5, <2>1, RemovedIsSane
  <2> QED BY <2>1 DEF Sane
<1>7. room \in Seq(StreamType) /\ DOMAIN room = DOMAIN streams
  BY <1>2, <1>5, <1>6
<1>8. new \in StreamType /\ new.tab = streams[i].tab /\ new.heard = streams[i].heard
      /\ new.at = "subscribed" /\ new.sub = TRUE /\ new.pending = streams[i].pending
  BY <1>2 DEF StreamType
<1>9. \A j \in DOMAIN streams : j # i => g[j] = IF full /\ j = Oldest THEN Removed(streams[j]) ELSE streams[j]
  BY <1>2, <1>5, <1>7
<1>10. g[i] = new /\ DOMAIN g = DOMAIN streams
  BY <1>7
<1>11. new.queue = streams[i].queue /\ new.hand = streams[i].hand
  BY <1>2 DEF StreamType
<1> HIDE DEF room, new, g
<1>12. Kept(world, due, g, tabs)
  <2>1. Sane(world, due, new) /\ Fresh(world, due, new, tabs[new.tab])
    BY <1>2, <1>8, <1>11 DEF Sane, Fresh, Streaming
  <2>2. \A j \in DOMAIN g : Sane(world, due, g[j]) /\ Fresh(world, due, g[j], tabs[g[j].tab])
    BY <1>2, <1>6, <1>9, <1>10, <2>1 DEF Kept
  <2>3. \A j \in DOMAIN g : g[j].tab = streams[j].tab /\ g[j].heard = streams[j].heard
    BY <1>6, <1>8, <1>9, <1>10
  <2>4. OneReader(g)
    BY <1>2, <1>10, <2>3 DEF Kept, OneReader
  <2>5. \A t \in Tabs : PageKnows(g, t, tabs[t])
    <3>1. \A t \in Tabs : Alone(streams, t) => Alone(g, t)
      BY <1>10, <2>3 DEF Alone
    <3> QED BY <1>2, <3>1 DEF Kept, PageKnows
  <2>6. UnderTheCap(g)
    <3> DEFINE H == IF full THEN Held \ {Oldest} ELSE Held
    <3>1. HeldIn(g) = H \cup {i}
      BY <1>2, <1>4, <1>6, <1>8, <1>9, <1>10 DEF HeldIn, Held
    <3>2. IsFiniteSet(H) /\ Cardinality(H) \in Nat /\ Cardinality(H) + 1 <= MaxPerUser
      <4>1. CASE full
        <5>1. IsFiniteSet(Held \ {Oldest}) /\ Cardinality(Held \ {Oldest}) = Cardinality(Held) - 1
          BY <1>3, <1>4, <4>1, FS_RemoveElement
        <5>2. Cardinality(Held \ {Oldest}) \in Nat
          BY <5>1, FS_CardinalityType
        <5> QED BY <1>3, <4>1, <5>1, <5>2
      <4>2. CASE ~full
        BY <1>3, <4>2 DEF full
      <4> QED BY <4>1, <4>2
    <3> HIDE DEF H
    <3>3. IsFiniteSet(H \cup {i}) /\ Cardinality(H \cup {i}) = IF i \in H THEN Cardinality(H) ELSE Cardinality(H) + 1
      BY <3>2, FS_AddElement
    <3> QED BY <1>3, <3>1, <3>2, <3>3 DEF UnderTheCap
  <2> QED BY <1>2, <2>2, <2>4, <2>5, <2>6 DEF Kept
<1>13. SomeOf(ss, g)
  <2> DEFINE n == Len(streams)
             f == [j \in 1..n |-> IF j = n THEN i ELSE IF j < i THEN j ELSE j + 1]
  <2>1. n \in Nat /\ i \in 1..n /\ DOMAIN room = 1..n /\ Len(room) = n /\ DOMAIN g = 1..n
    BY <1>2, <1>7, <1>10
  <2>2. rest \in Seq(StreamType) /\ DOMAIN rest = 1..(n - 1)
        /\ \A j \in 1..(n - 1) : rest[j] = room[IF j < i THEN j ELSE j + 1]
    BY <1>7, <2>1, RemovedOne
  <2>3. \A j \in DOMAIN streams : j # i => g[j] = room[j]
    BY <1>7 DEF g
  <2> HIDE DEF n, rest
  <2>4. ss \in Seq(StreamType) /\ DOMAIN ss = 1..n /\ ss[n] = new /\ \A j \in 1..(n - 1) : ss[j] = rest[j]
    <3>1. Len(rest) = n - 1
      BY <2>1, <2>2
    <3> QED BY <1>8, <2>1, <2>2, <3>1
  <2>5. f \in [DOMAIN ss -> DOMAIN g]
    BY <2>1, <2>4
  <2>6. \A j, k \in DOMAIN ss : f[j] = f[k] => j = k
    BY <2>1, <2>4
  <2>7. \A j \in DOMAIN ss : ss[j] = g[f[j]]
    <3>1. ss[n] = g[f[n]]
      BY <1>10, <2>1, <2>4
    <3>2. ASSUME NEW j \in 1..(n - 1)
          PROVE  ss[j] = g[f[j]]
      <4>1. f[j] = (IF j < i THEN j ELSE j + 1) /\ f[j] \in 1..n /\ f[j] # i
        BY <2>1
      <4>2. ss[j] = room[f[j]]
        BY <2>2, <2>4, <4>1
      <4>3. g[f[j]] = room[f[j]]
        BY <1>10, <2>1, <2>3, <4>1
      <4> QED BY <4>2, <4>3
    <3>3. \A j \in 1..n : j = n \/ j \in 1..(n - 1)
      BY <2>1
    <3> HIDE DEF f, ss
    <3> QED BY <2>4, <3>1, <3>2, <3>3
  <2> HIDE DEF f, ss
  <2> QED BY <2>4, <2>5, <2>6, <2>7 DEF SomeOf
<1> QED BY <1>1, <1>2, <1>12, <1>13, SomeAreKept DEF Inv, SomeOf

(* An event delivered to a stream, or its subscription dropped.            *)
LEMMA DeliveredType ==
  ASSUME NEW st \in StreamType, NEW e \in Events
  PROVE  /\ Delivered(st, e) \in StreamType
         /\ Delivered(st, e).tab = st.tab /\ Delivered(st, e).heard = st.heard
         /\ Delivered(st, e).sub => st.sub
<1>1. CASE Delivered(st, e) = st
  BY <1>1
<1>2. CASE Delivered(st, e) = Removed(st)
  BY <1>2 DEF Removed, StreamType
<1>3. CASE Delivered(st, e) = [st EXCEPT !.queue = Append(@, e), !.pending = @ \/ e.kind = "hint"]
  <2>1. Append(st.queue, e) \in Seq(Events) /\ (st.pending \/ e.kind = "hint") \in BOOLEAN
    BY DEF StreamType
  <2> QED BY <1>3, <2>1 DEF StreamType
<1> QED BY <1>1, <1>2, <1>3 DEF Delivered

(* A stream is told an event, or is dropped as slow.                       *)
LEMMA DeliveredIsSane ==
  ASSUME NEW w, NEW d, NEW e \in d, d \subseteq Events, NEW tab, NEW st,
         Sane(w, d, st), Fresh(w, d, st, tab)
  PROVE  Sane(w, d \ {e}, Delivered(st, e)) /\ Fresh(w, d \ {e}, Delivered(st, e), tab)
<1>1. st \in StreamType /\ e \in Events
  BY DEF Sane
<1>2. CASE ~st.sub
  <2>1. Delivered(st, e) = st
    BY <1>2 DEF Delivered
  <2> QED BY <1>2, <2>1 DEF Sane, Fresh
<1>3. CASE st.sub /\ e.kind = "hint" /\ st.pending
  <2>1. Delivered(st, e) = st
    BY <1>3 DEF Delivered
  <2>2. HintComes(st)
    BY <1>3 DEF Sane, HintComes
  <2>3. Ended(st.session) # e
    BY <1>3 DEF Ended
  <2> QED BY <2>1, <2>2, <2>3 DEF Sane, Fresh
<1>4. CASE Delivered(st, e) = Removed(st)
  BY <1>1, <1>4, RemovedIsSane
<1>5. CASE st.sub /\ ~(e.kind = "hint" /\ st.pending) /\ Len(st.queue) # Buffer
           /\ Delivered(st, e) = [st EXCEPT !.queue = Append(@, e), !.pending = @ \/ e.kind = "hint"]
  <2> DEFINE y == [st EXCEPT !.queue = Append(@, e), !.pending = @ \/ e.kind = "hint"]
  <2>1. y \in StreamType /\ Delivered(st, e) = y
    BY <1>1, <1>5, DeliveredType
  <2>2. /\ y.tab = st.tab /\ y.heard = st.heard /\ y.sub = st.sub /\ y.at = st.at
        /\ y.session = st.session /\ y.hand = st.hand /\ y.wire = st.wire
        /\ y.queue = Append(st.queue, e) /\ y.pending = (st.pending \/ e.kind = "hint")
    BY <1>1 DEF StreamType
  <2> HIDE DEF y
  <2>3. st.queue \in Seq(Events)
    BY <1>1 DEF StreamType
  <2>4. \A k \in DOMAIN st.queue : k \in DOMAIN y.queue /\ y.queue[k] = st.queue[k]
    BY <1>1, <2>2, <2>3
  <2>5. Len(st.queue) + 1 \in DOMAIN y.queue /\ y.queue[Len(st.queue) + 1] = e
    BY <1>1, <2>2, <2>3
  <2>6. HasHint(st.queue) \/ e.kind = "hint" => HasHint(y.queue)
    BY <2>4, <2>5 DEF HasHint
  <2>7. EndComes(st) \/ e = Ended(st.session) => EndComes(y)
    BY <2>2, <2>4, <2>5 DEF EndComes
  <2>8. Sane(w, d \ {e}, y)
    <3>1. Len(y.queue) <= Buffer
      <4>1. Len(st.queue) \in Nat /\ Len(st.queue) <= Buffer /\ Buffer \in Nat
        BY <2>3, StreamBounds DEF Sane
      <4>2. Len(y.queue) = Len(st.queue) + 1
        BY <1>1, <2>2, <2>3
      <4> QED BY <1>5, <4>1, <4>2
    <3> QED BY <1>5, <2>1, <2>2, <2>6, <2>7, <3>1 DEF Sane
  <2>9. HintComes(st) \/ e.kind = "hint" => HintComes(y)
    BY <2>2, <2>6 DEF HintComes
  <2>10. Fresh(w, d \ {e}, y, tab)
    BY <2>2, <2>9 DEF Fresh
  <2> QED BY <2>1, <2>8, <2>10
<1> QED BY <1>2, <1>3, <1>4, <1>5 DEF Delivered

LEMMA PublishKeeps ==
  ASSUME Inv, NEW e \in due, Publish(e)
  PROVE  Inv'
<1> DEFINE g == [i \in DOMAIN streams |-> Delivered(streams[i], e)]
<1>1. streams' = g /\ due' = due \ {e} /\ UNCHANGED <<world, tabs, trouble>>
  BY DEF Publish
<1>2. streams \in Seq(StreamType) /\ Kept(world, due, streams, tabs) /\ due \subseteq Events /\ e \in Events
  BY DEF Inv, Kept
<1>3. DOMAIN g = DOMAIN streams /\ \A i \in DOMAIN g : g[i] = Delivered(streams[i], e)
  OBVIOUS
<1> HIDE DEF g
<1>4. \A i \in DOMAIN streams : /\ Delivered(streams[i], e) \in StreamType
                                /\ Delivered(streams[i], e).tab = streams[i].tab
                                /\ Delivered(streams[i], e).heard = streams[i].heard
                                /\ Delivered(streams[i], e).sub => streams[i].sub
  BY <1>2, DeliveredType
<1>5. \A i \in DOMAIN g : g[i] \in StreamType /\ g[i].tab = streams[i].tab
                          /\ g[i].heard = streams[i].heard /\ (g[i].sub => streams[i].sub)
  BY <1>3, <1>4
<1>6. g \in Seq(StreamType)
  <2>1. Len(streams) \in Nat /\ DOMAIN streams = 1..Len(streams)
    BY <1>2
  <2>2. g \in [1..Len(streams) -> StreamType]
    BY <1>3, <1>5, <2>1 DEF g
  <2> QED BY <2>1, <2>2
<1>7. \A i \in DOMAIN g : Sane(world, due \ {e}, g[i]) /\ Fresh(world, due \ {e}, g[i], tabs[g[i].tab])
  <2> TAKE i \in DOMAIN g
  <2>1. Sane(world, due, streams[i]) /\ Fresh(world, due, streams[i], tabs[streams[i].tab])
    BY <1>2, <1>3 DEF Kept
  <2> QED BY <1>2, <1>3, <1>5, <2>1, DeliveredIsSane
<1>8. OneReader(g)
  BY <1>2, <1>3, <1>5 DEF Kept, OneReader
<1>9. \A t \in Tabs : PageKnows(g, t, tabs[t])
  <2>1. \A t \in Tabs : Alone(streams, t) => Alone(g, t)
    BY <1>3, <1>5 DEF Alone
  <2> QED BY <1>2, <2>1 DEF Kept, PageKnows
<1>10. UnderTheCap(g)
  BY <1>2, <1>3, <1>5, FewerHeld DEF Kept
<1>11. due \ {e} \subseteq Events
  BY <1>2
<1> QED BY <1>1, <1>2, <1>6, <1>7, <1>8, <1>9, <1>10, <1>11 DEF Inv, Kept

------------------------------------------------------------------------------
(* The pages.                                                              *)

(* A page that changes and knows what it has to of its connection.         *)
LEMMA PageChanges ==
  ASSUME NEW w, NEW d, NEW g, NEW tb, Kept(w, d, g, tb), NEW t \in Tabs, NEW tab \in PageType,
         PageKnows(g, t, tab), \A i \in DOMAIN g : g[i].tab = t => Fresh(w, d, g[i], tab)
  PROVE  Kept(w, d, g, [tb EXCEPT ![t] = tab])
<1> DEFINE new == [tb EXCEPT ![t] = tab]
<1>1. tb \in [Tabs -> PageType]
  BY DEF Kept
<1>2. new \in [Tabs -> PageType] /\ \A u \in Tabs : new[u] = IF u = t THEN tab ELSE tb[u]
  BY <1>1
<1> HIDE DEF new
<1>3. \A i \in DOMAIN g : g[i].tab \in Tabs
  BY DEF Kept, Sane, StreamType
<1>4. \A i \in DOMAIN g : Fresh(w, d, g[i], new[g[i].tab])
  BY <1>2, <1>3 DEF Kept
<1>5. \A u \in Tabs : PageKnows(g, u, new[u])
  BY <1>2 DEF Kept
<1> QED BY <1>2, <1>4, <1>5 DEF Kept, new

(* What a page without a connection has to know of itself.                 *)
Resting(tab) ==
    /\ tab.status = "paused" \/ tab.leaving => tab.hidden
    /\ tab.status \in {"new", "closed"} => ~tab.retry /\ ~tab.leaving /\ tab.asks = {}

(* A page that reads no stream asks nothing of its streams.                *)
LEMMA AloneIsFresh ==
  ASSUME NEW w, NEW d, NEW g, NEW t, NEW tab, Alone(g, t)
  PROVE  /\ \A i \in DOMAIN g : g[i].tab = t => Fresh(w, d, g[i], tab)
         /\ Resting(tab) => PageKnows(g, t, tab)
BY DEF Alone, Fresh, PageKnows, Resting

(* The connection given up, whatever the page is then.                     *)
LEMMA AbortedKeeps ==
  ASSUME Inv, NEW t \in Tabs, NEW tab \in PageType, Resting(tab),
         streams' = Aborted(t), tabs' = [tabs EXCEPT ![t] = tab], UNCHANGED <<world, due>>,
         trouble' \in 0..MaxTrouble
  PROVE  Inv'
<1>1. streams \in Seq(StreamType) /\ Kept(world, due, streams, tabs)
  BY DEF Inv
<1>2. CASE Reads(t) = {}
  <2>1. Alone(streams, t)
    BY <1>2 DEF Reads, Alone
  <2>2. Kept(world, due, streams, [tabs EXCEPT ![t] = tab])
    BY <1>1, <2>1, AloneIsFresh, PageChanges
  <2> QED BY <1>1, <1>2, <2>2 DEF Aborted, Inv
<1>3. CASE Reads(t) # {}
  <2> DEFINE i == CHOOSE j \in Reads(t) : TRUE
             st == [streams[i] EXCEPT !.heard = FALSE, !.wire = <<>>]
             g == [streams EXCEPT ![i] = st]
  <2>1. i \in DOMAIN streams /\ streams[i].tab = t /\ streams[i].heard
    BY <1>3 DEF Reads
  <2>2. streams' = With(i, st)
    BY <1>3 DEF Aborted
  <2> HIDE DEF i
  <2>3. streams[i] \in StreamType /\ Sane(world, due, streams[i])
    BY <1>1, <2>1 DEF Kept
  <2>4. st \in StreamType
    <3>1. <<>> \in Seq(Messages)
      OBVIOUS
    <3> QED BY <2>3, <3>1 DEF StreamType
  <2>5. /\ st.tab = t /\ st.heard = FALSE /\ st.sub = streams[i].sub /\ st.at = streams[i].at
        /\ st.session = streams[i].session /\ st.queue = streams[i].queue
        /\ st.pending = streams[i].pending /\ st.hand = streams[i].hand
    BY <2>1, <2>3 DEF StreamType
  <2> HIDE DEF st
  <2>6. Sane(world, due, st) /\ Fresh(world, due, st, tabs[st.tab])
    BY <2>3, <2>4, <2>5 DEF Sane, Fresh, EndComes
  <2>7. Kept(world, due, g, tabs)
    BY <1>1, <2>1, <2>5, <2>6, OneChanges
  <2>8. Alone(g, t)
    <3>1. \A j \in DOMAIN g : g[j] = (IF j = i THEN st ELSE streams[j]) /\ j \in DOMAIN streams
      OBVIOUS
    <3> QED BY <1>1, <2>1, <2>5, <3>1 DEF Alone, Kept, OneReader
  <2>9. SomeOf(With(i, st), g)
    BY <1>1, <2>1, <2>4, WithIsSome
  <2> HIDE DEF g
  <2>10. Kept(world, due, g, [tabs EXCEPT ![t] = tab])
    BY <2>7, <2>8, AloneIsFresh, PageChanges
  <2>11. Kept(world, due, streams', [tabs EXCEPT ![t] = tab]) /\ streams' \in Seq(StreamType)
    BY <2>2, <2>9, <2>10, SomeAreKept DEF SomeOf
  <2> QED BY <2>11 DEF Inv
<1> QED BY <1>2, <1>3

(* A page that changes while its connection stays.                         *)
LEMMA OnlyPageKeeps ==
  ASSUME Inv, NEW t \in Tabs, NEW tab \in PageType, PageKnows(streams, t, tab),
         \A i \in DOMAIN streams : streams[i].tab = t => Fresh(world, due, streams[i], tab),
         tabs' = [tabs EXCEPT ![t] = tab], UNCHANGED <<world, due, streams>>, trouble' \in 0..MaxTrouble
  PROVE  Inv'
<1>1. Kept(world, due, streams, [tabs EXCEPT ![t] = tab])
  BY PageChanges DEF Inv
<1> QED BY <1>1 DEF Inv

(* A page that connects had no connection.                                 *)
LEMMA ConnectKeeps ==
  ASSUME Inv, NEW t \in Tabs, NEW tab \in PageType, Alone(streams, t), Connect(t, tab),
         tab.leaving => tab.hidden, ~tab.hidden => tab.status \notin {"new", "paused", "closed"},
         UNCHANGED <<world, due, trouble>>
  PROVE  Inv'
<1>1. streams \in Seq(StreamType) /\ Kept(world, due, streams, tabs) /\ trouble \in 0..MaxTrouble
  BY DEF Inv
<1>2. CASE tab.hidden
  <2> DEFINE new == [tab EXCEPT !.status = "paused", !.retry = FALSE]
  <2>1. new \in PageType /\ Resting(new)
    BY <1>2 DEF PageType, Resting
  <2>2. tabs' = [tabs EXCEPT ![t] = new] /\ UNCHANGED streams
    BY <1>2 DEF Connect
  <2> HIDE DEF new
  <2>3. /\ \A i \in DOMAIN streams : streams[i].tab = t => Fresh(world, due, streams[i], new)
        /\ PageKnows(streams, t, new)
    BY <2>1, AloneIsFresh
  <2>4. UNCHANGED <<world, due, streams>> /\ trouble' \in 0..MaxTrouble
    BY <1>1, <2>2
  <2> QED BY <2>1, <2>2, <2>3, <2>4, OnlyPageKeeps
<1>3. CASE ~tab.hidden
  <2> DEFINE new == [tab EXCEPT !.retry = FALSE]
             call == NewCall(t)
             g == Append(streams, call)
             n == Len(streams)
  <2>1. new \in PageType /\ new.retry = FALSE /\ new.status = tab.status /\ new.leaving = tab.leaving
        /\ new.hidden = tab.hidden
    BY DEF PageType
  <2>2. tabs' = [tabs EXCEPT ![t] = new] /\ streams' = g
    BY <1>3 DEF Connect
  <2> HIDE DEF new
  <2>3. call \in StreamType
    <3>1. <<>> \in Seq(Events) /\ <<>> \in Seq(Messages) /\ 0 \in 0..(MaxEnds + 1)
      BY StreamBounds
    <3> QED BY <3>1 DEF NewCall, StreamType
  <2>4. call.tab = t /\ call.at = "called" /\ call.sub = FALSE /\ call.pending = FALSE
        /\ Len(call.queue) <= Buffer
    BY StreamBounds DEF NewCall
  <2>5. Sane(world, due, call) /\ \A page : Fresh(world, due, call, page)
    BY <2>3, <2>4 DEF Sane, Fresh, Streaming
  <2> HIDE DEF call
  <2>6. n \in Nat /\ DOMAIN streams = 1..n /\ g \in Seq(StreamType) /\ DOMAIN g = 1..(n + 1)
        /\ g[n + 1] = call /\ \A i \in 1..n : g[i] = streams[i]
    BY <1>1, <2>3
  <2> HIDE DEF g, n
  <2>7. \A i \in DOMAIN g : i = n + 1 \/ i \in DOMAIN streams
    BY <2>6
  <2>8. \A i \in DOMAIN streams : i # n + 1 /\ i \in DOMAIN g /\ g[i] = streams[i]
    BY <2>6
  <2>9. Kept(world, due, g, tabs')
    <3>1. tabs' \in [Tabs -> PageType] /\ \A u \in Tabs : tabs'[u] = IF u = t THEN new ELSE tabs[u]
      BY <1>1, <2>1, <2>2 DEF Kept
    <3>2. \A i \in DOMAIN g : Sane(world, due, g[i]) /\ Fresh(world, due, g[i], tabs'[g[i].tab])
      <4> TAKE i \in DOMAIN g
      <4>1. CASE i = n + 1
        BY <2>5, <2>6, <4>1
      <4>2. CASE i \in DOMAIN streams /\ streams[i].tab = t
        BY <1>1, <2>8, <4>2 DEF Kept, Alone, Fresh
      <4>3. CASE i \in DOMAIN streams /\ streams[i].tab # t
        <5>1. streams[i].tab \in Tabs
          BY <1>1, <4>3 DEF Kept, Sane, StreamType
        <5> QED BY <1>1, <2>8, <3>1, <4>3, <5>1 DEF Kept
      <4> QED BY <2>7, <4>1, <4>2, <4>3
    <3>3. OneReader(g)
      BY <1>1, <2>4, <2>6, <2>7, <2>8 DEF Kept, OneReader, Alone
    <3>4. \A u \in Tabs : PageKnows(g, u, tabs'[u])
      <4> TAKE u \in Tabs
      <4>1. CASE u = t
        BY <1>3, <2>1, <3>1, <4>1 DEF PageKnows
      <4>2. CASE u # t
        <5>1. Alone(streams, u) => Alone(g, u)
          BY <2>4, <2>6, <2>7, <2>8, <4>2 DEF Alone
        <5> QED BY <1>1, <3>1, <4>2, <5>1 DEF Kept, PageKnows
      <4> QED BY <4>1, <4>2
    <3>5. UnderTheCap(g)
      <4>1. HeldIn(g) = HeldIn(streams)
        BY <2>4, <2>6, <2>7, <2>8 DEF HeldIn
      <4> QED BY <1>1, <4>1 DEF Kept, UnderTheCap
    <3> QED BY <1>1, <3>1, <3>2, <3>3, <3>4, <3>5 DEF Kept
  <2> QED BY <1>1, <2>2, <2>6, <2>9 DEF Inv
<1> QED BY <1>2, <1>3

(* What a page makes of a failure or an end leaves it at rest.             *)
LEMMA RestingPages ==
  ASSUME NEW tab \in PageType
  PROVE  /\ Stopped(tab) \in PageType /\ Resting(Stopped(tab))
         /\ (tab.leaving => tab.hidden) => Rescheduled(tab) \in PageType /\ Resting(Rescheduled(tab))
<1>1. Stopped(tab) \in PageType /\ Resting(Stopped(tab))
  BY DEF Stopped, PageType, Resting
<1>2. ASSUME tab.leaving => tab.hidden
      PROVE  Rescheduled(tab) \in PageType /\ Resting(Rescheduled(tab))
  BY <1>2 DEF Rescheduled, PageType, Resting
<1> QED BY <1>1, <1>2

(* A page that reads a connection is none that is new, paused or closed.   *)
LEMMA ReaderIsOn ==
  ASSUME Inv, NEW t \in Tabs
  PROVE  /\ tabs[t] \in PageType
         /\ PageKnows(streams, t, tabs[t])
         /\ tabs[t].retry \/ tabs[t].status \in {"new", "paused", "closed"} => Alone(streams, t)
         /\ tabs[t].leaving => tabs[t].hidden
         /\ Reads(t) # {} => ~Alone(streams, t)
         /\ \A i \in DOMAIN streams : streams[i].tab = t => Fresh(world, due, streams[i], tabs[t])
BY DEF Inv, Kept, PageKnows, Alone, Reads

LEMMA HearKeeps ==
  ASSUME Inv, NEW t \in Tabs, Hear(t)
  PROVE  Inv'
<1>1. PICK i \in Reads(t) :
        LET m == Head(streams[i].wire)
            goesOn == m.kind \in {"ready", "hint"}
        IN  /\ streams[i].wire # <<>>
            /\ streams' = IF goesOn THEN [streams EXCEPT ![i].wire = Tail(@)] ELSE Aborted(t)
            /\ tabs' = [tabs EXCEPT ![t] =
                    IF m.kind = "ready" THEN Asking([@ EXCEPT !.status = "live"], "snapshot")
                    ELSE IF goesOn THEN Asking(@, "panel")
                    ELSE IF m.kind = "ended" THEN Stopped(@)
                    ELSE Failed(@, m)]
            /\ UNCHANGED <<world, due, trouble>>
  BY DEF Hear
<1> DEFINE m == Head(streams[i].wire)
           goesOn == m.kind \in {"ready", "hint"}
<1>2. UNCHANGED <<world, due, trouble>>
  BY <1>1
<1>3. streams \in Seq(StreamType) /\ Kept(world, due, streams, tabs) /\ tabs \in [Tabs -> PageType]
      /\ trouble \in 0..MaxTrouble
  BY DEF Inv, Kept
<1>4. i \in DOMAIN streams /\ streams[i].tab = t /\ streams[i].heard /\ streams[i] \in StreamType
      /\ Sane(world, due, streams[i])
  BY <1>1, <1>3 DEF Reads, Kept
<1>5. tabs[t] \in PageType /\ tabs[t].status \notin {"new", "paused", "closed"} /\ ~tabs[t].retry
      /\ (tabs[t].leaving => tabs[t].hidden)
  BY <1>1, ReaderIsOn
<1>6. CASE goesOn
  <2> DEFINE st == [streams[i] EXCEPT !.wire = Tail(@)]
             g == [streams EXCEPT ![i] = st]
             tab == IF m.kind = "ready" THEN Asking([tabs[t] EXCEPT !.status = "live"], "snapshot")
                    ELSE Asking(tabs[t], "panel")
  <2>1. streams' = g
    BY <1>1, <1>6
  <2>2. tabs' = [tabs EXCEPT ![t] = tab]
    BY <1>1, <1>6
  <2>3. Tail(streams[i].wire) \in Seq(Messages)
    BY <1>1, <1>4 DEF StreamType
  <2>4. st \in StreamType
    BY <1>4, <2>3 DEF StreamType
  <2>5. /\ st.tab = t /\ st.heard = streams[i].heard /\ st.sub = streams[i].sub /\ st.at = streams[i].at
        /\ st.session = streams[i].session /\ st.queue = streams[i].queue
        /\ st.pending = streams[i].pending /\ st.hand = streams[i].hand
    BY <1>4 DEF StreamType
  <2>6. tab \in PageType /\ tab.asks # {} /\ tab.status \notin {"new", "paused", "closed"}
        /\ tab.retry = tabs[t].retry /\ tab.leaving = tabs[t].leaving /\ tab.hidden = tabs[t].hidden
    BY <1>5 DEF PageType, Asking
  <2> HIDE DEF st, tab, m
  <2>7. Kept(world, due, g, [tabs EXCEPT ![t] = tab])
    <3>1. Kept(world, due, streams, [tabs EXCEPT ![t] = tab])
      <4>1. PageKnows(streams, t, tab)
        BY <1>5, <2>6 DEF PageKnows
      <4>2. \A j \in DOMAIN streams : Fresh(world, due, streams[j], tab)
        BY <2>6 DEF Fresh
      <4> QED BY <1>3, <2>6, <4>1, <4>2, PageChanges
    <3>2. Sane(world, due, st)
      BY <1>4, <2>4, <2>5 DEF Sane, EndComes
    <3>3. Fresh(world, due, st, [tabs EXCEPT ![t] = tab][st.tab])
      BY <1>3, <2>5, <2>6 DEF Fresh
    <3> QED BY <1>3, <1>4, <2>5, <3>1, <3>2, <3>3, OneChanges
  <2>8. g \in Seq(StreamType)
    BY <1>3, <1>4, <2>4
  <2> HIDE DEF g
  <2> QED BY <1>2, <1>3, <2>1, <2>2, <2>7, <2>8 DEF Inv
<1>7. CASE ~goesOn
  <2> DEFINE tab == IF m.kind = "ended" THEN Stopped(tabs[t]) ELSE Failed(tabs[t], m)
  <2>1. streams' = Aborted(t)
    BY <1>1, <1>7
  <2>2. tabs' = [tabs EXCEPT ![t] = tab]
    BY <1>1, <1>7
  <2>3. tab \in PageType /\ Resting(tab)
    BY <1>5, RestingPages DEF Failed
  <2> HIDE DEF tab
  <2> QED BY <1>2, <1>3, <2>1, <2>2, <2>3, AbortedKeeps
<1> QED BY <1>6, <1>7

LEMMA SnapshotKeeps ==
  ASSUME Inv, NEW t \in Tabs, ReadSnapshot(t)
  PROVE  Inv'
<1>1. tabs[t].asks # {} /\ UNCHANGED <<world, due, trouble>> /\ trouble \in 0..MaxTrouble
  BY DEF ReadSnapshot, Inv
<1>2. tabs[t] \in PageType /\ PageKnows(streams, t, tabs[t]) /\ tabs \in [Tabs -> PageType]
  BY ReaderIsOn DEF Inv, Kept
<1>3. CASE world.open
  <2> DEFINE tab == [tabs[t] EXCEPT !.asks = {"panel"}]
  <2>1. tabs' = [tabs EXCEPT ![t] = tab] /\ UNCHANGED streams
    BY <1>2, <1>3 DEF ReadSnapshot
  <2>2. /\ tab \in PageType /\ tab.asks # {} /\ tab.status = tabs[t].status
        /\ tab.retry = tabs[t].retry /\ tab.leaving = tabs[t].leaving /\ tab.hidden = tabs[t].hidden
    BY <1>2 DEF PageType
  <2> HIDE DEF tab
  <2>3. PageKnows(streams, t, tab)
    BY <1>1, <1>2, <2>2 DEF PageKnows
  <2>4. \A i \in DOMAIN streams : Fresh(world, due, streams[i], tab)
    BY <2>2 DEF Fresh
  <2> QED BY <1>1, <2>1, <2>2, <2>3, <2>4, OnlyPageKeeps
<1>4. CASE ~world.open
  <2>1. tabs' = [tabs EXCEPT ![t] = Stopped(tabs[t])] /\ streams' = Aborted(t)
    BY <1>4 DEF ReadSnapshot
  <2> QED BY <1>1, <1>2, <2>1, RestingPages, AbortedKeeps
<1> QED BY <1>3, <1>4

(* A panel read, or one whose read fails.                                  *)
LEMMA PanelKeeps ==
  ASSUME Inv, NEW t \in Tabs, ReadPanel(t) \/ PanelFails(t)
  PROVE  Inv'
<1>1. /\ tabs[t].asks # {} /\ UNCHANGED <<world, due, streams>> /\ world.version \in 0..MaxChanges
      /\ trouble' \in 0..MaxTrouble
  BY StreamBounds DEF ReadPanel, PanelFails, Inv, Kept, Worlds
<1>2. tabs[t] \in PageType /\ PageKnows(streams, t, tabs[t]) /\ tabs \in [Tabs -> PageType]
  BY ReaderIsOn DEF Inv, Kept
<1> DEFINE rest == Answered(tabs[t], "panel")
           read == [rest EXCEPT !.seen = world.version, !.missed = FALSE]
           lost == [rest EXCEPT !.missed = TRUE]
<1>3. ASSUME NEW tab \in {read, lost}
      PROVE  /\ tab \in PageType /\ PageKnows(streams, t, tab)
             /\ \A i \in DOMAIN streams : Fresh(world, due, streams[i], tab)
  <2>1. /\ tab \in PageType /\ (tab.seen = world.version \/ tab.missed) /\ tab.status = tabs[t].status
        /\ tab.retry = tabs[t].retry /\ tab.leaving = tabs[t].leaving /\ tab.hidden = tabs[t].hidden
        /\ tab.asks \subseteq tabs[t].asks
    <3>1. CASE tab = read
      BY <1>1, <1>2, <3>1 DEF PageType, Answered
    <3>2. CASE tab = lost
      BY <1>1, <1>2, <3>2 DEF PageType, Answered
    <3> QED BY <3>1, <3>2
  <2> HIDE DEF read, lost
  <2> QED BY <1>2, <2>1 DEF PageKnows, Fresh
<1>4. CASE ReadPanel(t)
  <2>1. tabs' = [tabs EXCEPT ![t] = read]
    BY <1>2, <1>4 DEF ReadPanel
  <2> HIDE DEF read, lost
  <2> QED BY <1>1, <1>3, <2>1, OnlyPageKeeps
<1>5. CASE PanelFails(t)
  <2>1. tabs' = [tabs EXCEPT ![t] = lost]
    BY <1>2, <1>5 DEF PanelFails
  <2> HIDE DEF read, lost
  <2> QED BY <1>1, <1>3, <2>1, OnlyPageKeeps
<1> QED BY <1>4, <1>5

(* A connection cut, a snapshot that fails, a hidden page's stream closed. *)
LEMMA BreaksKeep ==
  ASSUME Inv, NEW t \in Tabs, Cut(t) \/ SnapshotFails(t) \/ HiddenClose(t)
  PROVE  Inv'
<1>1. tabs[t] \in PageType /\ PageKnows(streams, t, tabs[t]) /\ (tabs[t].leaving => tabs[t].hidden)
      /\ trouble \in 0..MaxTrouble
  BY ReaderIsOn DEF Inv
<1>2. trouble < MaxTrouble => trouble + 1 \in 0..MaxTrouble
  BY <1>1, StreamBounds
<1>3. CASE Cut(t)
  <2>1. /\ tabs' = [tabs EXCEPT ![t] = Rescheduled(tabs[t])] /\ streams' = Aborted(t)
        /\ UNCHANGED <<world, due>> /\ trouble' \in 0..MaxTrouble
    BY <1>2, <1>3 DEF Cut
  <2> QED BY <1>1, <2>1, RestingPages, AbortedKeeps
<1>4. CASE SnapshotFails(t)
  <2> DEFINE tab == Answered(tabs[t], "snapshot")
  <2>1. /\ tabs' = [tabs EXCEPT ![t] = Rescheduled(tab)] /\ streams' = Aborted(t)
        /\ UNCHANGED <<world, due>> /\ trouble' \in 0..MaxTrouble
    BY <1>2, <1>4 DEF SnapshotFails
  <2>2. tab \in PageType /\ (tab.leaving => tab.hidden)
    BY <1>1 DEF PageType, Answered
  <2> HIDE DEF tab
  <2> QED BY <2>1, <2>2, RestingPages, AbortedKeeps
<1>5. CASE HiddenClose(t)
  <2> DEFINE tab == [tabs[t] EXCEPT !.leaving = FALSE, !.retry = FALSE, !.status = "paused"]
  <2>1. /\ tabs' = [tabs EXCEPT ![t] = tab] /\ streams' = Aborted(t)
        /\ UNCHANGED <<world, due>> /\ trouble' \in 0..MaxTrouble /\ tabs[t].leaving
    BY <1>1, <1>5 DEF HiddenClose
  <2>2. tab \in PageType /\ Resting(tab)
    BY <1>1, <2>1 DEF PageType, Resting
  <2> HIDE DEF tab
  <2> QED BY <2>1, <2>2, AbortedKeeps
<1> QED BY <1>3, <1>4, <1>5

LEMMA StartRetryKeep ==
  ASSUME Inv, NEW t \in Tabs, Start(t) \/ Retry(t)
  PROVE  Inv'
<1>1. tabs[t] \in PageType /\ PageKnows(streams, t, tabs[t])
  BY ReaderIsOn
<1>2. CASE Start(t)
  <2> DEFINE tab == [tabs[t] EXCEPT !.status = "connecting"]
  <2>1. Connect(t, tab) /\ tabs[t].status = "new" /\ UNCHANGED <<world, due, trouble>>
    BY <1>2 DEF Start
  <2>2. tab \in PageType /\ tab.status = "connecting" /\ ~tab.leaving
    BY <1>1, <2>1 DEF PageType, PageKnows
  <2>3. Alone(streams, t)
    BY <1>1, <2>1 DEF PageKnows
  <2> HIDE DEF tab
  <2> QED BY <2>1, <2>2, <2>3, ConnectKeeps
<1>3. CASE Retry(t)
  BY <1>1, <1>3, ConnectKeeps DEF Retry, PageKnows
<1> QED BY <1>2, <1>3

LEMMA HideShowKeep ==
  ASSUME Inv, NEW t \in Tabs, Hide(t) \/ Show(t)
  PROVE  Inv'
<1>1. /\ tabs[t] \in PageType /\ PageKnows(streams, t, tabs[t]) /\ trouble \in 0..MaxTrouble
      /\ \A i \in DOMAIN streams : streams[i].tab = t => Fresh(world, due, streams[i], tabs[t])
      /\ tabs \in [Tabs -> PageType]
  BY ReaderIsOn DEF Inv, Kept
<1>2. ASSUME NEW tab, tab.seen = tabs[t].seen, tab.asks = tabs[t].asks, tab.missed = tabs[t].missed
      PROVE  \A i \in DOMAIN streams : streams[i].tab = t => Fresh(world, due, streams[i], tab)
  BY <1>1, <1>2 DEF Fresh
<1>3. CASE Hide(t)
  <2> DEFINE tab == [tabs[t] EXCEPT !.hidden = TRUE, !.leaving = tabs[t].status # "new"]
  <2>1. /\ tabs' = [tabs EXCEPT ![t] = tab] /\ UNCHANGED <<world, due, streams>>
        /\ trouble' \in 0..MaxTrouble /\ tabs[t].status # "closed"
    <3>1. tabs' = [tabs EXCEPT ![t].hidden = TRUE, ![t].leaving = tabs[t].status # "new"]
      BY <1>3 DEF Hide
    <3>2. tabs' = [tabs EXCEPT ![t] = tab]
      BY <1>1, <3>1, Zenon
    <3>3. UNCHANGED <<world, due, streams>> /\ tabs[t].status # "closed"
      BY <1>3 DEF Hide
    <3>4. trouble' \in 0..MaxTrouble
      BY <1>1, <1>3, StreamBounds DEF Hide
    <3> QED BY <3>2, <3>3, <3>4
  <2>2. /\ tab \in PageType /\ tab.seen = tabs[t].seen /\ tab.asks = tabs[t].asks
        /\ tab.missed = tabs[t].missed
        /\ tab.status = tabs[t].status /\ tab.hidden = TRUE /\ tab.retry = tabs[t].retry
        /\ tab.leaving = (tabs[t].status # "new")
    BY <1>1 DEF PageType
  <2> HIDE DEF tab
  <2>3. PageKnows(streams, t, tab)
    BY <1>1, <2>1, <2>2 DEF PageKnows
  <2> QED BY <1>2, <2>1, <2>2, <2>3, OnlyPageKeeps
<1>4. CASE Show(t)
  <2> DEFINE tab == [tabs[t] EXCEPT !.hidden = FALSE, !.leaving = FALSE]
             back == [tab EXCEPT !.status = "reconnecting"]
  <2>1. /\ tab \in PageType /\ tab.seen = tabs[t].seen /\ tab.asks = tabs[t].asks
        /\ tab.missed = tabs[t].missed
        /\ tab.status = tabs[t].status /\ tab.hidden = FALSE /\ tab.retry = tabs[t].retry
        /\ tab.leaving = FALSE
    BY <1>1 DEF PageType
  <2>2. back \in PageType /\ back.status = "reconnecting" /\ back.leaving = FALSE
    BY <2>1 DEF PageType
  <2>3. UNCHANGED <<world, due, trouble>>
    BY <1>4 DEF Show
  <2>4. CASE tabs[t].status = "paused"
    <3>1. Connect(t, back)
      BY <1>4, <2>1, <2>4 DEF Show
    <3>2. Alone(streams, t)
      BY <1>1, <2>4 DEF PageKnows
    <3> HIDE DEF tab, back
    <3> QED BY <2>2, <2>3, <3>1, <3>2, ConnectKeeps
  <2>5. CASE tabs[t].status # "paused"
    <3>1. tabs' = [tabs EXCEPT ![t] = tab] /\ UNCHANGED streams
      BY <1>4, <2>1, <2>5 DEF Show
    <3> HIDE DEF tab
    <3>2. PageKnows(streams, t, tab)
      BY <1>1, <2>1, <2>5 DEF PageKnows
    <3> QED BY <1>1, <1>2, <2>1, <2>3, <3>1, <3>2, OnlyPageKeeps
  <2> QED BY <2>4, <2>5
<1> QED BY <1>3, <1>4

------------------------------------------------------------------------------
(* The campaign.                                                           *)

(* What happens in the campaign, told by an event still to be published.   *)
LEMMA CampaignKeeps ==
  ASSUME Inv, Change \/ EndGameSession \/ StartGameSession
  PROVE  Inv'
<1>1. /\ streams \in Seq(StreamType) /\ Kept(world, due, streams, tabs)
      /\ UNCHANGED <<streams, tabs, trouble>> /\ world \in Worlds /\ due \subseteq Events
  BY DEF Inv, Kept, Change, EndGameSession, StartGameSession
<1>2. /\ world' \in Worlds /\ due' \subseteq Events /\ due \subseteq due'
      /\ world.session <= world'.session
  <2>1. CASE Change
    <3>1. [kind |-> "hint", of |-> world.version + 1] \in Events /\ world.version + 1 \in 0..MaxChanges
      BY <1>1, <2>1, StreamBounds DEF Change, Worlds, Events
    <3> QED BY <1>1, <2>1, <3>1, StreamBounds DEF Change, Worlds
  <2>2. CASE EndGameSession
    <3>1. world.open /\ world.session \in 1..MaxEnds /\ world' = [world EXCEPT !.open = FALSE]
          /\ due' = due \cup {Ended(world.session)}
      BY <1>1, <2>2, StreamBounds DEF EndGameSession, Worlds
    <3>2. Ended(world.session) \in Events
      BY <3>1, EndsAndMessages
    <3>3. world' \in Worlds /\ world'.session = world.session
      <4>1. world \in [session : 1..(MaxEnds + 1), open : BOOLEAN, version : 0..MaxChanges]
            /\ world.session <= MaxEnds
        BY <1>1, <3>1 DEF Worlds
      <4>2. world' \in [session : 1..(MaxEnds + 1), open : BOOLEAN, version : 0..MaxChanges]
            /\ world'.session = world.session
        BY <3>1, <4>1
      <4> QED BY <4>1, <4>2 DEF Worlds
    <3>4. world.session <= world'.session
      BY <3>1, <3>3, StreamBounds
    <3> QED BY <1>1, <3>1, <3>2, <3>3, <3>4
  <2>3. CASE StartGameSession
    <3>1. ~world.open /\ world' = [world EXCEPT !.open = TRUE, !.session = @ + 1] /\ due' = due
      BY <2>3 DEF StartGameSession
    <3>2. world.session \in 1..MaxEnds /\ world.version \in 0..MaxChanges
          /\ world \in [session : 1..(MaxEnds + 1), open : BOOLEAN, version : 0..MaxChanges]
      BY <1>1, <3>1, StreamBounds DEF Worlds
    <3>3. world'.open = TRUE /\ world'.session = world.session + 1
          /\ world' \in [session : 1..(MaxEnds + 1), open : BOOLEAN, version : 0..MaxChanges]
      <4>1. world.session + 1 \in 1..(MaxEnds + 1)
        BY <3>2, StreamBounds
      <4> QED BY <3>1, <3>2, <4>1
    <3>4. world.session <= world'.session
      BY <3>2, <3>3, StreamBounds
    <3> QED BY <1>1, <3>1, <3>3, <3>4 DEF Worlds
  <2> QED BY <2>1, <2>2, <2>3
<1>3. \A i \in DOMAIN streams : Sane(world', due', streams[i])
  <2> TAKE i \in DOMAIN streams
  <2> DEFINE st == streams[i]
  <2>1. Sane(world, due, st)
    BY <1>1 DEF Kept
  <2> HIDE DEF st
  <2>2. st.session \in 1..world.session => st.session \in 1..world'.session /\ st.session <= world.session
    BY <1>1, <1>2 DEF Worlds
  <2>3. st.session <= world.session /\ st.session \in Int /\ (~world'.open \/ world'.session # st.session)
        /\ Ended(st.session) \notin due'
        => ~world.open \/ world.session # st.session
    <3>1. CASE Change
      BY <1>1, <3>1 DEF Change, Worlds
    <3>2. CASE EndGameSession
      BY <1>1, <3>2 DEF EndGameSession, Worlds
    <3>3. CASE StartGameSession
      BY <3>3 DEF StartGameSession
    <3> QED BY <3>1, <3>2, <3>3
  <2>4. st.session \in Int
    BY <2>1, StreamBounds DEF Sane, StreamType
  <2> QED BY <1>2, <2>1, <2>2, <2>3, <2>4 DEF Sane, st
<1>4. \A i \in DOMAIN streams : Fresh(world', due', streams[i], tabs[streams[i].tab])
  <2>1. world'.version = world.version \/ \E e \in due' : e.kind = "hint"
    <3>1. CASE Change
      <4>1. [kind |-> "hint", of |-> world.version + 1] \in due'
        BY <3>1 DEF Change
      <4> QED BY <4>1
    <3>2. CASE EndGameSession \/ StartGameSession
      BY <1>1, <3>2 DEF EndGameSession, StartGameSession, Worlds
    <3> QED BY <3>1, <3>2
  <2> QED BY <1>1, <1>2, <2>1 DEF Kept, Fresh
<1> QED BY <1>1, <1>2, <1>3, <1>4 DEF Inv, Kept

(* A finite set put in a sequence, each element once.                      *)
LEMMA SequenceOfSet ==
  ASSUME NEW S, IsFiniteSet(S)
  PROVE  /\ SetToSeq(S) \in Seq(S)
         /\ \A j, k \in DOMAIN SetToSeq(S) : SetToSeq(S)[j] = SetToSeq(S)[k] => j = k
<1>1. Cardinality(S) \in Nat /\ ExistsBijection(1..Cardinality(S), S)
  BY FS_CardinalityType
<1>2. \E f \in [1..Cardinality(S) -> S] : IsInjective(f)
  BY <1>1 DEF ExistsBijection, Bijection, Injection
<1>3. SetToSeq(S) \in [1..Cardinality(S) -> S] /\ IsInjective(SetToSeq(S))
  BY <1>2 DEF SetToSeq
<1> QED BY <1>1, <1>3 DEF IsInjective

LEMMA RestartKeeps ==
  ASSUME Inv, Restart
  PROVE  Inv'
<1> DEFINE over(st) == Over([st EXCEPT !.wire = <<>>], [kind |-> "end"])
           g == [i \in DOMAIN streams |-> over(streams[i])]
           heard == {i \in DOMAIN streams : streams[i].heard}
           S == {g[i] : i \in heard}
<1>1. streams \in Seq(StreamType) /\ Kept(world, due, streams, tabs) /\ UNCHANGED <<world, tabs>>
      /\ due' = {} /\ trouble' \in 0..MaxTrouble
  BY StreamBounds DEF Inv, Restart
<1>2. streams' = SetToSeq(S)
  <2>1. {over(st) : st \in {s \in ToSet(streams) : s.heard}} = S
    BY <1>1 DEF ToSet
  <2> QED BY <2>1 DEF Restart
<1>3. \A i \in DOMAIN streams : /\ Sane(world, {}, g[i]) /\ Fresh(world, {}, g[i], tabs[g[i].tab])
                                /\ g[i].tab = streams[i].tab /\ g[i].heard = streams[i].heard /\ ~g[i].sub
  <2> TAKE i \in DOMAIN streams
  <2> DEFINE x == [streams[i] EXCEPT !.wire = <<>>]
  <2>1. x \in StreamType /\ x.tab = streams[i].tab /\ x.heard = streams[i].heard
    <3>1. <<>> \in Seq(Messages) /\ streams[i] \in StreamType
      BY <1>1
    <3> QED BY <3>1 DEF StreamType
  <2>2. g[i] = Over(x, [kind |-> "end"]) /\ [kind |-> "end"] \in Messages
    BY PlainMessages
  <2> HIDE DEF x, g
  <2> QED BY <2>1, <2>2, OverIsSane
<1>4. DOMAIN g = DOMAIN streams
  OBVIOUS
<1> HIDE DEF g, over
<1>5. Kept(world, {}, g, tabs)
  <2>1. OneReader(g)
    BY <1>1, <1>3, <1>4 DEF Kept, OneReader
  <2>2. \A t \in Tabs : PageKnows(g, t, tabs[t])
    <3>1. \A t \in Tabs : Alone(streams, t) => Alone(g, t)
      BY <1>3, <1>4 DEF Alone
    <3> QED BY <1>1, <3>1 DEF Kept, PageKnows
  <2>3. UnderTheCap(g)
    BY <1>1, <1>3, <1>4, FewerHeld DEF Kept
  <2> QED BY <1>1, <1>3, <1>4, <2>1, <2>2, <2>3 DEF Kept
<1>6. SomeOf(SetToSeq(S), g)
  <2>1. IsFiniteSet(S)
    <3>1. IsFiniteSet(1..Len(streams)) /\ DOMAIN streams = 1..Len(streams)
      BY <1>1, FS_Interval
    <3>2. IsFiniteSet(heard)
      BY <3>1, FS_Subset
    <3>3. [i \in heard |-> g[i]] \in Surjection(heard, S)
      BY DEF Surjection
    <3> QED BY <3>2, <3>3, FS_Surjection
  <2> DEFINE ss == SetToSeq(S)
             f == [j \in DOMAIN ss |-> CHOOSE i \in heard : g[i] = ss[j]]
  <2>2. ss \in Seq(S) /\ \A j, k \in DOMAIN ss : ss[j] = ss[k] => j = k
    BY <2>1, SequenceOfSet
  <2>3. S \subseteq StreamType
    BY <1>3 DEF Sane
  <2> HIDE DEF ss
  <2>4. \A j \in DOMAIN ss : ss[j] \in S
    BY <2>2
  <2>5. \A j \in DOMAIN ss : f[j] \in heard /\ g[f[j]] = ss[j]
    <3> HIDE DEF heard
    <3> QED BY <2>4
  <2>6. ss \in Seq(StreamType)
    BY <2>2, <2>3
  <2>7. f \in [DOMAIN ss -> DOMAIN g]
    BY <1>4, <2>5
  <2>8. \A j, k \in DOMAIN ss : f[j] = f[k] => j = k
    <3> HIDE DEF f
    <3> QED BY <2>2, <2>5
  <2> HIDE DEF f
  <2>9. SomeOf(ss, g)
    BY <2>5, <2>6, <2>7, <2>8 DEF SomeOf
  <2> QED BY <2>9 DEF ss
<1> HIDE DEF S
<1>7. Kept(world, {}, streams', tabs) /\ streams' \in Seq(StreamType)
  BY <1>2, <1>5, <1>6, SomeAreKept DEF SomeOf
<1> QED BY <1>1, <1>7 DEF Inv

------------------------------------------------------------------------------
(* The invariant.                                                          *)

LEMMA InitInv == Init => Inv
<1> SUFFICES ASSUME Init
             PROVE  Inv
  OBVIOUS
<1>1. streams = <<>> /\ due = {} /\ trouble = 0
  BY DEF Init
<1>2. streams \in Seq(StreamType) /\ DOMAIN streams = {}
  BY <1>1
<1>3. world \in Worlds /\ trouble \in 0..MaxTrouble
  <2>1. world = [session |-> 1, open |-> TRUE, version |-> 0]
    BY DEF Init
  <2>2. 1 \in 1..(MaxEnds + 1) /\ 0 \in 0..MaxChanges /\ 0 \in 0..MaxTrouble
    BY StreamBounds
  <2> QED BY <1>1, <2>1, <2>2 DEF Worlds
<1>4. tabs \in [Tabs -> PageType]
  <2>1. 0 \in 0..MaxChanges
    BY StreamBounds
  <2>2. [status : {"new"}, retry : {FALSE}, hidden : BOOLEAN, leaving : {FALSE},
       asks : {{}}, missed : {FALSE}, seen : {0}]
        \subseteq PageType
    BY <2>1 DEF PageType
  <2> QED BY <2>2 DEF Init
<1>5. UnderTheCap(streams)
  <2>1. HeldIn(streams) = {}
    BY <1>2 DEF HeldIn
  <2> QED BY <2>1, FS_EmptySet, StreamBounds DEF UnderTheCap
<1>6. \A t \in Tabs : PageKnows(streams, t, tabs[t])
  BY <1>2 DEF Init, PageKnows, Alone
<1> QED BY <1>1, <1>2, <1>3, <1>4, <1>5, <1>6 DEF Inv, Kept, OneReader

LEMMA NextInv == Inv /\ [Next]_vars => Inv'
<1> SUFFICES ASSUME Inv, [Next]_vars
             PROVE  Inv'
  OBVIOUS
<1>1. CASE \E i \in DOMAIN streams : StreamSteps(i) \/ Lifetime(i) \/ Recheck(i)
  BY <1>1, StreamsKeep, SubscribeKeeps DEF StreamSteps
<1>2. CASE \E t \in Tabs : Page(t)
  BY <1>2, StartRetryKeep, HearKeeps, SnapshotKeeps, PanelKeeps, BreaksKeep, HideShowKeep DEF Page
<1>3. CASE Campaign
  BY <1>3, CampaignKeeps, RestartKeeps, PublishKeeps DEF Campaign
<1>4. CASE UNCHANGED vars
  BY <1>4 DEF vars, Inv
<1> QED BY <1>1, <1>2, <1>3, <1>4 DEF Next

LEMMA AlwaysInv == Spec => []Inv
  BY InitInv, NextInv, PTL DEF Spec

(* The cap of a person's subscriptions holds, and no page reads two        *)
(* connections or one it gave up, whatever connects, ends and restarts.    *)
THEOREM StreamTypes == Spec => []TypeOK
<1>1. Inv => TypeOK
  <2> SUFFICES ASSUME Inv
               PROVE  TypeOK
    OBVIOUS
  <2>1. world \in [session : 1..(MaxEnds + 1), open : BOOLEAN, version : 0..MaxChanges]
        /\ due \subseteq Events /\ trouble \in 0..MaxTrouble /\ tabs \in [Tabs -> PageType]
    BY DEF Inv, Kept, Worlds
  <2>2. ASSUME NEW i \in DOMAIN streams
        PROVE  LET st == streams[i]
               IN  /\ st.tab \in Tabs /\ st.session \in 0..(MaxEnds + 1)
                   /\ {st.heard, st.sub, st.pending} \subseteq BOOLEAN
                   /\ st.at \in {"called", "subscribed", "waits", "received", "taken", "over"}
                   /\ Len(st.queue) <= Buffer /\ ToSet(st.queue) \subseteq Events
                   /\ st.hand \in Events \cup {None} /\ ToSet(st.wire) \subseteq Messages
                   /\ st.at = "over" => ~st.sub
    <3> DEFINE st == streams[i]
    <3>1. st \in StreamType /\ Len(st.queue) <= Buffer /\ (st.at = "over" => ~st.sub)
      BY DEF Inv, Kept, Sane
    <3>2. st.queue \in Seq(Events) /\ st.wire \in Seq(Messages)
      BY <3>1 DEF StreamType
    <3> HIDE DEF st
    <3>3. ToSet(st.queue) \subseteq Events /\ ToSet(st.wire) \subseteq Messages
      BY <3>2 DEF ToSet
    <3> QED BY <3>1, <3>3 DEF StreamType, st
  <2>3. Cardinality(Held) <= MaxPerUser
    BY DEF Inv, Kept, UnderTheCap, HeldIn, Held
  <2>4. ASSUME NEW t \in Tabs
        PROVE  /\ Cardinality(Reads(t)) <= 1
               /\ tabs[t].status \in {"new", "paused", "closed"} =>
                      Reads(t) = {} /\ (tabs[t].asks # {} => tabs[t].status = "paused")
    <3>1. PageKnows(streams, t, tabs[t]) /\ OneReader(streams)
      BY DEF Inv, Kept
    <3>2. \A i, j \in Reads(t) : i = j
      BY <3>1 DEF OneReader, Reads
    <3>3. Cardinality(Reads(t)) <= 1
      <4>1. CASE Reads(t) = {}
        BY <4>1, FS_EmptySet
      <4>2. CASE Reads(t) # {}
        <5>1. PICK i : Reads(t) = {i}
          BY <3>2, <4>2
        <5>2. Cardinality({i}) = 1
          BY FS_Singleton
        <5> QED BY <5>1, <5>2
      <4> QED BY <4>1, <4>2
    <3>4. Alone(streams, t) => Reads(t) = {}
      BY DEF Alone, Reads
    <3> QED BY <3>1, <3>3, <3>4 DEF PageKnows
  <2> QED BY <2>1, <2>2, <2>3, <2>4 DEF TypeOK, PageType
<1> QED BY <1>1, AlwaysInv, PTL

(* Once the end of a session is published every stream of that session that*)
(* is still subscribed has it at hand: no end is lost in between.          *)
THEOREM EndsAreHeard == Spec => []EndIsHeard
<1>1. Inv => EndIsHeard
  <2> SUFFICES ASSUME Inv, NEW i \in Held,
                      streams[i].at \in Streaming, ~world.open \/ world.session # streams[i].session,
                      Ended(streams[i].session) \notin due
               PROVE  \/ streams[i].hand = Ended(streams[i].session)
                      \/ Ended(streams[i].session) \in ToSet(streams[i].queue)
    BY DEF EndIsHeard, Streaming
  <2>1. Sane(world, due, streams[i]) /\ streams[i].sub
    BY DEF Inv, Kept, Held
  <2>2. EndComes(streams[i])
    BY <2>1 DEF Sane
  <2> QED BY <2>2 DEF EndComes, ToSet
<1> QED BY <1>1, AlwaysInv, PTL

(* No change is lost between the snapshot of `ready`, the queue and a hint *)
(* that stands for another: a live page at rest shows the latest, unless   *)
(* its own last read of the panel failed.                                  *)
THEOREM QuietPagesAreFresh == Spec => []QuietPageIsFresh
<1>1. Inv => QuietPageIsFresh
  <2> SUFFICES ASSUME Inv, due = {}, NEW t \in Tabs, NEW i \in Reads(t),
                      tabs[t].asks = {}, ~tabs[t].missed, Idle(i)
               PROVE  tabs[t].seen = world.version
    BY DEF QuietPageIsFresh
  <2>1. i \in DOMAIN streams /\ streams[i].tab = t /\ streams[i].heard
    BY DEF Reads
  <2>2. Fresh(world, due, streams[i], tabs[t])
    BY <2>1 DEF Inv, Kept
  <2>3. ~HintComes(streams[i])
    BY DEF Idle, HintComes, HasHint
  <2> QED BY <2>1, <2>2, <2>3 DEF Fresh, Idle, Streaming
<1> QED BY <1>1, AlwaysInv, PTL

=============================================================================
