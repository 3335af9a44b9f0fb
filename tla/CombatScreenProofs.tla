------------------------- MODULE CombatScreenProofs -------------------------
(* Theorems about CombatScreen: what a settled screen shows is the combat  *)
(* as it is, for any number of changes, reads, calls, drops and restarts.  *)
EXTENDS CombatScreen, TLAPS

Copies == [revision : Nat, turn : Nat, place : Nat, rest : Nat]
ReadType == [served : Copies \cup {None}, attempt : Nat, disturbed : BOOLEAN, overtaken : BOOLEAN]
EventType ==
    [kind : {"ready"}] \cup [kind : {"encounter_changed"}, revision : Nat]
    \cup [kind : {"turn_changed"}, revision : Nat, turn : Nat, go : Goes]
    \cup [kind : {"combatant_moved"}, place : Nat]
CallType == [at : Nat, kind : Kinds, mine : BOOLEAN, read : Copies \cup {None}, failed : BOOLEAN,
             events : Seq(EventType)]
ScreenType ==
    [master : BOOLEAN, copy : Copies, whole : BOOLEAN, reads : Seq(ReadType),
     retries : Nat, snapshot : BOOLEAN, busy : BOOLEAN, calls : Nat]
PastType ==
    [seen : [turn : Nat, place : Nat], read : Nat, readyAt : Nat, gaveUp : Nat,
     lost : SUBSET Nat, crossed : BOOLEAN]
ServerType == [revision : Nat, turn : Nat, place : Nat, rest : Nat, go : Goes]

Types ==
    /\ server \in ServerType /\ telling \subseteq CallType
    /\ stream \in [queue : Seq(EventType), drops : Nat]
    /\ screen \in ScreenType /\ past \in PastType

(* The invariant is told of any server `sv`, screen `s` and past `p`.      *)

(* A copy that was the combat at its revision.                             *)
CopyOk(sv, c) ==
    /\ c.revision <= sv.revision /\ c.turn <= sv.turn /\ c.place <= sv.place
    /\ sv.turn <= c.revision => c.turn = sv.turn
    /\ sv.rest <= c.revision => c.rest = sv.rest
    /\ sv.place <= c.revision => c.place = sv.place

EventOk(sv, e) ==
    /\ e.kind = "turn_changed" =>
        /\ e.revision <= sv.revision /\ e.turn <= sv.turn
        /\ sv.turn <= e.revision => e.turn = sv.turn
    /\ e.kind = "combatant_moved" => e.place <= sv.place

CallOk(sv, t) ==
    /\ t.read # None => CopyOk(sv, t.read)
    /\ t.read = None => t.events = <<>>
    /\ t.failed => t.read = None
    /\ \A k \in DOMAIN t.events : EventOk(sv, t.events[k])
    /\ t.kind = "move" =>
        t.at <= sv.place /\ \A k \in DOMAIN t.events : t.events[k].kind = "combatant_moved"

ServerOk(sv) == sv.turn <= sv.revision /\ sv.place <= sv.revision /\ sv.rest <= sv.revision

(* What the copy shows is of its revision, but for what was set back by an *)
(* event without one and what a patch left out.                            *)
Shown(sv, s, p) ==
    /\ s.copy.revision <= sv.revision /\ p.read <= sv.revision /\ p.readyAt <= sv.revision
    /\ s.copy.turn <= p.seen.turn /\ s.copy.place <= p.seen.place
    /\ p.seen.turn <= sv.turn /\ p.seen.place <= sv.place
    /\ sv.turn <= s.copy.revision => p.seen.turn = sv.turn
    /\ s.master /\ sv.turn <= s.copy.revision => s.copy.turn = sv.turn
    /\ s.whole /\ sv.rest <= s.copy.revision => s.copy.rest = sv.rest

(* A read that is shown brings at least revision n.                        *)
Brings(r, n) == r.served = None \/ r.served.revision >= n

(* An undisturbed read takes the copy back only behind another read.       *)
ReadsOk(sv, s, p) ==
    /\ \A i \in DOMAIN s.reads : s.reads[i].served # None => CopyOk(sv, s.reads[i].served)
    /\ \A i \in DOMAIN s.reads : ~s.reads[i].disturbed =>
            Brings(s.reads[i], s.copy.revision) \/ s.copy.revision <= p.read

ScreenOk(sv, s, p) == Shown(sv, s, p) /\ ReadsOk(sv, s, p)

(* How the screen comes to revision n, or had it: the last read will bring *)
(* it or a read is to be tried again, unless the last one was given up when*)
(* the combat was there already, or an older copy came over it.            *)
LastBrings(s, n) ==
    s.reads # <<>> /\ LET r == s.reads[Len(s.reads)] IN ~r.overtaken /\ Brings(r, n)
GaveUp(p, n) == n <= p.gaveUp
WentBack(p, n) == p.crossed /\ n <= p.read
Reading(s, p, n) ==
    s.snapshot \/ s.retries > 0 \/ LastBrings(s, n) \/ GaveUp(p, n) \/ WentBack(p, n)

Has(s, p, n) == Reading(s, p, n) \/ n <= s.copy.revision

(* All of the combat is on screen, the places at least once.               *)
Full(sv, s, p) ==
    \/ Reading(s, p, sv.revision)
    \/ s.copy.revision = sv.revision /\ s.copy.rest = sv.rest /\ p.seen.place = sv.place

(* Somebody will still tell of revision n.                                 *)
Tells(e, n) == e.kind = "ready" \/ (e.kind = "encounter_changed" /\ e.revision >= n)
ToBeTold(T, q, n) ==
    \/ \E t \in T : t.kind # "move" /\ t.at = n /\ t.read = None /\ ~t.failed
    \/ \E t \in T : \E k \in DOMAIN t.events : Tells(t.events[k], n)
    \/ \E k \in DOMAIN q : Tells(q[k], n)

(* The last change of the turn and the last of the rest reach the screen,  *)
(* unless nobody was told of them.                                         *)
Covered(sv, T, q, s, p) ==
    \A n \in {sv.turn, sv.rest} : n \in p.lost \/ ToBeTold(T, q, n) \/ Has(s, p, n)

Inv ==
    /\ Types /\ ServerOk(server)
    /\ \A t \in telling : CallOk(server, t)
    /\ \A k \in DOMAIN stream.queue : EventOk(server, stream.queue[k])
    /\ ScreenOk(server, screen, past)
    /\ Covered(server, telling, stream.queue, screen, past)
    /\ past.readyAt = server.revision => Full(server, screen, past)

(* A step of the screen that loses nothing it had or was to read.          *)
Keeps(sv, s, p, x, y) ==
    /\ \A n \in 0..sv.revision : Has(s, p, n) => Has(x, y, n)
    /\ Full(sv, s, p) => Full(sv, x, y)

------------------------------------------------------------------------------
(* Operations on a screen.                                                 *)

(* A read that begins brings whatever there is.                            *)
LEMMA BegunRead ==
  ASSUME NEW sv \in ServerType, NEW p \in PastType, NEW s \in ScreenType, ScreenOk(sv, s, p), NEW a \in Nat
  PROVE  /\ BeginRead(s, a) \in ScreenType /\ ScreenOk(sv, BeginRead(s, a), p)
         /\ Keeps(sv, s, p, BeginRead(s, a), p)
         /\ \A n \in Nat : Has(BeginRead(s, a), p, n) /\ Full(sv, BeginRead(s, a), p)
<1> DEFINE r == Read(a)
           x == [s EXCEPT !.reads = Append(@, r)]
           rs == s.reads
           N == Len(rs)
<1>1. BeginRead(s, a) = x
  BY DEF BeginRead
<1>2. r \in ReadType /\ r.served = None /\ r.disturbed = FALSE /\ r.overtaken = FALSE
  BY DEF Read, ReadType
<1>3. rs \in Seq(ReadType) /\ N \in Nat /\ DOMAIN rs = 1..N
  BY DEF ScreenType
<1> HIDE DEF r
<1>4. Append(rs, r) \in Seq(ReadType)
  BY <1>2, <1>3
<1>5. x \in ScreenType
  BY <1>4 DEF ScreenType
<1>6. /\ x.reads = Append(rs, r) /\ x.copy = s.copy /\ x.master = s.master /\ x.whole = s.whole
      /\ x.snapshot = s.snapshot /\ x.retries = s.retries
  BY DEF ScreenType
<1> HIDE DEF x, rs
<1>7. /\ Len(x.reads) = N + 1 /\ DOMAIN x.reads = 1..(N + 1) /\ x.reads[N + 1] = r /\ x.reads # <<>>
      /\ \A i \in 1..N : x.reads[i] = rs[i]
  BY <1>2, <1>3, <1>6
<1> HIDE DEF N
<1>8. \A i \in DOMAIN x.reads : i = N + 1 \/ (i \in DOMAIN rs /\ x.reads[i] = rs[i])
  BY <1>3, <1>7
<1>9. ScreenOk(sv, x, p)
  <2>1. Shown(sv, x, p)
    BY <1>6 DEF ScreenOk, Shown
  <2>2. \A i \in DOMAIN x.reads : x.reads[i].served # None => CopyOk(sv, x.reads[i].served)
    BY <1>2, <1>7, <1>8 DEF ScreenOk, ReadsOk, rs
  <2>3. \A i \in DOMAIN x.reads : ~x.reads[i].disturbed =>
            Brings(x.reads[i], x.copy.revision) \/ x.copy.revision <= p.read
    BY <1>2, <1>6, <1>7, <1>8 DEF ScreenOk, ReadsOk, rs, Brings
  <2> QED BY <2>1, <2>2, <2>3 DEF ScreenOk, ReadsOk
<1>10. \A n : LastBrings(x, n)
  BY <1>2, <1>7 DEF LastBrings, Brings
<1> QED BY <1>1, <1>5, <1>9, <1>10 DEF Keeps, Has, Full, Reading

(* A sequence without its i-th element.                                    *)
LEMMA RemovedOne ==
  ASSUME NEW S, NEW s \in Seq(S), NEW i \in DOMAIN s
  PROVE  /\ RemoveAt(s, i) \in Seq(S)
         /\ DOMAIN RemoveAt(s, i) = 1..(Len(s) - 1)
         /\ \A j \in 1..(Len(s) - 1) : RemoveAt(s, i)[j] = s[IF j < i THEN j ELSE j + 1]
<1>1. i \in 1..Len(s) /\ Len(s) \in Nat
  OBVIOUS
<1> DEFINE a == SubSeq(s, 1, i - 1)
           b == SubSeq(s, i + 1, Len(s))
<1>2. a \in Seq(S) /\ Len(a) = i - 1 /\ \A j \in 1..(i - 1) : a[j] = s[j]
  BY <1>1
<1>3. b \in Seq(S) /\ Len(b) = Len(s) - i /\ \A j \in 1..(Len(s) - i) : b[j] = s[j + i]
  BY <1>1
<1>4. RemoveAt(s, i) = a \o b
  BY DEF RemoveAt
<1> HIDE DEF a, b
<1>5. a \o b \in Seq(S) /\ Len(a \o b) = Len(s) - 1
  BY <1>1, <1>2, <1>3
<1>6. ASSUME NEW j \in 1..(Len(s) - 1)
      PROVE  (a \o b)[j] = s[IF j < i THEN j ELSE j + 1]
  <2>1. CASE j < i
    BY <1>1, <1>2, <1>3, <2>1
  <2>2. CASE ~(j < i)
    <3>1. j - (i - 1) \in 1..(Len(s) - i) /\ j \in Nat /\ i \in Nat
      BY <1>1, <2>2
    <3>2. j > Len(a) /\ j \in 1..(Len(a) + Len(b))
      BY <1>1, <1>2, <1>3, <2>2
    <3>3. (a \o b)[j] = b[j - Len(a)]
      <4>1. Len(a) \in Nat /\ Len(b) \in Nat /\ ~(j <= Len(a)) /\ j \in Int
        BY <1>2, <1>3, <3>1, <3>2
      <4> QED BY <1>2, <1>3, <3>2, <4>1, SMTT(30)
    <3>4. b[j - (i - 1)] = s[(j - (i - 1)) + i] /\ (j - (i - 1)) + i = j + 1
      BY <1>1, <1>3, <3>1
    <3> QED BY <1>2, <2>2, <3>3, <3>4
  <2> QED BY <2>1, <2>2
<1> QED BY <1>1, <1>4, <1>5, <1>6

(* Of the reads in the air, the one that answered is taken out; those begun*)
(* before it may be marked as overtaken.                                   *)
LEMMA OneReadLess ==
  ASSUME NEW s \in ScreenType, NEW i \in DOMAIN s.reads, NEW x \in ScreenType,
         DOMAIN x.reads = 1..(Len(s.reads) - 1),
         \A j \in DOMAIN x.reads : LET k == IF j < i THEN j ELSE j + 1 IN
            /\ x.reads[j].served = s.reads[k].served /\ x.reads[j].disturbed = s.reads[k].disturbed
            /\ s.reads[k].overtaken => x.reads[j].overtaken
            /\ j >= i => x.reads[j] = s.reads[k]
  PROVE  /\ \A j \in DOMAIN x.reads : \E k \in DOMAIN s.reads :
                /\ k # i
                /\ x.reads[j].served = s.reads[k].served /\ x.reads[j].disturbed = s.reads[k].disturbed
                /\ s.reads[k].overtaken => x.reads[j].overtaken
         /\ i # Len(s.reads) => \A n : LastBrings(s, n) => LastBrings(x, n)
<1> DEFINE rs == s.reads
           xs == x.reads
           N == Len(rs)
           f(j) == IF j < i THEN j ELSE j + 1
<1>1. N \in Nat /\ DOMAIN rs = 1..N /\ i \in 1..N /\ DOMAIN xs = 1..(N - 1) /\ xs \in Seq(ReadType)
  BY DEF ScreenType
<1>2. \A j \in DOMAIN xs : f(j) \in DOMAIN rs /\ f(j) # i
  BY <1>1
<1>3. \A j \in DOMAIN xs : /\ xs[j].served = rs[f(j)].served /\ xs[j].disturbed = rs[f(j)].disturbed
                           /\ rs[f(j)].overtaken => xs[j].overtaken
                           /\ j >= i => xs[j] = rs[f(j)]
  OBVIOUS
<1>6. ASSUME i # N
      PROVE  xs # <<>> /\ Len(xs) = N - 1 /\ N - 1 \in DOMAIN xs /\ xs[N - 1] = rs[N]
  <2>1. N - 1 \in DOMAIN xs /\ N - 1 >= i /\ f(N - 1) = N
    BY <1>1, <1>6
  <2>2. Len(xs) = N - 1 /\ xs # <<>>
    <3> HIDE DEF xs
    <3>1. xs \in Seq(ReadType) /\ DOMAIN xs = 1..(N - 1) /\ N - 1 \in Nat /\ N - 1 \in DOMAIN xs
      BY <1>1, <2>1
    <3>2. DOMAIN xs = 1..Len(xs) /\ Len(xs) \in Nat
      BY <3>1
    <3> HIDE DEF N
    <3> QED BY <3>1, <3>2
  <2>3. xs[N - 1] = rs[f(N - 1)]
    BY <1>3, <2>1
  <2> QED BY <2>1, <2>2, <2>3
<1> HIDE DEF rs, xs, N, f
<1>7. i # N => \A n : LastBrings(s, n) => LastBrings(x, n)
  BY <1>6 DEF LastBrings, rs, xs, N
<1>10. \A j \in DOMAIN xs : \E k \in DOMAIN rs :
                /\ k # i
                /\ xs[j].served = rs[k].served /\ xs[j].disturbed = rs[k].disturbed
                /\ rs[k].overtaken => xs[j].overtaken
  BY <1>2, <1>3
<1> QED BY <1>7, <1>10 DEF rs, xs, N

(* The screen without one of its reads.                                    *)
Left(s, i) == [s EXCEPT !.reads = RemoveAt(@, i)]

(* One read less: what another read was to bring it still brings.          *)
LEMMA LeftScreen ==
  ASSUME NEW sv \in ServerType, NEW p \in PastType, NEW s \in ScreenType, ScreenOk(sv, s, p),
         NEW i \in DOMAIN s.reads
  PROVE  /\ Left(s, i) \in ScreenType /\ ScreenOk(sv, Left(s, i), p)
         /\ Left(s, i).copy = s.copy /\ Left(s, i).snapshot = s.snapshot /\ Left(s, i).master = s.master
         /\ Left(s, i).retries = s.retries
         /\ DOMAIN Left(s, i).reads = 1..(Len(s.reads) - 1)
         /\ \A j \in DOMAIN Left(s, i).reads : Left(s, i).reads[j] = s.reads[IF j < i THEN j ELSE j + 1]
         /\ i # Len(s.reads) => \A n : LastBrings(s, n) => LastBrings(Left(s, i), n)
<1> DEFINE rs == s.reads
           xs == RemoveAt(rs, i)
           x == Left(s, i)
<1>1. rs \in Seq(ReadType) /\ i \in DOMAIN rs
  BY DEF ScreenType
<1>2. /\ xs \in Seq(ReadType) /\ DOMAIN xs = 1..(Len(rs) - 1)
      /\ \A j \in 1..(Len(rs) - 1) : xs[j] = rs[IF j < i THEN j ELSE j + 1]
  BY <1>1, RemovedOne
<1> HIDE DEF xs
<1>3. x = [s EXCEPT !.reads = xs]
  BY DEF Left, xs
<1> HIDE DEF x
<1>4. x \in ScreenType /\ x.reads = xs /\ x.copy = s.copy /\ x.snapshot = s.snapshot /\ x.master = s.master
      /\ x.whole = s.whole /\ x.retries = s.retries
  BY <1>2, <1>3 DEF ScreenType
<1>5. \A j \in DOMAIN x.reads : x.reads[j] = s.reads[IF j < i THEN j ELSE j + 1]
  BY <1>2, <1>4
<1>6. DOMAIN x.reads = 1..(Len(s.reads) - 1)
  BY <1>2, <1>4
<1> HIDE DEF rs
<1>7. \A j \in DOMAIN x.reads : LET k == IF j < i THEN j ELSE j + 1 IN
            /\ x.reads[j].served = s.reads[k].served /\ x.reads[j].disturbed = s.reads[k].disturbed
            /\ s.reads[k].overtaken => x.reads[j].overtaken
            /\ j >= i => x.reads[j] = s.reads[k]
  BY <1>5
<1>8. /\ \A j \in DOMAIN x.reads : \E k \in DOMAIN s.reads :
                /\ k # i
                /\ x.reads[j].served = s.reads[k].served /\ x.reads[j].disturbed = s.reads[k].disturbed
                /\ s.reads[k].overtaken => x.reads[j].overtaken
      /\ i # Len(s.reads) => \A n : LastBrings(s, n) => LastBrings(x, n)
  BY <1>4, <1>6, <1>7, OneReadLess
<1>9. ScreenOk(sv, x, p)
  <2>1. Shown(sv, x, p)
    BY <1>4 DEF ScreenOk, Shown
  <2>2. \A j \in DOMAIN x.reads : x.reads[j].served # None => CopyOk(sv, x.reads[j].served)
    BY <1>8 DEF ScreenOk, ReadsOk
  <2>3. \A j \in DOMAIN x.reads : ~x.reads[j].disturbed =>
            Brings(x.reads[j], x.copy.revision) \/ x.copy.revision <= p.read
    BY <1>4, <1>8 DEF ScreenOk, ReadsOk, Brings
  <2> QED BY <1>8, <2>1, <2>2, <2>3 DEF ScreenOk, ReadsOk
<1> QED BY <1>4, <1>5, <1>6, <1>8, <1>9 DEF x, ScreenOk, ReadsOk

SeenOf(p, c) == [turn |-> Newest(p.seen.turn, c.turn), place |-> Newest(p.seen.place, c.place)]

(* The newer of two revisions.                                             *)
LEMMA NewestIs ==
  \A a, b \in Nat : Newest(a, b) \in Nat /\ Newest(a, b) >= a /\ Newest(a, b) >= b
                    /\ (Newest(a, b) = a \/ Newest(a, b) = b)
BY DEF Newest

(* What a copy that was the combat adds to what was seen.                  *)
LEMMA SeenMore ==
  ASSUME NEW sv \in ServerType, NEW p \in PastType, NEW c \in Copies,
         p.seen.turn <= sv.turn, p.seen.place <= sv.place, c.turn <= sv.turn, c.place <= sv.place
  PROVE  LET z == SeenOf(p, c)
         IN  /\ z \in [turn : Nat, place : Nat]
             /\ z.turn >= c.turn /\ z.place >= c.place /\ z.turn >= p.seen.turn /\ z.place >= p.seen.place
             /\ z.turn <= sv.turn /\ z.place <= sv.place
<1>1. p.seen.turn \in Nat /\ p.seen.place \in Nat /\ c.turn \in Nat /\ c.place \in Nat
  BY DEF PastType, Copies
<1>2. /\ SeenOf(p, c).turn = Newest(p.seen.turn, c.turn)
      /\ SeenOf(p, c).place = Newest(p.seen.place, c.place)
      /\ SeenOf(p, c) = [turn |-> Newest(p.seen.turn, c.turn), place |-> Newest(p.seen.place, c.place)]
  BY DEF SeenOf
<1> DEFINE a == Newest(p.seen.turn, c.turn)
           b == Newest(p.seen.place, c.place)
<1>3. a \in Nat /\ a >= p.seen.turn /\ a >= c.turn /\ (a = p.seen.turn \/ a = c.turn)
  BY <1>1, NewestIs
<1>4. b \in Nat /\ b >= p.seen.place /\ b >= c.place /\ (b = p.seen.place \/ b = c.place)
  BY <1>1, NewestIs
<1>5. a <= sv.turn
  BY <1>3
<1>6. b <= sv.place
  BY <1>4
<1>7. SeenOf(p, c).turn = a /\ SeenOf(p, c).place = b /\ SeenOf(p, c) = [turn |-> a, place |-> b]
  BY <1>2
<1> HIDE DEF a, b
<1>8. SeenOf(p, c) \in [turn : Nat, place : Nat]
  BY <1>3, <1>4, <1>7
<1> QED BY <1>3, <1>4, <1>5, <1>6, <1>7, <1>8

(* The screen when read i is shown: those begun before it are overtaken.   *)
WithRead(s, i) ==
    [Left(s, i) EXCEPT !.copy = s.reads[i].served, !.whole = TRUE,
        !.reads = [j \in DOMAIN @ |-> IF j < i THEN [@[j] EXCEPT !.overtaken = TRUE] ELSE @[j]]]

(* The screen with a read shown, and the reads left in the air.            *)
LEMMA WithReadType ==
  ASSUME NEW sv \in ServerType, NEW p \in PastType, NEW s \in ScreenType, ScreenOk(sv, s, p),
         NEW i \in DOMAIN s.reads, s.reads[i].served \in Copies
  PROVE  LET x == WithRead(s, i)
         IN  /\ x \in ScreenType /\ x.copy = s.reads[i].served /\ x.master = s.master
             /\ x.snapshot = s.snapshot /\ x.retries = s.retries /\ x.whole
             /\ \A j \in DOMAIN x.reads : \E k \in DOMAIN s.reads :
                    x.reads[j].served = s.reads[k].served /\ x.reads[j].disturbed = s.reads[k].disturbed
             /\ i # Len(s.reads) => \A n : LastBrings(s, n) => LastBrings(x, n)
<1> DEFINE left == Left(s, i)
           c == s.reads[i].served
           xs == [j \in DOMAIN left.reads |->
                    IF j < i THEN [left.reads[j] EXCEPT !.overtaken = TRUE] ELSE left.reads[j]]
           x == WithRead(s, i)
<1>1. /\ left \in ScreenType /\ left.snapshot = s.snapshot /\ left.master = s.master
      /\ left.retries = s.retries
      /\ DOMAIN left.reads = 1..(Len(s.reads) - 1)
      /\ \A j \in DOMAIN left.reads : left.reads[j] = s.reads[IF j < i THEN j ELSE j + 1]
  BY LeftScreen
<1>2. x = [left EXCEPT !.copy = c, !.whole = TRUE, !.reads = xs]
  BY DEF WithRead
<1> HIDE DEF left, x
<1>3. left.reads \in Seq(ReadType)
  BY <1>1 DEF ScreenType
<1>4. \A j \in DOMAIN left.reads : left.reads[j] \in ReadType
  BY <1>3
<1>5. \A j \in DOMAIN left.reads : /\ xs[j] \in ReadType /\ xs[j].served = left.reads[j].served
                                   /\ xs[j].disturbed = left.reads[j].disturbed
                                   /\ left.reads[j].overtaken => xs[j].overtaken
                                   /\ j >= i => xs[j] = left.reads[j]
  <2> TAKE j \in DOMAIN left.reads
  <2>1. left.reads[j] \in ReadType /\ j \in Int /\ i \in Int
    <3>1. s.reads \in Seq(ReadType)
      BY DEF ScreenType
    <3>2. DOMAIN s.reads = 1..Len(s.reads) /\ Len(s.reads) \in Nat
      BY <3>1
    <3>3. i \in Int
      BY <3>2
    <3>4. j \in 1..(Len(s.reads) - 1)
      BY <1>1
    <3>5. j \in Int
      BY <3>2, <3>4
    <3> QED BY <1>4, <3>3, <3>5
  <2>2. CASE j < i
    <3> DEFINE r == left.reads[j]
               o == [r EXCEPT !.overtaken = TRUE]
    <3>1. xs[j] = o
      BY <2>2
    <3>2. r \in ReadType /\ ~(j >= i)
      BY <2>1, <2>2
    <3> HIDE DEF r
    <3>3. o \in ReadType /\ o.served = r.served /\ o.disturbed = r.disturbed /\ o.overtaken
      BY <3>2 DEF ReadType
    <3> HIDE DEF o, xs
    <3> QED BY <3>1, <3>2, <3>3 DEF r
  <2>3. CASE ~(j < i)
    BY <2>1, <2>3
  <2> QED BY <2>2, <2>3
<1>6. xs \in Seq(ReadType) /\ DOMAIN xs = DOMAIN left.reads
  <2>1. DOMAIN left.reads = 1..Len(left.reads) /\ Len(left.reads) \in Nat
    BY <1>3
  <2>2. DOMAIN xs = DOMAIN left.reads /\ xs = [j \in DOMAIN xs |-> xs[j]]
    OBVIOUS
  <2>3. \A j \in DOMAIN xs : xs[j] \in ReadType
    BY <1>5
  <2> DEFINE m == Len(left.reads)
  <2> HIDE DEF xs, m
  <2>4. xs \in [1..m -> ReadType] /\ m \in Nat
    BY <2>1, <2>2, <2>3 DEF m
  <2> QED BY <2>2, <2>4
<1> HIDE DEF xs
<1>7. x \in ScreenType /\ x.copy = c /\ x.reads = xs /\ x.master = s.master /\ x.snapshot = s.snapshot
      /\ x.retries = s.retries /\ x.whole
  BY <1>1, <1>2, <1>6 DEF ScreenType
<1>8. DOMAIN x.reads = 1..(Len(s.reads) - 1)
  BY <1>1, <1>6, <1>7
<1>9. \A j \in DOMAIN x.reads : LET k == IF j < i THEN j ELSE j + 1 IN
            /\ x.reads[j].served = s.reads[k].served /\ x.reads[j].disturbed = s.reads[k].disturbed
            /\ s.reads[k].overtaken => x.reads[j].overtaken
            /\ j >= i => x.reads[j] = s.reads[k]
  BY <1>1, <1>5, <1>6, <1>7
<1>10. /\ \A j \in DOMAIN x.reads : \E k \in DOMAIN s.reads :
                /\ k # i
                /\ x.reads[j].served = s.reads[k].served /\ x.reads[j].disturbed = s.reads[k].disturbed
                /\ s.reads[k].overtaken => x.reads[j].overtaken
       /\ i # Len(s.reads) => \A n : LastBrings(s, n) => LastBrings(x, n)
  BY <1>7, <1>8, <1>9, OneReadLess
<1>13. \A j \in DOMAIN x.reads : \E k \in DOMAIN s.reads :
            x.reads[j].served = s.reads[k].served /\ x.reads[j].disturbed = s.reads[k].disturbed
  BY <1>10
<1> QED BY <1>7, <1>10, <1>13 DEF x

(* A read that nothing disturbed or overtook brings what the screen had and*)
(* what it was to read, or goes back behind a newer read and says so.      *)
LEMMA ReadIsShown ==
  ASSUME NEW sv \in ServerType, ServerOk(sv), NEW p \in PastType, NEW s \in ScreenType, ScreenOk(sv, s, p),
         NEW i \in DOMAIN s.reads, s.reads[i].served # None,
         ~s.reads[i].disturbed, ~s.reads[i].overtaken,
         NEW y \in PastType, y.seen = SeenOf(p, s.reads[i].served), y.readyAt = p.readyAt,
         y.gaveUp = IF s.reads[i].served.revision >= p.gaveUp THEN 0 ELSE p.gaveUp,
         y.read = Newest(p.read, s.reads[i].served.revision),
         y.crossed = (s.reads[i].served.revision < p.read)
  PROVE  LET x == WithRead(s, i)
         IN  x \in ScreenType /\ ScreenOk(sv, x, y) /\ Keeps(sv, s, p, x, y)
<1> DEFINE c == s.reads[i].served
           x == WithRead(s, i)
           z == SeenOf(p, c)
<1>1. c \in Copies /\ CopyOk(sv, c)
  <2>1. s.reads \in Seq(ReadType)
    BY DEF ScreenType
  <2>2. s.reads[i] \in ReadType
    BY <2>1
  <2> QED BY <2>2 DEF ReadType, ScreenOk, ReadsOk
<1>2. /\ x \in ScreenType /\ x.copy = c /\ x.master = s.master /\ x.snapshot = s.snapshot
      /\ x.retries = s.retries
      /\ \A j \in DOMAIN x.reads : \E k \in DOMAIN s.reads :
             x.reads[j].served = s.reads[k].served /\ x.reads[j].disturbed = s.reads[k].disturbed
      /\ i # Len(s.reads) => \A n : LastBrings(s, n) => LastBrings(x, n)
  BY <1>1, WithReadType
<1>3. p.seen.turn <= sv.turn /\ p.seen.place <= sv.place /\ c.turn <= sv.turn /\ c.place <= sv.place
  BY <1>1 DEF CopyOk, ScreenOk, Shown
<1>4. /\ z \in [turn : Nat, place : Nat]
      /\ z.turn >= c.turn /\ z.place >= c.place /\ z.turn >= p.seen.turn /\ z.place >= p.seen.place
      /\ z.turn <= sv.turn /\ z.place <= sv.place
  BY <1>1, <1>3, SeenMore
<1>5. c.revision \in Nat /\ p.read \in Nat /\ p.gaveUp \in Nat /\ Newest(p.read, c.revision) \in Nat
      /\ Newest(p.read, c.revision) >= c.revision /\ Newest(p.read, c.revision) >= p.read
      /\ (Newest(p.read, c.revision) = c.revision \/ Newest(p.read, c.revision) = p.read)
  <2>1. c.revision \in Nat /\ p.read \in Nat /\ p.gaveUp \in Nat
    BY <1>1 DEF Copies, PastType
  <2> QED BY <2>1, NewestIs
<1>6. /\ y.seen = z /\ y.gaveUp = IF c.revision >= p.gaveUp THEN 0 ELSE p.gaveUp
      /\ y.read = Newest(p.read, c.revision)
      /\ y.crossed = (c.revision < p.read) /\ y.readyAt = p.readyAt
  OBVIOUS
<1> HIDE DEF z, x
<1> DEFINE C == c
<1>7. C \in Copies /\ C.revision \in Nat /\ C.turn \in Nat /\ C.place \in Nat /\ CopyOk(sv, C) /\ C = c
  BY <1>1 DEF Copies
<1> HIDE DEF C
<1>8. sv.turn \in Nat /\ sv.rest \in Nat /\ sv.place \in Nat /\ sv.revision \in Nat
      /\ p.readyAt \in Nat /\ s.copy.revision \in Nat
  BY DEF ServerType, PastType, ScreenType, Copies
<1>9. Shown(sv, x, y)
  <2>1. x.copy.revision <= sv.revision /\ y.read <= sv.revision /\ y.readyAt <= sv.revision
    BY <1>2, <1>5, <1>6, <1>7, <1>8 DEF CopyOk, ScreenOk, Shown
  <2>2. /\ x.copy.turn <= y.seen.turn /\ x.copy.place <= y.seen.place
        /\ y.seen.turn <= sv.turn /\ y.seen.place <= sv.place
    BY <1>2, <1>4, <1>6, <1>7
  <2>3. sv.turn <= x.copy.revision => x.copy.turn = sv.turn
    BY <1>2, <1>7 DEF CopyOk
  <2>4. sv.turn <= x.copy.revision => y.seen.turn = sv.turn
    BY <1>2, <1>4, <1>6, <1>8, <2>2, <2>3
  <2>5. sv.rest <= x.copy.revision => x.copy.rest = sv.rest
    BY <1>2, <1>7 DEF CopyOk
  <2> QED BY <2>1, <2>2, <2>3, <2>4, <2>5 DEF Shown
<1>10. ReadsOk(sv, x, y)
  <2>1. \A j \in DOMAIN x.reads : x.reads[j].served # None => CopyOk(sv, x.reads[j].served)
    BY <1>2 DEF ScreenOk, ReadsOk
  <2>2. x.copy.revision <= y.read
    BY <1>2, <1>5, <1>6
  <2> QED BY <1>2, <2>1, <2>2 DEF ReadsOk
<1>11. ASSUME NEW n \in Nat, Has(s, p, n)
       PROVE  Reading(x, y, n) \/ n <= c.revision
  <2>1. CASE s.snapshot \/ s.retries > 0
    BY <1>2, <2>1 DEF Reading
  <2>2. CASE LastBrings(s, n)
    <3>1. CASE i # Len(s.reads)
      BY <1>2, <2>2, <3>1 DEF Reading
    <3>2. CASE i = Len(s.reads)
      BY <1>5, <2>2, <3>2 DEF LastBrings, Brings
    <3> QED BY <3>1, <3>2
  <2>3. CASE GaveUp(p, n)
    <3>1. CASE c.revision >= p.gaveUp
      BY <1>5, <2>3, <3>1 DEF GaveUp
    <3>2. CASE ~(c.revision >= p.gaveUp)
      BY <1>6, <2>3, <3>2 DEF GaveUp, Reading
    <3> QED BY <3>1, <3>2
  <2>4. CASE n <= p.read
    <3>1. CASE c.revision < p.read
      <4>1. y.crossed /\ n <= y.read
        <5>1. y.crossed
          BY <1>6, <3>1, Zenon
        <5>2. n <= y.read
          BY <1>5, <1>6, <2>4
        <5> QED BY <5>1, <5>2
      <4> QED BY <4>1 DEF Reading, WentBack
    <3>2. CASE ~(c.revision < p.read)
      BY <1>5, <2>4, <3>2
    <3> QED BY <3>1, <3>2
  <2>5. CASE n <= s.copy.revision
    <3>1. Brings(s.reads[i], s.copy.revision) \/ s.copy.revision <= p.read
      BY DEF ScreenOk, ReadsOk
    <3>2. CASE s.copy.revision <= p.read
      BY <1>5, <1>8, <2>4, <2>5, <3>2
    <3>3. CASE c.revision >= s.copy.revision
      BY <1>5, <1>8, <2>5, <3>3
    <3> QED BY <3>1, <3>2, <3>3 DEF Brings
  <2> QED BY <1>11, <2>1, <2>2, <2>3, <2>4, <2>5 DEF Has, Reading, WentBack
<1>12. Full(sv, s, p) => Full(sv, x, y)
  <2> SUFFICES ASSUME Full(sv, s, p) PROVE Full(sv, x, y)
    OBVIOUS
  <2>1. Has(s, p, sv.revision)
    BY <1>8 DEF Full, Has
  <2>2. CASE Reading(x, y, sv.revision)
    BY <2>2 DEF Full
  <2>3. CASE sv.revision <= C.revision
    <3>1. C.revision = sv.revision /\ sv.rest <= C.revision /\ sv.place <= C.revision
      BY <1>7, <1>8, <2>3 DEF CopyOk, ServerOk
    <3>2. C.rest = sv.rest /\ C.place = sv.place
      BY <1>7, <3>1 DEF CopyOk
    <3>3. y.seen.place = sv.place
      BY <1>4, <1>6, <1>7, <1>8, <3>2
    <3> QED BY <1>2, <1>7, <3>1, <3>2, <3>3 DEF Full
  <2> QED BY <1>7, <1>8, <1>11, <2>1, <2>2, <2>3
<1> QED BY <1>2, <1>9, <1>10, <1>11, <1>12 DEF x, ScreenOk, Keeps, Has

(* What the invariant tells of a screen is in its copy and its reads.      *)
LEMMA AlikeScreens ==
  ASSUME NEW sv, NEW p, NEW s, NEW x,
         x.copy = s.copy, x.reads = s.reads, x.whole = s.whole, x.master = s.master,
         x.snapshot = s.snapshot, x.retries = s.retries
  PROVE  /\ ScreenOk(sv, s, p) => ScreenOk(sv, x, p)
         /\ \A n : Has(s, p, n) <=> Has(x, p, n)
         /\ Full(sv, s, p) <=> Full(sv, x, p)
<1>1. \A n : Reading(s, p, n) <=> Reading(x, p, n)
  BY DEF Reading, LastBrings
<1> QED BY <1>1 DEF ScreenOk, Shown, ReadsOk, Has, Full

(* What was lost is no part of it.                                         *)
LEMMA AlikePasts ==
  ASSUME NEW sv, NEW s, NEW p, NEW y, y.seen = p.seen, y.read = p.read, y.readyAt = p.readyAt,
         y.gaveUp = p.gaveUp, y.crossed = p.crossed
  PROVE  /\ ScreenOk(sv, s, p) => ScreenOk(sv, s, y)
         /\ \A n : Has(s, p, n) <=> Has(s, y, n)
         /\ Full(sv, s, p) <=> Full(sv, s, y)
<1>1. \A n : Reading(s, p, n) <=> Reading(s, y, n)
  BY DEF Reading, GaveUp, WentBack
<1> QED BY <1>1 DEF ScreenOk, Shown, ReadsOk, Has, Full

(* A copy that stays was seen.                                             *)
LEMMA SeenAlready ==
  ASSUME NEW sv \in ServerType, NEW p \in PastType, NEW s \in ScreenType, ScreenOk(sv, s, p)
  PROVE  SeenOf(p, s.copy) = p.seen
<1>1. /\ p.seen.turn \in Nat /\ p.seen.place \in Nat /\ s.copy.turn \in Nat /\ s.copy.place \in Nat
      /\ p.seen = [turn |-> p.seen.turn, place |-> p.seen.place]
  BY DEF PastType, ScreenType, Copies
<1>2. s.copy.turn <= p.seen.turn /\ s.copy.place <= p.seen.place
  BY DEF ScreenOk, Shown
<1>3. Newest(p.seen.turn, s.copy.turn) = p.seen.turn /\ Newest(p.seen.place, s.copy.place) = p.seen.place
  BY <1>1, <1>2 DEF Newest
<1> QED BY <1>1, <1>3 DEF SeenOf

(* A read that is dropped or given up: what it was to bring another brings,*)
(* or, when it was the last, nobody.                                       *)
LEMMA ReadIsDropped ==
  ASSUME NEW sv \in ServerType, NEW p \in PastType, NEW s \in ScreenType, ScreenOk(sv, s, p),
         NEW i \in DOMAIN s.reads,
         NEW y \in PastType, y.seen = p.seen, y.read = p.read, y.readyAt = p.readyAt, y.crossed = p.crossed,
         y.gaveUp = IF i = Len(s.reads) THEN sv.revision ELSE p.gaveUp
  PROVE  LET x == Left(s, i)
         IN  x \in ScreenType /\ ScreenOk(sv, x, y) /\ Keeps(sv, s, p, x, y)
<1> DEFINE x == Left(s, i)
<1>1. /\ x \in ScreenType /\ ScreenOk(sv, x, p)
      /\ x.copy = s.copy /\ x.snapshot = s.snapshot /\ x.retries = s.retries
      /\ i # Len(s.reads) => \A n : LastBrings(s, n) => LastBrings(x, n)
  BY LeftScreen
<1> HIDE DEF x
<1>2. ScreenOk(sv, x, y)
  BY <1>1 DEF ScreenOk, Shown, ReadsOk
<1>3. sv.revision \in Nat
  BY DEF ServerType
<1>4. \A n \in 0..sv.revision : Reading(s, p, n) => Reading(x, y, n)
  <2> SUFFICES ASSUME NEW n \in 0..sv.revision, Reading(s, p, n) PROVE Reading(x, y, n)
    OBVIOUS
  <2>1. CASE i = Len(s.reads)
    BY <1>3, <2>1 DEF Reading, GaveUp
  <2>2. CASE i # Len(s.reads)
    BY <1>1, <2>2 DEF Reading, GaveUp, WentBack
  <2> QED BY <2>1, <2>2
<1>5. Keeps(sv, s, p, x, y)
  <2>1. sv.revision \in 0..sv.revision
    BY <1>3
  <2> QED BY <1>1, <1>4, <2>1 DEF Keeps, Has, Full
<1> QED BY <1>1, <1>2, <1>5 DEF x

(* Disturbed marks every read and changes nothing else of it.              *)
LEMMA DisturbedReads ==
  ASSUME NEW rs \in Seq(ReadType)
  PROVE  /\ Disturbed(rs) \in Seq(ReadType) /\ Len(Disturbed(rs)) = Len(rs)
         /\ DOMAIN Disturbed(rs) = DOMAIN rs
         /\ \A j \in DOMAIN rs : /\ Disturbed(rs)[j].served = rs[j].served
                                /\ Disturbed(rs)[j].overtaken = rs[j].overtaken
                                /\ Disturbed(rs)[j].disturbed
<1> DEFINE xs == Disturbed(rs)
           N == Len(rs)
<1>1. N \in Nat /\ DOMAIN rs = 1..N
  OBVIOUS
<1>2. DOMAIN xs = DOMAIN rs /\ xs = [j \in DOMAIN xs |-> xs[j]]
  BY DEF Disturbed
<1>3. \A j \in DOMAIN rs : /\ xs[j] \in ReadType /\ xs[j].served = rs[j].served
                           /\ xs[j].overtaken = rs[j].overtaken /\ xs[j].disturbed
  <2> TAKE j \in DOMAIN rs
  <2> DEFINE r == rs[j]
             o == [r EXCEPT !.disturbed = TRUE]
  <2>1. xs[j] = o
    BY DEF Disturbed
  <2>2. r \in ReadType
    OBVIOUS
  <2> HIDE DEF r
  <2>3. o \in ReadType /\ o.served = r.served /\ o.overtaken = r.overtaken /\ o.disturbed
    BY <2>2 DEF ReadType
  <2> HIDE DEF o, xs
  <2> QED BY <2>1, <2>3 DEF r
<1> HIDE DEF xs, N
<1>4. xs \in [1..N -> ReadType]
  BY <1>1, <1>2, <1>3
<1>5. xs \in Seq(ReadType)
  BY <1>1, <1>4
<1>6. DOMAIN xs = 1..Len(xs) /\ Len(xs) \in Nat
  BY <1>5
<1>7. Len(xs) = N
  BY <1>1, <1>2, <1>6
<1> QED BY <1>2, <1>3, <1>5, <1>7 DEF xs, N

(* The reads in the air when the copy changes under them.                  *)
LEMMA ReadsAreDisturbed ==
  ASSUME NEW sv, NEW p, NEW s \in ScreenType, ReadsOk(sv, s, p), NEW x, NEW y,
         x.reads = Disturbed(s.reads), x.snapshot = s.snapshot, x.retries = s.retries,
         y.gaveUp = p.gaveUp, y.read = p.read, y.crossed = p.crossed
  PROVE  /\ ReadsOk(sv, x, y)
         /\ \A n : Reading(s, p, n) => Reading(x, y, n)
<1> DEFINE rs == s.reads
           xs == Disturbed(rs)
           N == Len(rs)
<1>1. rs \in Seq(ReadType) /\ N \in Nat /\ DOMAIN rs = 1..N
  BY DEF ScreenType
<1>2. xs \in Seq(ReadType) /\ DOMAIN xs = DOMAIN rs /\ Len(xs) = N
  BY <1>1, DisturbedReads
<1>3. \A j \in DOMAIN rs : /\ xs[j].served = rs[j].served
                           /\ xs[j].overtaken = rs[j].overtaken /\ xs[j].disturbed
  BY <1>1, DisturbedReads
<1> HIDE DEF xs, rs, N
<1>4. ReadsOk(sv, x, y)
  <2>1. \A i \in DOMAIN x.reads : x.reads[i].served # None => CopyOk(sv, x.reads[i].served)
    BY <1>2, <1>3 DEF ReadsOk, rs, xs
  <2>2. \A i \in DOMAIN x.reads : x.reads[i].disturbed
    BY <1>2, <1>3 DEF rs, xs
  <2> QED BY <2>1, <2>2 DEF ReadsOk
<1>5. \A n : LastBrings(s, n) => LastBrings(x, n)
  <2> SUFFICES ASSUME NEW n, LastBrings(s, n) PROVE LastBrings(x, n)
    OBVIOUS
  <2>1. rs # <<>> /\ ~rs[N].overtaken /\ Brings(rs[N], n)
    BY DEF LastBrings, rs, N
  <2>2. N \in DOMAIN rs
    BY <1>1, <2>1
  <2>3. xs # <<>>
    BY <1>1, <1>2, <2>2
  <2>4. ~xs[N].overtaken /\ Brings(xs[N], n)
    BY <1>3, <2>1, <2>2 DEF Brings
  <2> QED BY <1>2, <2>3, <2>4 DEF LastBrings, rs, xs
<1> QED BY <1>4, <1>5 DEF Reading, GaveUp, WentBack, xs, rs

PastSeen(p, c) == [p EXCEPT !.seen = SeenOf(p, c)]

(* What was seen grows, and never past the combat.                         *)
LEMMA PastSeenType ==
  ASSUME NEW sv \in ServerType, NEW p \in PastType, NEW c \in Copies,
         p.seen.turn <= sv.turn, p.seen.place <= sv.place, c.turn <= sv.turn, c.place <= sv.place
  PROVE  LET y == PastSeen(p, c)
         IN  /\ y \in PastType /\ y.read = p.read /\ y.readyAt = p.readyAt
             /\ y.gaveUp = p.gaveUp /\ y.crossed = p.crossed /\ y.lost = p.lost
             /\ y.seen.turn \in Nat /\ y.seen.place \in Nat
             /\ y.seen.turn >= c.turn /\ y.seen.place >= c.place
             /\ y.seen.turn >= p.seen.turn /\ y.seen.place >= p.seen.place
             /\ y.seen.turn <= sv.turn /\ y.seen.place <= sv.place
<1> DEFINE z == SeenOf(p, c)
           y == PastSeen(p, c)
<1>1. /\ z \in [turn : Nat, place : Nat]
      /\ z.turn >= c.turn /\ z.place >= c.place /\ z.turn >= p.seen.turn /\ z.place >= p.seen.place
      /\ z.turn <= sv.turn /\ z.place <= sv.place
  BY SeenMore
<1>2. y = [p EXCEPT !.seen = z]
  BY DEF PastSeen
<1> HIDE DEF y, z
<1>3. /\ y \in PastType /\ y.seen = z /\ y.read = p.read /\ y.readyAt = p.readyAt
      /\ y.crossed = p.crossed /\ y.gaveUp = p.gaveUp /\ y.lost = p.lost
  BY <1>1, <1>2 DEF PastType
<1>4. z.turn \in Nat /\ z.place \in Nat
  BY <1>1
<1> QED BY <1>1, <1>3, <1>4 DEF y, z

(* A copy of at least the revision on screen that comes over it with the   *)
(* reads in the air disturbed: the turn it shows is of its revision, or    *)
(* the screen is a player's.                                               *)
LEMMA CopyChanges ==
  ASSUME NEW sv \in ServerType, ServerOk(sv), NEW p \in PastType, NEW s \in ScreenType, ScreenOk(sv, s, p),
         NEW x \in ScreenType, x.reads = Disturbed(s.reads), x.snapshot = s.snapshot, x.retries = s.retries,
         x.master = s.master,
         x.copy.revision >= s.copy.revision, x.copy.revision <= sv.revision,
         x.copy.turn <= sv.turn, x.copy.place <= sv.place,
         x.copy.revision = s.copy.revision \/ (sv.turn <= x.copy.revision => x.copy.turn = sv.turn),
         s.master /\ sv.turn <= x.copy.revision => x.copy.turn = sv.turn,
         x.whole /\ sv.rest <= x.copy.revision => x.copy.rest = sv.rest,
         s.copy.revision = sv.revision /\ s.copy.rest = sv.rest => x.copy.rest = sv.rest
  PROVE  LET y == PastSeen(p, x.copy)
         IN  /\ y \in PastType /\ ScreenOk(sv, x, y) /\ Keeps(sv, s, p, x, y) /\ y.readyAt = p.readyAt
<1> DEFINE y == PastSeen(p, x.copy)
<1>1. x.copy \in Copies /\ s.copy \in Copies
  BY DEF ScreenType
<1>2. p.seen.turn <= sv.turn /\ p.seen.place <= sv.place
  BY DEF ScreenOk, Shown
<1>3. /\ y \in PastType /\ y.read = p.read /\ y.readyAt = p.readyAt
      /\ y.gaveUp = p.gaveUp /\ y.crossed = p.crossed
      /\ y.seen.turn \in Nat /\ y.seen.place \in Nat
      /\ y.seen.turn >= x.copy.turn /\ y.seen.place >= x.copy.place
      /\ y.seen.turn >= p.seen.turn /\ y.seen.place >= p.seen.place
      /\ y.seen.turn <= sv.turn /\ y.seen.place <= sv.place
  BY <1>1, <1>2, PastSeenType
<1> HIDE DEF y
<1>4. /\ ReadsOk(sv, x, y)
      /\ \A n : Reading(s, p, n) => Reading(x, y, n)
  BY <1>3, ReadsAreDisturbed DEF ScreenOk
<1>5. /\ sv.turn \in Nat /\ sv.rest \in Nat /\ sv.place \in Nat /\ sv.revision \in Nat
      /\ x.copy.revision \in Nat /\ x.copy.turn \in Nat /\ s.copy.revision \in Nat
      /\ p.seen.turn \in Nat /\ p.seen.place \in Nat
  BY <1>1 DEF ServerType, Copies, PastType
<1>6. Shown(sv, x, y)
  <2>1. sv.turn <= x.copy.revision => y.seen.turn = sv.turn
    <3> SUFFICES ASSUME sv.turn <= x.copy.revision PROVE y.seen.turn = sv.turn
      OBVIOUS
    <3>1. CASE x.copy.revision = s.copy.revision
      BY <1>3, <1>5, <3>1 DEF ScreenOk, Shown
    <3>2. CASE x.copy.turn = sv.turn
      BY <1>3, <1>5, <3>2
    <3> QED BY <3>1, <3>2
  <2>2. p.read <= sv.revision /\ p.readyAt <= sv.revision
    BY DEF ScreenOk, Shown
  <2> QED BY <1>3, <2>1, <2>2 DEF Shown
<1>7. Keeps(sv, s, p, x, y)
  <2>1. \A n \in 0..sv.revision : Has(s, p, n) => Has(x, y, n)
    BY <1>4, <1>5 DEF Has
  <2>2. ASSUME s.copy.revision = sv.revision, s.copy.rest = sv.rest, p.seen.place = sv.place
        PROVE  x.copy.revision = sv.revision /\ x.copy.rest = sv.rest /\ y.seen.place = sv.place
    BY <1>3, <1>5, <2>2
  <2> QED BY <1>4, <2>1, <2>2 DEF Keeps, Full
<1> QED BY <1>3, <1>4, <1>6, <1>7 DEF ScreenOk, y

(* An answer to a call.                                                    *)
LEMMA AppliedAnswer ==
  ASSUME NEW sv \in ServerType, ServerOk(sv), NEW p \in PastType, NEW s \in ScreenType, ScreenOk(sv, s, p),
         NEW c \in Copies, CopyOk(sv, c)
  PROVE  LET x == Applied(s, c)
             y == PastSeen(p, x.copy)
         IN  /\ x \in ScreenType /\ y \in PastType /\ ScreenOk(sv, x, y) /\ Keeps(sv, s, p, x, y)
             /\ y.readyAt = p.readyAt
<1>0. s.copy \in Copies /\ s.copy.revision \in Nat /\ c.revision \in Nat
      /\ sv.turn \in Nat /\ sv.rest \in Nat /\ sv.revision \in Nat
  BY DEF ScreenType, Copies, ServerType
<1>1. CASE c.revision < s.copy.revision
  <2>1. Applied(s, c) = s
    BY <1>1 DEF Applied
  <2>2. PastSeen(p, s.copy) = p
    BY SeenAlready DEF PastSeen, PastType
  <2> QED BY <2>1, <2>2 DEF Keeps
<1>2. CASE ~(c.revision < s.copy.revision)
  <2> DEFINE x == Applied(s, c)
             ds == Disturbed(s.reads)
  <2>1. x = [s EXCEPT !.copy = c, !.whole = TRUE, !.reads = ds]
    BY <1>2 DEF Applied
  <2>2. ds \in Seq(ReadType)
    BY DisturbedReads DEF ScreenType
  <2> HIDE DEF x, ds
  <2>3. /\ x \in ScreenType /\ x.copy = c /\ x.reads = ds /\ x.snapshot = s.snapshot /\ x.master = s.master
        /\ x.retries = s.retries
    BY <2>1, <2>2 DEF ScreenType
  <2>4. /\ c.revision <= sv.revision /\ c.turn <= sv.turn /\ c.place <= sv.place
        /\ sv.turn <= c.revision => c.turn = sv.turn
        /\ sv.rest <= c.revision => c.rest = sv.rest
    BY DEF CopyOk
  <2>5. s.copy.revision = sv.revision => c.rest = sv.rest
    BY <1>0, <1>2, <2>4 DEF ServerOk
  <2> HIDE DEF CopyOk, ScreenOk, ServerOk
  <2> QED
    <3>1. x.copy.revision >= s.copy.revision
      BY <1>0, <1>2, <2>3
    <3>2. x.reads = Disturbed(s.reads)
      BY <2>3 DEF ds
    <3> QED BY <2>3, <2>4, <2>5, <3>1, <3>2, CopyChanges DEF x
<1> QED BY <1>1, <1>2

(* A turn_changed applied in place.                                        *)
LEMMA PatchedTurn ==
  ASSUME NEW sv \in ServerType, ServerOk(sv), NEW p \in PastType, NEW s \in ScreenType, ScreenOk(sv, s, p),
         NEW e, e.revision \in Nat, e.turn \in Nat,
         e.revision <= sv.revision, e.turn <= sv.turn, sv.turn <= e.revision => e.turn = sv.turn,
         ~NoNewer(s, e), ~AGap(s, e)
  PROVE  LET x == Patched(s, e)
             y == PastSeen(p, x.copy)
         IN  /\ x \in ScreenType /\ y \in PastType /\ ScreenOk(sv, x, y) /\ Keeps(sv, s, p, x, y)
             /\ y.readyAt = p.readyAt
<1> DEFINE x == Patched(s, e)
           ds == Disturbed(s.reads)
           v == IF s.master THEN e.revision ELSE s.copy.revision
           d == [s.copy EXCEPT !.turn = e.turn, !.revision = v]
<1>1. s.copy \in Copies /\ s.copy.revision \in Nat /\ s.copy.turn \in Nat /\ s.copy.place \in Nat
      /\ s.master \in BOOLEAN
      /\ sv.turn \in Nat /\ sv.rest \in Nat /\ sv.revision \in Nat
  BY DEF ScreenType, Copies, ServerType
<1>2. v \in Nat /\ v >= s.copy.revision /\ v <= sv.revision
  <2>1. s.copy.revision <= sv.revision
    BY DEF ScreenOk, Shown
  <2> QED BY <1>1, <2>1 DEF NoNewer
<1>3. s.master => v = e.revision /\ v = s.copy.revision + 1
  BY <1>1 DEF NoNewer, AGap
<1>4. ~s.master => v = s.copy.revision
  OBVIOUS
<1>5. x = [s EXCEPT !.copy.turn = e.turn, !.copy.revision = v, !.whole = FALSE, !.reads = ds]
  BY DEF Patched, ScreenType, Copies
<1>6. x = [s EXCEPT !.copy = d, !.whole = FALSE, !.reads = ds]
  BY <1>5 DEF ScreenType, Copies
<1>7. ds \in Seq(ReadType)
  BY DisturbedReads DEF ScreenType
<1> HIDE DEF x, ds, v
<1>8. d \in Copies /\ d.turn = e.turn /\ d.revision = v /\ d.place = s.copy.place /\ d.rest = s.copy.rest
  BY <1>1, <1>2 DEF Copies
<1> HIDE DEF d
<1>9. /\ x \in ScreenType /\ x.copy = d /\ x.reads = ds /\ x.snapshot = s.snapshot /\ x.master = s.master
      /\ ~x.whole /\ x.retries = s.retries
  <2>1. FALSE \in BOOLEAN
    OBVIOUS
  <2> QED BY <1>6, <1>7, <1>8, <2>1 DEF ScreenType
<1>10. d.place <= sv.place
  <2>1. s.copy.place <= p.seen.place /\ p.seen.place <= sv.place /\ p.seen.place \in Nat /\ sv.place \in Nat
    BY DEF ScreenOk, Shown, PastType, ServerType
  <2> QED BY <1>1, <1>8, <2>1
<1>11. d.revision = s.copy.revision \/ (sv.turn <= d.revision => d.turn = sv.turn)
  BY <1>3, <1>4, <1>8
<1>12. s.master /\ sv.turn <= d.revision => d.turn = sv.turn
  BY <1>3, <1>8
<1>13. x.reads = Disturbed(s.reads)
  BY <1>9 DEF ds
<1> HIDE DEF ScreenOk, ServerOk
<1> QED
  <2>1. /\ x.copy.revision >= s.copy.revision /\ x.copy.revision <= sv.revision
        /\ x.copy.turn <= sv.turn /\ x.copy.place <= sv.place /\ x.copy.rest = s.copy.rest
    BY <1>2, <1>8, <1>9, <1>10
  <2> QED BY <1>9, <1>11, <1>12, <1>13, <2>1, CopyChanges DEF x

(* A combatant_moved applied in place.                                     *)
LEMMA MovedPlace ==
  ASSUME NEW sv \in ServerType, ServerOk(sv), NEW p \in PastType, NEW s \in ScreenType, ScreenOk(sv, s, p),
         NEW at \in Nat, at <= sv.place
  PROVE  LET x == [s EXCEPT !.copy.place = at, !.reads = Disturbed(@)]
             y == PastSeen(p, x.copy)
         IN  /\ x \in ScreenType /\ y \in PastType /\ ScreenOk(sv, x, y) /\ Keeps(sv, s, p, x, y)
             /\ y.readyAt = p.readyAt
<1> DEFINE x == [s EXCEPT !.copy.place = at, !.reads = Disturbed(@)]
           ds == Disturbed(s.reads)
           d == [s.copy EXCEPT !.place = at]
<1>1. s.copy \in Copies /\ s.copy.revision \in Nat /\ s.copy.turn \in Nat
      /\ sv.turn \in Nat /\ p.seen.turn \in Nat
  BY DEF ScreenType, Copies, ServerType, PastType
<1>2. x = [s EXCEPT !.copy = d, !.reads = ds]
  BY DEF ScreenType, Copies
<1>3. ds \in Seq(ReadType)
  BY DisturbedReads DEF ScreenType
<1> HIDE DEF x, ds
<1>4. d \in Copies /\ d.turn = s.copy.turn /\ d.revision = s.copy.revision /\ d.place = at /\ d.rest = s.copy.rest
  BY <1>1 DEF Copies
<1> HIDE DEF d
<1>5. /\ x \in ScreenType /\ x.copy = d /\ x.reads = ds /\ x.snapshot = s.snapshot /\ x.master = s.master
      /\ x.whole = s.whole /\ x.retries = s.retries
  BY <1>2, <1>3, <1>4 DEF ScreenType
<1>6. /\ d.revision <= sv.revision /\ d.turn <= sv.turn
      /\ s.master /\ sv.turn <= d.revision => d.turn = sv.turn
      /\ s.whole /\ sv.rest <= d.revision => d.rest = sv.rest
  BY <1>1, <1>4 DEF ScreenOk, Shown
<1>7. x.reads = Disturbed(s.reads)
  BY <1>5 DEF ds
<1> HIDE DEF ScreenOk, ServerOk
<1> QED
  <2>1. x.copy.revision >= s.copy.revision
    BY <1>1, <1>4, <1>5
  <2>2. /\ x.copy.revision = s.copy.revision /\ x.copy.rest = s.copy.rest
        /\ x.copy.revision <= sv.revision /\ x.copy.turn <= sv.turn /\ x.copy.place <= sv.place
    BY <1>4, <1>5, <1>6
  <2>3. s.master /\ sv.turn <= x.copy.revision => x.copy.turn = sv.turn
    BY <1>5, <1>6
  <2>4. x.whole /\ sv.rest <= x.copy.revision => x.copy.rest = sv.rest
    BY <1>5, <1>6
  <2> DEFINE y == PastSeen(p, x.copy)
  <2>5. y \in PastType /\ ScreenOk(sv, x, y) /\ Keeps(sv, s, p, x, y) /\ y.readyAt = p.readyAt
    BY <1>5, <1>7, <2>1, <2>2, <2>3, <2>4, CopyChanges
  <2> QED BY <1>5, <2>5 DEF x

(* A read that the server answers: it brings all there is.                 *)
LEMMA ServedRead ==
  ASSUME NEW sv \in ServerType, NEW p \in PastType, NEW s \in ScreenType, ScreenOk(sv, s, p),
         NEW i \in DOMAIN s.reads, s.reads[i].served = None,
         NEW c \in Copies, CopyOk(sv, c), c.revision = sv.revision
  PROVE  LET x == [s EXCEPT !.reads[i].served = c]
         IN  x \in ScreenType /\ ScreenOk(sv, x, p) /\ Keeps(sv, s, p, x, p)
<1> DEFINE x == [s EXCEPT !.reads[i].served = c]
           rs == s.reads
           r == rs[i]
           o == [r EXCEPT !.served = c]
           xs == [rs EXCEPT ![i] = o]
           N == Len(rs)
<1>1. rs \in Seq(ReadType) /\ N \in Nat /\ DOMAIN rs = 1..N /\ i \in 1..N
  BY DEF ScreenType
<1>2. r \in ReadType
  BY <1>1
<1>3. x = [s EXCEPT !.reads = xs]
  BY DEF ScreenType
<1> HIDE DEF x, r
<1>4. o \in ReadType /\ o.served = c /\ o.disturbed = r.disturbed /\ o.overtaken = r.overtaken
  BY <1>2 DEF ReadType
<1> HIDE DEF o, rs
<1>5. xs \in Seq(ReadType) /\ Len(xs) = N /\ DOMAIN xs = DOMAIN rs /\ xs[i] = o
      /\ \A j \in DOMAIN rs : j # i => xs[j] = rs[j]
  BY <1>1, <1>4
<1> HIDE DEF xs
<1>6. x \in ScreenType /\ x.reads = xs /\ x.copy = s.copy /\ x.snapshot = s.snapshot /\ x.master = s.master
      /\ x.whole = s.whole /\ x.retries = s.retries
  BY <1>3, <1>5 DEF ScreenType
<1>7. \A j \in DOMAIN xs : xs[j].disturbed = rs[j].disturbed /\ xs[j].overtaken = rs[j].overtaken
  BY <1>4, <1>5 DEF r
<1>8. sv.revision \in Nat /\ c.revision \in Nat
  BY DEF ServerType, Copies
<1>9. \A j \in DOMAIN xs, n \in 0..sv.revision : Brings(rs[j], n) => Brings(xs[j], n)
  BY <1>4, <1>5, <1>8 DEF Brings
<1>10. ScreenOk(sv, x, p)
  <2>1. Shown(sv, x, p)
    BY <1>6 DEF ScreenOk, Shown
  <2>2. \A j \in DOMAIN xs : xs[j].served # None => CopyOk(sv, xs[j].served)
    BY <1>4, <1>5 DEF ScreenOk, ReadsOk, rs
  <2>4. s.copy.revision \in 0..sv.revision
    BY <1>8 DEF ScreenType, Copies, ScreenOk, Shown
  <2>5. \A j \in DOMAIN xs : ~xs[j].disturbed => Brings(xs[j], s.copy.revision) \/ s.copy.revision <= p.read
    BY <1>5, <1>7, <1>9, <2>4 DEF ScreenOk, ReadsOk, rs
  <2> QED BY <1>6, <2>1, <2>2, <2>5 DEF ScreenOk, ReadsOk
<1>11. \A n \in 0..sv.revision : Reading(s, p, n) => Reading(x, p, n)
  <2> SUFFICES ASSUME NEW n \in 0..sv.revision, Reading(s, p, n) PROVE Reading(x, p, n)
    OBVIOUS
  <2>1. CASE LastBrings(s, n)
    <3>1. rs # <<>> /\ ~rs[N].overtaken /\ Brings(rs[N], n)
      BY <2>1 DEF LastBrings, rs, N
    <3>2. N \in DOMAIN xs /\ xs # <<>>
      BY <1>1, <1>5
    <3>3. ~xs[N].overtaken /\ Brings(xs[N], n)
      BY <1>7, <1>9, <3>1, <3>2
    <3>4. LastBrings(x, n)
      BY <1>5, <1>6, <3>2, <3>3 DEF LastBrings
    <3> QED BY <3>4 DEF Reading
  <2> QED BY <1>6, <2>1 DEF Reading
<1>12. Keeps(sv, s, p, x, p)
  <2>1. sv.revision \in 0..sv.revision
    BY <1>8
  <2> QED BY <1>6, <1>11, <2>1 DEF Keeps, Has, Full
<1> QED BY <1>6, <1>10, <1>12 DEF x

(* A screen that stays as it is saw nothing new.                           *)
LEMMA NothingSeen ==
  ASSUME NEW sv \in ServerType, NEW p \in PastType, NEW s \in ScreenType, ScreenOk(sv, s, p)
  PROVE  PastSeen(p, s.copy) = p
BY SeenAlready DEF PastSeen, PastType

(* A turn_changed, whatever it leads to.                                   *)
LEMMA TurnChanges ==
  ASSUME NEW sv \in ServerType, ServerOk(sv), NEW p \in PastType, NEW s \in ScreenType, ScreenOk(sv, s, p),
         NEW e, e.revision \in Nat, e.turn \in Nat,
         e.revision <= sv.revision, e.turn <= sv.turn, sv.turn <= e.revision => e.turn = sv.turn,
         NEW x \in OnTurnChanged(s, e)
  PROVE  LET y == PastSeen(p, x.copy)
         IN  /\ x \in ScreenType /\ y \in PastType /\ ScreenOk(sv, x, y) /\ Keeps(sv, s, p, x, y)
             /\ y.readyAt = p.readyAt
<1>1. CASE x = s
  BY <1>1, NothingSeen DEF Keeps
<1>2. CASE x = BeginRead(s, 0)
  <2>1. /\ x \in ScreenType /\ ScreenOk(sv, x, p) /\ Keeps(sv, s, p, x, p)
    BY <1>2, BegunRead
  <2>2. x.copy = s.copy
    BY <1>2 DEF BeginRead, ScreenType
  <2>3. PastSeen(p, x.copy) = p
    BY <2>2, NothingSeen
  <2> QED BY <2>1, <2>3
<1>3. CASE ~NoNewer(s, e) /\ ~AGap(s, e) /\ x = Patched(s, e)
  BY <1>3, PatchedTurn
<1>4. x = s \/ x = BeginRead(s, 0) \/ (~NoNewer(s, e) /\ ~AGap(s, e) /\ x = Patched(s, e))
  <2>1. CASE NoNewer(s, e)
    BY <2>1 DEF OnTurnChanged
  <2>2. CASE ~NoNewer(s, e) /\ (AGap(s, e) \/ e.go = "down")
    BY <2>2 DEF OnTurnChanged
  <2>3. CASE ~NoNewer(s, e) /\ ~AGap(s, e) /\ e.go # "down"
    <3>1. x \in IF s.whole /\ s.copy.turn = e.turn THEN {s}
            ELSE IF s.whole /\ e.go = "part" THEN {s, BeginRead(s, 0)}
            ELSE {Patched(s, e)}
      BY <2>3 DEF OnTurnChanged
    <3> QED BY <2>3, <3>1
  <2> QED BY <2>1, <2>2, <2>3
<1> QED BY <1>1, <1>2, <1>3, <1>4

PastHeard(sv, p, c, e) ==
    [p EXCEPT !.seen = SeenOf(p, c), !.readyAt = IF e.kind = "ready" THEN sv.revision ELSE @]

(* An event keeps what the screen had and brings what it tells of: the     *)
(* combat at least as new, or a read of it.                                *)
LEMMA EventArrives ==
  ASSUME NEW sv \in ServerType, ServerOk(sv), NEW p \in PastType, NEW s \in ScreenType, ScreenOk(sv, s, p),
         NEW e \in EventType, EventOk(sv, e), NEW x \in OnEvent(s, e),
         p.readyAt = sv.revision => Full(sv, s, p)
  PROVE  LET y == PastHeard(sv, p, x.copy, e)
         IN  /\ x \in ScreenType /\ y \in PastType /\ ScreenOk(sv, x, y)
             /\ \A n \in 0..sv.revision : Has(s, p, n) \/ Tells(e, n) => Has(x, y, n)
             /\ y.readyAt = sv.revision => Full(sv, x, y)
             /\ y.lost = p.lost
<1> DEFINE y == PastHeard(sv, p, x.copy, e)
           z == PastSeen(p, x.copy)
<1>1. CASE e.kind = "ready"
  <2>1. x = [s EXCEPT !.snapshot = TRUE]
    BY <1>1 DEF OnEvent
  <2>2. TRUE \in BOOLEAN
    OBVIOUS
  <2>3. /\ x \in ScreenType /\ x.copy = s.copy /\ x.snapshot /\ x.reads = s.reads
        /\ x.whole = s.whole /\ x.master = s.master
    BY <2>1, <2>2 DEF ScreenType
  <2>4. y = [p EXCEPT !.seen = p.seen, !.readyAt = sv.revision]
    <3>1. SeenOf(p, x.copy) = p.seen
      BY <2>3, SeenAlready
    <3> QED BY <1>1, <3>1 DEF PastHeard
  <2> HIDE DEF y
  <2>5. /\ y \in PastType /\ y.seen = p.seen /\ y.read = p.read /\ y.readyAt = sv.revision /\ y.lost = p.lost
    BY <2>4 DEF PastType, ServerType
  <2>6. y.readyAt <= sv.revision
    BY <2>5 DEF ServerType
  <2>7. ScreenOk(sv, x, y)
    BY <2>3, <2>5, <2>6 DEF ScreenOk, Shown, ReadsOk
  <2>8. \A n : Reading(x, y, n)
    BY <2>3 DEF Reading
  <2> QED BY <2>3, <2>5, <2>7, <2>8 DEF Has, Full, y
<1>2. ASSUME e.kind # "ready", x \in ScreenType, z \in PastType, ScreenOk(sv, x, z), Keeps(sv, s, p, x, z),
             z.readyAt = p.readyAt, \A n \in 0..sv.revision : Tells(e, n) => Has(x, z, n)
      PROVE  /\ x \in ScreenType /\ y \in PastType /\ ScreenOk(sv, x, y)
             /\ \A n \in 0..sv.revision : Has(s, p, n) \/ Tells(e, n) => Has(x, y, n)
             /\ y.readyAt = sv.revision => Full(sv, x, y)
             /\ y.lost = p.lost
  <2>0. z.lost = p.lost
    BY DEF PastSeen, PastType
  <2>1. y = z
    BY <1>2 DEF PastHeard, PastSeen, PastType
  <2> HIDE DEF y, z
  <2> QED BY <1>2, <2>0, <2>1 DEF Keeps
<1>3. ASSUME e.kind = "encounter_changed"
      PROVE  /\ x \in ScreenType /\ z \in PastType /\ ScreenOk(sv, x, z) /\ Keeps(sv, s, p, x, z)
             /\ z.readyAt = p.readyAt /\ \A n \in 0..sv.revision : Tells(e, n) => Has(x, z, n)
  <2>1. x = IF e.revision > s.copy.revision THEN BeginRead(s, 0) ELSE s
    BY <1>3 DEF OnEvent
  <2>2. CASE e.revision > s.copy.revision
    <3>1. x = BeginRead(s, 0)
      BY <2>1, <2>2
    <3>2. /\ x \in ScreenType /\ ScreenOk(sv, x, p) /\ Keeps(sv, s, p, x, p)
          /\ \A n \in Nat : Has(x, p, n)
      BY <3>1, BegunRead
    <3>3. x.copy = s.copy
      BY <3>1 DEF BeginRead, ScreenType
    <3>4. z = p
      BY <3>3, NothingSeen
    <3> HIDE DEF z
    <3> QED BY <3>2, <3>4
  <2>3. CASE ~(e.revision > s.copy.revision)
    <3>1. x = s
      BY <2>1, <2>3
    <3>2. z = p
      BY <3>1, NothingSeen
    <3>3. s.copy.revision \in Nat /\ e.revision \in Nat
      BY <1>3 DEF ScreenType, Copies, EventType
    <3>4. \A n \in 0..sv.revision : Tells(e, n) => Has(s, p, n)
      BY <1>3, <2>3, <3>3 DEF Tells, Has, ServerType
    <3> HIDE DEF z
    <3> QED BY <3>1, <3>2, <3>4 DEF Keeps
  <2> QED BY <2>2, <2>3
<1>4. ASSUME e.kind = "turn_changed"
      PROVE  /\ x \in ScreenType /\ z \in PastType /\ ScreenOk(sv, x, z) /\ Keeps(sv, s, p, x, z)
             /\ z.readyAt = p.readyAt
  <2>1. e.revision \in Nat /\ e.turn \in Nat
    BY <1>4 DEF EventType
  <2>2. e.revision <= sv.revision /\ e.turn <= sv.turn /\ (sv.turn <= e.revision => e.turn = sv.turn)
    BY <1>4 DEF EventOk
  <2>3. x \in OnTurnChanged(s, e)
    BY <1>4 DEF OnEvent
  <2> HIDE DEF ScreenOk, ServerOk
  <2> QED BY <2>1, <2>2, <2>3, TurnChanges
<1>5. ASSUME e.kind = "combatant_moved"
      PROVE  /\ x \in ScreenType /\ z \in PastType /\ ScreenOk(sv, x, z) /\ Keeps(sv, s, p, x, z)
             /\ z.readyAt = p.readyAt
  <2>1. e.place \in Nat /\ e.place <= sv.place
    BY <1>5 DEF EventType, EventOk
  <2>2. x = [s EXCEPT !.copy.place = e.place, !.reads = Disturbed(@)]
    BY <1>5 DEF OnEvent
  <2> DEFINE w == [s EXCEPT !.copy.place = e.place, !.reads = Disturbed(@)]
             v == PastSeen(p, w.copy)
  <2>3. /\ w \in ScreenType /\ v \in PastType /\ ScreenOk(sv, w, v) /\ Keeps(sv, s, p, w, v)
        /\ v.readyAt = p.readyAt
    <3> HIDE DEF ScreenOk, ServerOk, Keeps
    <3> QED BY <2>1, MovedPlace
  <2>4. x = w /\ z = v
    BY <2>2
  <2> HIDE DEF w, v, z
  <2> QED BY <2>3, <2>4
<1>6. e.kind = "turn_changed" \/ e.kind = "combatant_moved" => \A n : ~Tells(e, n)
  BY DEF Tells
<1>7. e.kind \in {"ready", "encounter_changed", "turn_changed", "combatant_moved"}
  BY DEF EventType
<1> HIDE DEF y, z
<1>8. CASE e.kind = "encounter_changed"
  BY <1>2, <1>3, <1>8 DEF y
<1>9. CASE e.kind = "turn_changed"
  BY <1>2, <1>4, <1>6, <1>9 DEF y
<1>10. CASE e.kind = "combatant_moved"
  BY <1>2, <1>5, <1>6, <1>10 DEF y
<1> QED BY <1>1, <1>7, <1>8, <1>9, <1>10 DEF y

AnsweredScreen(s, i, again) ==
    IF ~s.reads[i].disturbed /\ ~s.reads[i].overtaken THEN WithRead(s, i)
    ELSE IF again THEN BeginRead(Left(s, i), s.reads[i].attempt + 1) ELSE Left(s, i)

(* A read that answers, whatever it leads to.                              *)
LEMMA ReadComesBack ==
  ASSUME NEW sv \in ServerType, ServerOk(sv), NEW p \in PastType, NEW s \in ScreenType, ScreenOk(sv, s, p),
         NEW i \in DOMAIN s.reads, s.reads[i].served # None,
         NEW again \in BOOLEAN, again => s.reads[i].disturbed,
         NEW y \in PastType, y.seen = SeenOf(p, AnsweredScreen(s, i, again).copy), y.readyAt = p.readyAt,
         ~s.reads[i].disturbed /\ ~s.reads[i].overtaken =>
            /\ y.gaveUp = IF s.reads[i].served.revision >= p.gaveUp THEN 0 ELSE p.gaveUp
            /\ y.read = Newest(p.read, s.reads[i].served.revision)
            /\ y.crossed = (s.reads[i].served.revision < p.read),
         s.reads[i].disturbed \/ s.reads[i].overtaken =>
            /\ y.gaveUp = IF again THEN p.gaveUp ELSE IF i = Len(s.reads) THEN sv.revision ELSE p.gaveUp
            /\ y.read = p.read /\ y.crossed = p.crossed
  PROVE  LET x == AnsweredScreen(s, i, again)
         IN  x \in ScreenType /\ ScreenOk(sv, x, y) /\ Keeps(sv, s, p, x, y)
<1> DEFINE r == s.reads[i]
           x == AnsweredScreen(s, i, again)
<1>1. x = IF ~r.disturbed /\ ~r.overtaken THEN WithRead(s, i)
          ELSE IF again THEN BeginRead(Left(s, i), r.attempt + 1) ELSE Left(s, i)
  BY DEF AnsweredScreen
<1>2. y.seen = SeenOf(p, x.copy)
  OBVIOUS
<1> SUFFICES x \in ScreenType /\ ScreenOk(sv, x, y) /\ Keeps(sv, s, p, x, y)
  OBVIOUS
<1> HIDE DEF x
<1>3. r.attempt \in Nat /\ (r.served # None => r.served \in Copies)
  <2>1. s.reads \in Seq(ReadType)
    BY DEF ScreenType
  <2>2. r \in ReadType
    BY <2>1
  <2> QED BY <2>2 DEF ReadType
<1>4. Left(s, i) \in ScreenType /\ ScreenOk(sv, Left(s, i), p) /\ Left(s, i).copy = s.copy
  BY LeftScreen
<1>5. SeenOf(p, s.copy) = p.seen
  BY SeenAlready
<1>6. CASE ~r.disturbed /\ ~r.overtaken
  <2>1. x = WithRead(s, i)
    BY <1>1, <1>6
  <2>2. x.copy = r.served
    BY <1>3, <2>1, WithReadType
  <2>3. y.seen = SeenOf(p, r.served)
    BY <1>2, <2>2
  <2> HIDE DEF ScreenOk, ServerOk
  <2> QED BY <1>6, <2>1, <2>3, ReadIsShown
<1>7. CASE (r.disturbed \/ r.overtaken) /\ again
  <2>1. x = BeginRead(Left(s, i), r.attempt + 1)
    BY <1>1, <1>7
  <2>2. x.copy = s.copy
    BY <1>4, <2>1 DEF BeginRead, ScreenType
  <2>3. /\ y.seen = p.seen /\ y.read = p.read /\ y.readyAt = p.readyAt
        /\ y.gaveUp = p.gaveUp /\ y.crossed = p.crossed
    BY <1>2, <1>5, <1>7, <2>2
  <2>4. r.attempt + 1 \in Nat
    BY <1>3
  <2>5. /\ x \in ScreenType /\ ScreenOk(sv, x, p)
        /\ \A n \in Nat : Has(x, p, n) /\ Full(sv, x, p)
    BY <1>4, <2>1, <2>4, BegunRead
  <2>6. ScreenOk(sv, x, y) /\ \A n \in Nat : Has(x, y, n) /\ Full(sv, x, y)
    BY <2>3, <2>5, AlikePasts
  <2> QED BY <2>5, <2>6 DEF Keeps
<1>8. CASE (r.disturbed \/ r.overtaken) /\ ~again
  <2>1. x = Left(s, i)
    BY <1>1, <1>8
  <2>2. /\ y.seen = p.seen /\ y.read = p.read /\ y.crossed = p.crossed
        /\ y.gaveUp = IF i = Len(s.reads) THEN sv.revision ELSE p.gaveUp
    BY <1>2, <1>4, <1>5, <1>8, <2>1
  <2> HIDE DEF ScreenOk
  <2> QED BY <2>1, <2>2, ReadIsDropped
<1> QED BY <1>6, <1>7, <1>8

------------------------------------------------------------------------------
(* What is still to be told.                                               *)

(* The first event of a queue is taken off.                                *)
LEMMA HeadAndTail ==
  ASSUME NEW q \in Seq(EventType), q # <<>>
  PROVE  /\ Head(q) \in EventType /\ Tail(q) \in Seq(EventType) /\ 1 \in DOMAIN q /\ Head(q) = q[1]
         /\ \A k \in DOMAIN Tail(q) : k + 1 \in DOMAIN q /\ Tail(q)[k] = q[k + 1]
         /\ \A n : (\E k \in DOMAIN q : Tells(q[k], n)) =>
                    Tells(Head(q), n) \/ (Tail(q) # <<>> /\ \E k \in DOMAIN Tail(q) : Tells(Tail(q)[k], n))
<1> DEFINE N == Len(q)
           t == Tail(q)
<1>1. N \in Nat /\ N >= 1 /\ DOMAIN q = 1..N
  OBVIOUS
<1>2. t \in Seq(EventType) /\ Len(t) = N - 1 /\ \A k \in 1..(N - 1) : t[k] = q[k + 1]
  BY <1>1
<1>3. DOMAIN t = 1..(N - 1)
  BY <1>1, <1>2
<1>4. Head(q) = q[1] /\ 1 \in DOMAIN q /\ q[1] \in EventType
  BY <1>1
<1> HIDE DEF t, N
<1>5. ASSUME NEW n, NEW k \in DOMAIN q, Tells(q[k], n)
      PROVE  Tells(Head(q), n) \/ (t # <<>> /\ \E j \in DOMAIN t : Tells(t[j], n))
  <2>1. CASE k = 1
    BY <1>4, <1>5, <2>1
  <2>2. CASE k # 1
    <3>1. k - 1 \in DOMAIN t /\ (k - 1) + 1 = k
      BY <1>1, <1>3, <2>2
    <3>2. t[k - 1] = q[k]
      BY <1>2, <1>3, <3>1
    <3>3. t # <<>>
      BY <3>1
    <3> QED BY <1>5, <3>1, <3>2, <3>3
  <2> QED BY <2>1, <2>2
<1>6. \A k \in DOMAIN t : k + 1 \in DOMAIN q /\ t[k] = q[k + 1]
  BY <1>1, <1>2, <1>3
<1> QED BY <1>2, <1>4, <1>5, <1>6 DEF t

(* What a call publishes is of the combat as finish reads it, and hints at *)
(* all of it, but for a move.                                              *)
LEMMA PublishedEvents ==
  ASSUME NEW sv \in ServerType, ServerOk(sv), NEW kind \in Kinds, NEW at \in Nat, kind = "move" => at <= sv.place
  PROVE  LET es == Published(kind, at, sv)
         IN  /\ es \in Seq(EventType)
             /\ \A k \in DOMAIN es : EventOk(sv, es[k]) /\ (kind = "move" => es[k].kind = "combatant_moved")
             /\ kind # "move" => \A n \in 0..sv.revision : \E k \in DOMAIN es : Tells(es[k], n)
<1> DEFINE es == Published(kind, at, sv)
           h == Hint(sv)
           c == Turn(sv)
           m == Moved(at)
<1>1. sv.revision \in Nat /\ sv.turn \in Nat /\ sv.go \in Goes
  BY DEF ServerType
<1>2. h \in EventType /\ EventOk(sv, h) /\ \A n \in 0..sv.revision : Tells(h, n)
  BY <1>1 DEF Hint, EventType, EventOk, Tells
<1>3. c \in EventType /\ EventOk(sv, c)
  BY <1>1 DEF Turn, EventType, EventOk
<1>4. kind = "move" => m \in EventType /\ EventOk(sv, m) /\ m.kind = "combatant_moved"
  BY DEF Moved, EventType, EventOk
<1>5. CASE kind = "end_turn"
  <2>1. es = <<c, h>>
    BY <1>5 DEF Published
  <2> HIDE DEF es, c, h
  <2>2. DOMAIN es = 1..2 /\ es[1] = c /\ es[2] = h /\ es \in Seq(EventType) /\ 2 \in DOMAIN es
    BY <1>2, <1>3, <2>1
  <2> QED BY <1>2, <1>3, <1>5, <2>2 DEF es
<1>6. CASE kind = "turn"
  <2>1. es = <<h, c>>
    BY <1>6 DEF Published
  <2> HIDE DEF es, c, h
  <2>2. DOMAIN es = 1..2 /\ es[1] = h /\ es[2] = c /\ es \in Seq(EventType) /\ 1 \in DOMAIN es
    BY <1>2, <1>3, <2>1
  <2> QED BY <1>2, <1>3, <1>6, <2>2 DEF es
<1>7. CASE kind = "move"
  <2>1. es = <<m>>
    BY <1>7 DEF Published
  <2> HIDE DEF es, m
  <2>2. DOMAIN es = 1..1 /\ es[1] = m /\ es \in Seq(EventType)
    BY <1>4, <1>7, <2>1
  <2> QED BY <1>4, <1>7, <2>2 DEF es
<1>8. CASE kind = "other"
  <2>1. es = <<h>>
    BY <1>8 DEF Published
  <2> HIDE DEF es, h
  <2>2. DOMAIN es = 1..1 /\ es[1] = h /\ es \in Seq(EventType) /\ 1 \in DOMAIN es
    BY <1>2, <2>1
  <2> QED BY <1>2, <1>8, <2>2 DEF es
<1> QED BY <1>5, <1>6, <1>7, <1>8 DEF Kinds

(* What was of the combat is of it after a change.                         *)
LEMMA AfterAChange ==
  ASSUME NEW sv \in ServerType, NEW w \in ServerType, ServerOk(sv), w.revision = sv.revision + 1,
         w.turn = sv.turn \/ w.turn = w.revision, w.place = sv.place \/ w.place = w.revision,
         w.rest = sv.rest \/ w.rest = w.revision
  PROVE  /\ ServerOk(w)
         /\ \A c \in Copies : CopyOk(sv, c) => CopyOk(w, c)
         /\ \A e \in EventType : EventOk(sv, e) => EventOk(w, e)
         /\ \A t \in CallType : CallOk(sv, t) => CallOk(w, t)
         /\ \A s \in ScreenType, p \in PastType : ScreenOk(sv, s, p) => ScreenOk(w, s, p)
<1>1. /\ sv.revision \in Nat /\ sv.turn \in Nat /\ sv.place \in Nat /\ sv.rest \in Nat
      /\ w.revision \in Nat /\ w.turn \in Nat /\ w.place \in Nat /\ w.rest \in Nat
      /\ sv.turn <= sv.revision /\ sv.place <= sv.revision /\ sv.rest <= sv.revision
  BY DEF ServerType, ServerOk
<1>2. /\ sv.turn <= w.turn /\ sv.place <= w.place /\ sv.rest <= w.rest
      /\ \A n \in Nat : n <= sv.revision =>
            /\ n <= w.revision
            /\ w.turn <= n => w.turn = sv.turn
            /\ w.place <= n => w.place = sv.place
            /\ w.rest <= n => w.rest = sv.rest
  BY <1>1
<1>3. ASSUME NEW c \in Copies, CopyOk(sv, c) PROVE CopyOk(w, c)
  <2>1. c.revision \in Nat /\ c.turn \in Nat /\ c.place \in Nat
    BY DEF Copies
  <2> QED BY <1>1, <1>2, <1>3, <2>1 DEF CopyOk
<1>4. ASSUME NEW e \in EventType, EventOk(sv, e) PROVE EventOk(w, e)
  <2>1. CASE e.kind = "turn_changed"
    <3>1. e.revision \in Nat /\ e.turn \in Nat
      BY <2>1 DEF EventType
    <3> QED BY <1>1, <1>2, <1>4, <2>1, <3>1 DEF EventOk
  <2>2. CASE e.kind = "combatant_moved"
    <3>1. e.place \in Nat
      BY <2>2 DEF EventType
    <3> QED BY <1>1, <1>2, <1>4, <2>2, <3>1 DEF EventOk
  <2> QED BY <2>1, <2>2 DEF EventOk
<1>5. ASSUME NEW t \in CallType, CallOk(sv, t) PROVE CallOk(w, t)
  <2>1. t.read # None => t.read \in Copies
    BY DEF CallType
  <2>2. t.events \in Seq(EventType) /\ t.at \in Nat
    BY DEF CallType
  <2>3. \A k \in DOMAIN t.events : t.events[k] \in EventType
    BY <2>2
  <2>4. t.at <= sv.place => t.at <= w.place
    BY <1>1, <1>2, <2>2
  <2> QED BY <1>3, <1>4, <1>5, <2>1, <2>3, <2>4 DEF CallOk
<1>6. ASSUME NEW s \in ScreenType, NEW p \in PastType, ScreenOk(sv, s, p) PROVE ScreenOk(w, s, p)
  <2>1. /\ s.copy.revision \in Nat /\ s.copy.turn \in Nat /\ s.copy.place \in Nat
        /\ p.read \in Nat /\ p.readyAt \in Nat /\ p.seen.turn \in Nat /\ p.seen.place \in Nat
        /\ s.reads \in Seq(ReadType)
    BY DEF ScreenType, Copies, PastType
  <2>2. \A i \in DOMAIN s.reads : s.reads[i].served # None => s.reads[i].served \in Copies
    <3>1. \A i \in DOMAIN s.reads : s.reads[i] \in ReadType
      BY <2>1
    <3> QED BY <3>1 DEF ReadType
  <2>3. ReadsOk(w, s, p)
    BY <1>3, <1>6, <2>2 DEF ScreenOk, ReadsOk
  <2>4. Shown(w, s, p)
    <3>0. /\ s.copy.revision <= sv.revision /\ p.read <= sv.revision /\ p.readyAt <= sv.revision
          /\ p.seen.turn <= sv.turn /\ p.seen.place <= sv.place
      BY <1>6 DEF ScreenOk, Shown
    <3> DEFINE a == s.copy.revision
    <3>4. a \in Nat /\ a <= sv.revision
      BY <2>1, <3>0
    <3> HIDE DEF a
    <3>1. a <= w.revision /\ p.read <= w.revision /\ p.readyAt <= w.revision
      <4> DEFINE b == p.read
                 c == p.readyAt
      <4>1. b \in Nat /\ c \in Nat /\ b <= sv.revision /\ c <= sv.revision
        BY <2>1, <3>0
      <4> HIDE DEF b, c
      <4>2. a <= w.revision /\ b <= w.revision /\ c <= w.revision
        BY <1>1, <3>4, <4>1
      <4> QED BY <4>2 DEF b, c
    <3>2. p.seen.turn <= w.turn /\ p.seen.place <= w.place
      <4> DEFINE b == p.seen.turn
                 c == p.seen.place
      <4>1. b \in Nat /\ c \in Nat /\ b <= sv.turn /\ c <= sv.place
        BY <2>1, <3>0
      <4> HIDE DEF b, c
      <4>2. b <= w.turn /\ c <= w.place
        BY <1>1, <1>2, <4>1
      <4> QED BY <4>2 DEF b, c
    <3>3. (w.turn <= a => w.turn = sv.turn) /\ (w.rest <= a => w.rest = sv.rest)
      BY <1>1, <3>4
    <3> USE DEF a
    <3> QED BY <1>6, <3>1, <3>2, <3>3 DEF ScreenOk, Shown
  <2> QED BY <2>3, <2>4 DEF ScreenOk
<1>7. ServerOk(w)
  BY <1>1 DEF ServerOk
<1> QED BY <1>3, <1>4, <1>5, <1>6, <1>7

------------------------------------------------------------------------------
(* The steps.                                                              *)

LEMMA AtTheStart == Init => Inv
<1> SUFFICES ASSUME Init PROVE Inv
  OBVIOUS
<1>1. PICK master \in BOOLEAN :
        screen = [master |-> master, copy |-> Start, whole |-> TRUE, reads |-> <<>>,
                  retries |-> 0, snapshot |-> FALSE, busy |-> FALSE, calls |-> 0]
  BY DEF Init
<1>2. /\ server = [revision |-> 1, turn |-> 1, place |-> 1, rest |-> 1, go |-> "on"]
      /\ telling = {} /\ stream = [queue |-> <<>>, drops |-> 0]
      /\ past = [seen |-> [turn |-> 1, place |-> 1], read |-> 1, readyAt |-> 1,
                 gaveUp |-> 0, lost |-> {}, crossed |-> FALSE]
  BY DEF Init
<1>3. TRUE \in BOOLEAN /\ FALSE \in BOOLEAN /\ <<>> \in Seq(ReadType) /\ <<>> \in Seq(EventType)
      /\ Start \in Copies
  BY DEF Start, Copies
<1>4. server \in ServerType /\ ServerOk(server)
  BY <1>2 DEF ServerType, Goes, ServerOk
<1>5. screen \in ScreenType
  BY <1>1, <1>3 DEF ScreenType
<1>6. past \in PastType
  BY <1>2, <1>3 DEF PastType
<1>7. stream \in [queue : Seq(EventType), drops : Nat] /\ stream.queue = <<>>
  BY <1>2, <1>3
<1>8. screen.copy.revision = 1 /\ screen.copy.turn = 1 /\ screen.copy.place = 1 /\ screen.copy.rest = 1
      /\ screen.reads = <<>>
  BY <1>1 DEF Start
<1>9. server.revision = 1 /\ server.turn = 1 /\ server.place = 1 /\ server.rest = 1
  BY <1>2
<1>10. past.seen.turn = 1 /\ past.seen.place = 1 /\ past.read = 1 /\ past.readyAt = 1
  BY <1>2
<1>11. Shown(server, screen, past)
  BY <1>8, <1>9, <1>10 DEF Shown
<1>12. ReadsOk(server, screen, past)
  BY <1>8 DEF ReadsOk
<1>13. Covered(server, telling, stream.queue, screen, past)
  BY <1>8, <1>9 DEF Covered, Has
<1>14. Full(server, screen, past)
  BY <1>8, <1>9, <1>10 DEF Full
<1> QED BY <1>2, <1>4, <1>5, <1>6, <1>7, <1>11, <1>12, <1>13, <1>14 DEF Inv, Types, ScreenOk

(* A step of the page alone, or of the network, that keeps what it had.    *)
LEMMA ScreenSteps ==
  ASSUME Inv, server' = server, telling' = telling,
         stream'.queue = stream.queue, stream' \in [queue : Seq(EventType), drops : Nat],
         screen' \in ScreenType, past' \in PastType, ScreenOk(server, screen', past'),
         Keeps(server, screen, past, screen', past'), past'.readyAt = past.readyAt,
         \A n \in past.lost : n \in past'.lost \/ Has(screen', past', n)
  PROVE  Inv'
<1>1. server.turn \in 0..server.revision /\ server.rest \in 0..server.revision
  BY DEF Inv, Types, ServerType, ServerOk
<1>2. Covered(server, telling, stream.queue, screen', past')
  BY <1>1 DEF Inv, Covered, Keeps
<1>3. past'.readyAt = server.revision => Full(server, screen', past')
  BY DEF Inv, Keeps
<1>4. Types'
  BY DEF Inv, Types
<1>5. ServerOk(server)' /\ (\A t \in telling : CallOk(server, t))'
      /\ (\A k \in DOMAIN stream.queue : EventOk(server, stream.queue[k]))'
  BY DEF Inv
<1> QED BY <1>2, <1>3, <1>4, <1>5 DEF Inv

LEMMA CommitKeeps ==
  ASSUME Inv, NEW kind \in Kinds, NEW go \in Goes, NEW more \in BOOLEAN, NEW mine \in BOOLEAN,
         Commit(kind, go, more, mine)
  PROVE  Inv'
<1> DEFINE r == server.revision + 1
           turns == kind \in {"end_turn", "turn"}
           t0 == [at |-> r, kind |-> kind, mine |-> mine, read |-> None,
                   failed |-> FALSE, events |-> <<>>]
<1>0. /\ server \in ServerType /\ ServerOk(server) /\ telling \subseteq CallType
      /\ stream \in [queue : Seq(EventType), drops : Nat] /\ screen \in ScreenType /\ past \in PastType
      /\ ScreenOk(server, screen, past)
  BY DEF Inv, Types
<1>1. /\ server' = [revision |-> r,
                    turn |-> IF turns THEN r ELSE server.turn,
                    place |-> IF kind = "move" THEN r ELSE server.place,
                    rest |-> IF kind = "other" \/ more THEN r ELSE server.rest,
                    go |-> IF turns THEN go ELSE server.go]
      /\ telling' = telling \cup {t0}
      /\ screen' = IF mine THEN [screen EXCEPT !.busy = TRUE, !.calls = @ + 1] ELSE screen
      /\ stream' = stream /\ past' = past
      /\ more => turns
  BY DEF Commit
<1>2. r \in Nat /\ server.revision \in Nat /\ r # server.revision
  BY <1>0 DEF ServerType
<1> HIDE DEF r
<1>3. server' \in ServerType /\ server'.revision = r
  BY <1>0, <1>1, <1>2 DEF ServerType
<1>4. /\ server'.turn = IF turns THEN r ELSE server.turn
      /\ server'.place = IF kind = "move" THEN r ELSE server.place
      /\ server'.rest = IF kind = "other" \/ more THEN r ELSE server.rest
  BY <1>1
<1>5. /\ ServerOk(server')
      /\ \A e \in EventType : EventOk(server, e) => EventOk(server', e)
      /\ \A t \in CallType : CallOk(server, t) => CallOk(server', t)
      /\ \A s \in ScreenType, p \in PastType : ScreenOk(server, s, p) => ScreenOk(server', s, p)
  <2>1. server'.revision = server.revision + 1
    BY <1>3 DEF r
  <2>2. /\ server'.turn = server.turn \/ server'.turn = server'.revision
        /\ server'.place = server.place \/ server'.place = server'.revision
        /\ server'.rest = server.rest \/ server'.rest = server'.revision
    BY <1>3, <1>4
  <2> QED BY <1>0, <1>3, <2>1, <2>2, AfterAChange
<1>6. t0 \in CallType /\ t0.read = None /\ t0.events = <<>> /\ t0.kind = kind /\ t0.at = r /\ ~t0.failed
  <2>1. <<>> \in Seq(EventType) /\ FALSE \in BOOLEAN
    OBVIOUS
  <2> QED BY <1>2, <2>1 DEF CallType
<1> HIDE DEF t0
<1>7. CallOk(server', t0)
  <2>1. server'.place \in Nat /\ (kind = "move" => t0.at <= server'.place)
    BY <1>2, <1>3, <1>4, <1>6 DEF ServerType
  <2> QED BY <1>6, <2>1 DEF CallOk
<1>8. screen' \in ScreenType /\ screen'.copy = screen.copy /\ screen'.reads = screen.reads
      /\ screen'.whole = screen.whole /\ screen'.master = screen.master /\ screen'.snapshot = screen.snapshot
      /\ screen'.retries = screen.retries
  <2>1. TRUE \in BOOLEAN /\ screen.calls + 1 \in Nat
    BY <1>0 DEF ScreenType
  <2>2. CASE mine
    <3>1. screen' = [screen EXCEPT !.busy = TRUE, !.calls = screen.calls + 1]
      BY <1>1, <2>2
    <3> QED BY <1>0, <2>1, <3>1 DEF ScreenType
  <2>3. CASE ~mine
    BY <1>0, <1>1, <2>3
  <2> QED BY <2>2, <2>3
<1>9. ScreenOk(server', screen', past') /\ \A n : Has(screen, past, n) <=> Has(screen', past, n)
  <2>1. ScreenOk(server, screen', past) /\ \A n : Has(screen, past, n) <=> Has(screen', past, n)
    BY <1>0, <1>8, AlikeScreens
  <2> QED BY <1>0, <1>1, <1>5, <1>8, <2>1
<1>10. Types'
  BY <1>0, <1>1, <1>3, <1>6, <1>8 DEF Types
<1>11. \A t \in telling' : CallOk(server', t)
  BY <1>0, <1>1, <1>5, <1>7 DEF Inv
<1>12. \A k \in DOMAIN stream'.queue : EventOk(server', stream'.queue[k])
  <2>1. stream.queue \in Seq(EventType)
    BY <1>0
  <2>2. \A k \in DOMAIN stream.queue : stream.queue[k] \in EventType
    BY <2>1
  <2> QED BY <1>1, <1>5, <2>2 DEF Inv
<1>13. ASSUME NEW n \in {server'.turn, server'.rest}
       PROVE  n \in past'.lost \/ ToBeTold(telling', stream'.queue, n) \/ Has(screen', past', n)
  <2>1. CASE n = r /\ kind # "move"
    BY <1>1, <1>6, <2>1 DEF ToBeTold
  <2>2. CASE n \in {server.turn, server.rest}
    <3>1. n \in past.lost \/ ToBeTold(telling, stream.queue, n) \/ Has(screen, past, n)
      BY <2>2 DEF Inv, Covered
    <3>2. ToBeTold(telling, stream.queue, n) => ToBeTold(telling', stream'.queue, n)
      BY <1>1 DEF ToBeTold
    <3> QED BY <1>1, <1>9, <3>1, <3>2
  <2>3. kind = "move" => ~turns
    OBVIOUS
  <2> QED BY <1>1, <1>4, <2>1, <2>2, <2>3
<1>14. past'.readyAt # server'.revision
  BY <1>0, <1>1, <1>2, <1>3 DEF ScreenOk, Shown, PastType, r
<1> QED BY <1>5, <1>9, <1>10, <1>11, <1>12, <1>13, <1>14 DEF Inv, Covered

LEMMA FinishReadsKeeps ==
  ASSUME Inv, NEW t \in telling, FinishReads(t)
  PROVE  Inv'
<1> DEFINE c == CopyOf(server)
           es == Published(t.kind, t.at, server)
           u == [t EXCEPT !.read = c, !.events = es]
<1>0. /\ server \in ServerType /\ ServerOk(server) /\ telling \subseteq CallType /\ t \in CallType
      /\ t.kind \in Kinds /\ t.at \in Nat /\ CallOk(server, t)
  BY DEF Inv, Types, CallType
<1>1. /\ telling' = (telling \ {t}) \cup {u}
      /\ server' = server /\ stream' = stream /\ screen' = screen /\ past' = past
  BY DEF FinishReads
<1>2. c \in Copies /\ CopyOk(server, c)
  BY <1>0 DEF CopyOf, Copies, ServerType, CopyOk, ServerOk
<1>3. /\ es \in Seq(EventType)
      /\ \A k \in DOMAIN es : EventOk(server, es[k]) /\ (t.kind = "move" => es[k].kind = "combatant_moved")
      /\ t.kind # "move" => \A n \in 0..server.revision : \E k \in DOMAIN es : Tells(es[k], n)
  <2>1. t.kind = "move" => t.at <= server.place
    BY <1>0 DEF CallOk
  <2> QED BY <1>0, <2>1, PublishedEvents
<1> HIDE DEF c, es
<1>4. u \in CallType /\ u.read = c /\ u.events = es /\ u.kind = t.kind /\ u.at = t.at /\ u.failed = t.failed
  BY <1>0, <1>2, <1>3 DEF CallType
<1> HIDE DEF u
<1>5. CallOk(server, u)
  <2>1. c # None
    BY <1>2, NoneAssumption DEF Copies
  <2>2. ~t.failed
    BY DEF FinishReads
  <2> QED BY <1>0, <1>2, <1>3, <1>4, <2>1, <2>2 DEF CallOk
<1>6. ASSUME NEW n \in 0..server.revision, ToBeTold(telling, stream.queue, n)
      PROVE  ToBeTold(telling', stream'.queue, n)
  <2>1. CASE t.kind # "move"
    <3>1. \E k \in DOMAIN u.events : Tells(u.events[k], n)
      BY <1>3, <1>4, <2>1
    <3> QED BY <1>1, <3>1 DEF ToBeTold
  <2>2. CASE t.kind = "move"
    <3>1. \A k \in DOMAIN t.events : ~Tells(t.events[k], n)
      BY <1>0, <2>2 DEF CallOk, Tells
    <3> QED BY <1>1, <1>6, <2>2, <3>1 DEF ToBeTold
  <2> QED BY <2>1, <2>2
<1>7. server.turn \in 0..server.revision /\ server.rest \in 0..server.revision
  BY <1>0 DEF ServerType, ServerOk
<1>9. \A n \in {server'.turn, server'.rest} :
        n \in past'.lost \/ ToBeTold(telling', stream'.queue, n) \/ Has(screen', past', n)
  BY <1>1, <1>6, <1>7 DEF Inv, Covered
<1>10. Types'
  BY <1>0, <1>1, <1>4 DEF Inv, Types
<1>11. \A d \in telling' : CallOk(server', d)
  BY <1>1, <1>5 DEF Inv
<1>12. (past.readyAt = server.revision => Full(server, screen, past))'
  BY <1>1 DEF Inv
<1>13. (ServerOk(server) /\ ScreenOk(server, screen, past))'
       /\ (\A k \in DOMAIN stream.queue : EventOk(server, stream.queue[k]))'
  BY <1>1 DEF Inv
<1> QED BY <1>9, <1>10, <1>11, <1>12, <1>13 DEF Inv, Covered

LEMMA FinishFailsKeeps ==
  ASSUME Inv, NEW t \in telling, FinishFails(t)
  PROVE  Inv'
<1> DEFINE u == [t EXCEPT !.failed = TRUE]
           L == past.lost \cup {t.at}
<1>0. /\ server \in ServerType /\ telling \subseteq CallType /\ t \in CallType /\ CallOk(server, t)
      /\ past \in PastType /\ ScreenOk(server, screen, past)
      /\ (past.readyAt = server.revision => Full(server, screen, past))
  BY DEF Inv, Types
<1>1. /\ t.read = None /\ t.events = <<>> /\ ~t.failed
      /\ telling' = (telling \ {t}) \cup IF t.mine THEN {u} ELSE {}
      /\ past' = [past EXCEPT !.lost = L]
      /\ server' = server /\ stream' = stream /\ screen' = screen
  BY <1>0 DEF FinishFails, CallOk
<1>2. u \in CallType /\ u.read = t.read /\ u.events = t.events /\ u.kind = t.kind /\ u.at = t.at
  <2>1. TRUE \in BOOLEAN
    OBVIOUS
  <2> QED BY <1>0, <2>1 DEF CallType
<1>3. L \in SUBSET Nat
  BY <1>0 DEF PastType, CallType
<1> HIDE DEF u, L
<1>4. /\ past' \in PastType /\ past'.lost = L
      /\ past'.seen = past.seen /\ past'.read = past.read /\ past'.readyAt = past.readyAt
      /\ past'.gaveUp = past.gaveUp /\ past'.crossed = past.crossed
  BY <1>0, <1>1, <1>3 DEF PastType
<1>5. /\ ScreenOk(server, screen, past') /\ \A n : Has(screen, past, n) <=> Has(screen, past', n)
      /\ (past'.readyAt = server.revision => Full(server, screen, past'))
  BY <1>0, <1>4, AlikePasts
<1>6. CallOk(server, u)
  BY <1>0, <1>1, <1>2 DEF CallOk
<1>7. ASSUME NEW n, ToBeTold(telling, stream.queue, n)
      PROVE  n \in L \/ ToBeTold(telling', stream.queue, n)
  <2>1. CASE n = t.at
    BY <2>1 DEF L
  <2>2. CASE n # t.at
    <3>1. \A d \in telling \ {t} : d \in telling'
      BY <1>1
    <3> QED BY <1>1, <1>7, <2>2, <3>1 DEF ToBeTold
  <2> QED BY <2>1, <2>2
<1>8. Covered(server, telling', stream.queue, screen, past')
  <2>1. \A n : n \in past.lost => n \in L
    BY DEF L
  <2> QED BY <1>4, <1>5, <1>7, <2>1 DEF Inv, Covered
<1>9. Types'
  BY <1>0, <1>1, <1>2, <1>4 DEF Inv, Types
<1>10. \A d \in telling' : CallOk(server, d)
  BY <1>1, <1>6 DEF Inv
<1>11. (ServerOk(server))' /\ (\A k \in DOMAIN stream.queue : EventOk(server, stream.queue[k]))'
  BY <1>1 DEF Inv
<1> QED BY <1>1, <1>5, <1>8, <1>9, <1>10, <1>11 DEF Inv

LEMMA PublishKeeps ==
  ASSUME Inv, NEW t \in telling, Publish(t)
  PROVE  Inv'
<1> DEFINE e == Head(t.events)
           q == Append(stream.queue, e)
           u == [t EXCEPT !.events = Tail(@)]
<1>0. /\ server \in ServerType /\ telling \subseteq CallType /\ t \in CallType /\ CallOk(server, t)
      /\ t.events \in Seq(EventType) /\ t.events # <<>>
      /\ stream \in [queue : Seq(EventType), drops : Nat] /\ stream.queue \in Seq(EventType)
  BY DEF Inv, Types, CallType, Publish
<1>1. /\ stream' = [stream EXCEPT !.queue = q]
      /\ telling' = (telling \ {t}) \cup IF Told(u) /\ ~t.mine THEN {} ELSE {u}
      /\ server' = server /\ screen' = screen /\ past' = past
  BY DEF Publish
<1>2. /\ e \in EventType /\ Tail(t.events) \in Seq(EventType) /\ 1 \in DOMAIN t.events /\ e = t.events[1]
      /\ \A k \in DOMAIN Tail(t.events) : k + 1 \in DOMAIN t.events /\ Tail(t.events)[k] = t.events[k + 1]
      /\ \A n : (\E k \in DOMAIN t.events : Tells(t.events[k], n)) =>
                 Tells(e, n) \/ (Tail(t.events) # <<>> /\ \E k \in DOMAIN Tail(t.events) : Tells(Tail(t.events)[k], n))
  BY <1>0, HeadAndTail
<1>3. u \in CallType /\ u.events = Tail(t.events) /\ u.read = t.read /\ u.kind = t.kind /\ u.at = t.at
      /\ u.failed = t.failed
  BY <1>0, <1>2 DEF CallType
<1> HIDE DEF e, u
<1>4. EventOk(server, e)
  BY <1>0, <1>2 DEF CallOk
<1>5. CallOk(server, u)
  BY <1>0, <1>2, <1>3 DEF CallOk
<1>6. /\ q \in Seq(EventType) /\ DOMAIN q = 1..(Len(stream.queue) + 1)
      /\ DOMAIN stream.queue = 1..Len(stream.queue) /\ Len(stream.queue) \in Nat
      /\ q[Len(stream.queue) + 1] = e
      /\ \A k \in DOMAIN stream.queue : q[k] = stream.queue[k]
  BY <1>0, <1>2
<1> HIDE DEF q
<1>7. stream' \in [queue : Seq(EventType), drops : Nat] /\ stream'.queue = q
  BY <1>0, <1>1, <1>6
<1>8. ASSUME NEW n, ToBeTold(telling, stream.queue, n)
      PROVE  ToBeTold(telling', q, n)
  <2>1. CASE Tells(e, n)
    <3>1. Len(stream.queue) + 1 \in DOMAIN q
      BY <1>6
    <3> QED BY <1>6, <2>1, <3>1 DEF ToBeTold
  <2>2. CASE \E k \in DOMAIN stream.queue : Tells(stream.queue[k], n)
    <3>1. DOMAIN stream.queue \subseteq DOMAIN q
      BY <1>6
    <3> QED BY <1>6, <2>2, <3>1 DEF ToBeTold
  <2>3. CASE \E d \in telling : d.kind # "move" /\ d.at = n /\ d.read = None /\ ~d.failed
    <3>1. PICK d \in telling : d.kind # "move" /\ d.at = n /\ d.read = None /\ ~d.failed
      BY <2>3
    <3>2. CASE d # t
      BY <1>1, <3>1, <3>2 DEF ToBeTold
    <3>3. CASE d = t
      <4>1. u \in telling'
        BY <1>1, <1>3, <3>1, <3>3 DEF Told
      <4> QED BY <1>3, <3>1, <3>3, <4>1 DEF ToBeTold
    <3> QED BY <3>2, <3>3
  <2>4. CASE \E d \in telling : \E k \in DOMAIN d.events : Tells(d.events[k], n)
    <3>1. PICK d \in telling : \E k \in DOMAIN d.events : Tells(d.events[k], n)
      BY <2>4
    <3>2. CASE d # t
      BY <1>1, <3>1, <3>2 DEF ToBeTold
    <3>3. CASE d = t /\ ~Tells(e, n)
      <4>1. u.events # <<>> /\ \E k \in DOMAIN u.events : Tells(u.events[k], n)
        BY <1>2, <1>3, <3>1, <3>3
      <4>2. u \in telling'
        BY <1>1, <4>1 DEF Told
      <4> QED BY <4>1, <4>2 DEF ToBeTold
    <3> QED BY <2>1, <3>2, <3>3
  <2> QED BY <1>8, <2>2, <2>3, <2>4 DEF ToBeTold
<1>9. Covered(server, telling', stream'.queue, screen, past)
  BY <1>7, <1>8 DEF Inv, Covered
<1>10. Types'
  BY <1>0, <1>1, <1>3, <1>7 DEF Inv, Types
<1>11. \A d \in telling' : CallOk(server, d)
  BY <1>1, <1>5 DEF Inv
<1>12. \A k \in DOMAIN stream'.queue : EventOk(server, stream'.queue[k])
  BY <1>4, <1>6, <1>7 DEF Inv
<1>13. (ServerOk(server) /\ ScreenOk(server, screen, past))'
       /\ (past.readyAt = server.revision => Full(server, screen, past))'
  BY <1>1 DEF Inv
<1> QED BY <1>1, <1>9, <1>10, <1>11, <1>12, <1>13 DEF Inv

LEMMA ReceiveKeeps == Inv /\ Receive => Inv'
<1> SUFFICES ASSUME Inv, Receive PROVE Inv'
  OBVIOUS
<1> DEFINE q == stream.queue
           e == Head(q)
<1>0. /\ server \in ServerType /\ ServerOk(server) /\ telling \subseteq CallType
      /\ screen \in ScreenType /\ past \in PastType /\ ScreenOk(server, screen, past)
      /\ stream \in [queue : Seq(EventType), drops : Nat] /\ q \in Seq(EventType) /\ q # <<>>
      /\ (past.readyAt = server.revision => Full(server, screen, past))
      /\ (\A k \in DOMAIN q : EventOk(server, q[k]))
  BY DEF Inv, Types, Receive
<1>1. /\ screen' \in OnEvent(screen, e)
      /\ stream' = [stream EXCEPT !.queue = Tail(q)]
      /\ past' = PastHeard(server, past, screen'.copy, e)
      /\ server' = server /\ telling' = telling
  BY DEF Receive, PastHeard, Seen, SeenOf
<1>2. /\ e \in EventType /\ Tail(q) \in Seq(EventType) /\ 1 \in DOMAIN q /\ e = q[1]
      /\ \A k \in DOMAIN Tail(q) : k + 1 \in DOMAIN q /\ Tail(q)[k] = q[k + 1]
      /\ \A n : (\E k \in DOMAIN q : Tells(q[k], n)) =>
                 Tells(e, n) \/ (Tail(q) # <<>> /\ \E k \in DOMAIN Tail(q) : Tells(Tail(q)[k], n))
  BY <1>0, HeadAndTail
<1>3. EventOk(server, e)
  BY <1>0, <1>2
<1> HIDE DEF e
<1>4. /\ screen' \in ScreenType /\ past' \in PastType /\ ScreenOk(server, screen', past')
      /\ \A n \in 0..server.revision : Has(screen, past, n) \/ Tells(e, n) => Has(screen', past', n)
      /\ past'.readyAt = server.revision => Full(server, screen', past')
      /\ past'.lost = past.lost
  <2> HIDE DEF ScreenOk, ServerOk
  <2> QED BY <1>0, <1>1, <1>2, <1>3, EventArrives
<1>5. stream' \in [queue : Seq(EventType), drops : Nat] /\ stream'.queue = Tail(q)
  BY <1>0, <1>1, <1>2
<1> HIDE DEF q
<1>6. server.turn \in 0..server.revision /\ server.rest \in 0..server.revision
  BY <1>0 DEF ServerType, ServerOk
<1>7. \A n \in {server.turn, server.rest} :
        ToBeTold(telling, q, n) => ToBeTold(telling, Tail(q), n) \/ Has(screen', past', n)
  BY <1>2, <1>4, <1>6 DEF ToBeTold
<1>8. Covered(server, telling, Tail(q), screen', past')
  BY <1>4, <1>6, <1>7 DEF Inv, Covered, q
<1>9. Types'
  BY <1>0, <1>1, <1>4, <1>5 DEF Types
<1>10. \A k \in DOMAIN stream'.queue : EventOk(server, stream'.queue[k])
  BY <1>0, <1>2, <1>5
<1> QED BY <1>0, <1>1, <1>4, <1>5, <1>8, <1>9, <1>10 DEF Inv

LEMMA SnapshotKeeps == Inv /\ SnapshotAnswers => Inv'
<1> SUFFICES ASSUME Inv, SnapshotAnswers PROVE Inv'
  OBVIOUS
<1> DEFINE s == [screen EXCEPT !.snapshot = FALSE]
<1>0. /\ server \in ServerType /\ screen \in ScreenType /\ past \in PastType /\ ScreenOk(server, screen, past)
      /\ stream \in [queue : Seq(EventType), drops : Nat]
  BY DEF Inv, Types
<1>1. screen' = BeginRead(s, 0) /\ UNCHANGED <<server, telling, stream, past>>
  BY DEF SnapshotAnswers
<1>2. s \in ScreenType /\ s.copy = screen.copy /\ s.reads = screen.reads /\ s.whole = screen.whole
      /\ s.master = screen.master
  <2>1. FALSE \in BOOLEAN
    OBVIOUS
  <2> QED BY <1>0, <2>1 DEF ScreenType
<1> HIDE DEF s
<1>3. ScreenOk(server, s, past)
  BY <1>0, <1>2 DEF ScreenOk, Shown, ReadsOk
<1>4. screen' \in ScreenType /\ ScreenOk(server, screen', past)
      /\ \A n \in Nat : Has(screen', past, n) /\ Full(server, screen', past)
  BY <1>0, <1>1, <1>2, <1>3, BegunRead
<1>5. Keeps(server, screen, past, screen', past)
  BY <1>4 DEF Keeps
<1> QED BY <1>0, <1>1, <1>4, <1>5, ScreenSteps

LEMMA RetryReadKeeps == Inv /\ RetryRead => Inv'
<1> SUFFICES ASSUME Inv, RetryRead PROVE Inv'
  OBVIOUS
<1> DEFINE m == screen.retries - 1
           s == [screen EXCEPT !.retries = m]
<1>0. /\ server \in ServerType /\ screen \in ScreenType /\ past \in PastType /\ ScreenOk(server, screen, past)
      /\ stream \in [queue : Seq(EventType), drops : Nat]
  BY DEF Inv, Types
<1>1. screen' = BeginRead(s, Rereads) /\ screen.retries > 0 /\ UNCHANGED <<server, telling, stream, past>>
  BY DEF RetryRead
<1>2. m \in Nat
  BY <1>0, <1>1 DEF ScreenType
<1> HIDE DEF m
<1>3. s \in ScreenType /\ s.copy = screen.copy /\ s.reads = screen.reads /\ s.whole = screen.whole
      /\ s.master = screen.master
  BY <1>0, <1>2 DEF ScreenType
<1> HIDE DEF s
<1>4. ScreenOk(server, s, past)
  BY <1>0, <1>3 DEF ScreenOk, Shown, ReadsOk
<1>5. screen' \in ScreenType /\ ScreenOk(server, screen', past)
      /\ \A n \in Nat : Has(screen', past, n) /\ Full(server, screen', past)
  BY <1>0, <1>1, <1>3, <1>4, BegunRead, BoundsAssumption
<1>6. Keeps(server, screen, past, screen', past)
  BY <1>5 DEF Keeps
<1> QED BY <1>0, <1>1, <1>5, <1>6, ScreenSteps

LEMMA ServedKeeps ==
  ASSUME Inv, NEW i \in DOMAIN screen.reads, ReadIsServed(i)
  PROVE  Inv'
<1> DEFINE c == CopyOf(server)
<1>0. /\ server \in ServerType /\ ServerOk(server) /\ screen \in ScreenType /\ past \in PastType
      /\ ScreenOk(server, screen, past) /\ stream \in [queue : Seq(EventType), drops : Nat]
  BY DEF Inv, Types
<1>1. /\ screen.reads[i].served = None /\ screen' = [screen EXCEPT !.reads[i].served = c]
      /\ UNCHANGED <<server, telling, stream, past>>
  BY DEF ReadIsServed
<1>2. c \in Copies /\ CopyOk(server, c) /\ c.revision = server.revision
  BY <1>0 DEF CopyOf, Copies, ServerType, CopyOk, ServerOk
<1> HIDE DEF c
<1>3. screen' \in ScreenType /\ ScreenOk(server, screen', past) /\ Keeps(server, screen, past, screen', past)
  BY <1>0, <1>1, <1>2, ServedRead
<1> QED BY <1>0, <1>1, <1>3, ScreenSteps

LEMMA AnsweredKeeps ==
  ASSUME Inv, NEW i \in DOMAIN screen.reads, ReadAnswers(i)
  PROVE  Inv'
<1> DEFINE r == screen.reads[i]
           again == r.disturbed /\ r.attempt < Rereads
           isShown == ~r.disturbed /\ ~r.overtaken
           z == SeenOf(past, screen'.copy)
           L == StillLost(screen')
           g == IF isShown THEN (IF r.served.revision >= past.gaveUp THEN 0 ELSE past.gaveUp)
                ELSE IF again THEN past.gaveUp ELSE IF i = Len(screen.reads) THEN server.revision ELSE past.gaveUp
           m == IF isShown THEN Newest(past.read, r.served.revision) ELSE past.read
           w == IF isShown THEN r.served.revision < past.read ELSE past.crossed
<1>0. /\ server \in ServerType /\ ServerOk(server) /\ screen \in ScreenType /\ past \in PastType
      /\ ScreenOk(server, screen, past) /\ stream \in [queue : Seq(EventType), drops : Nat]
  BY DEF Inv, Types
<1>1. /\ r.served # None
      /\ screen' = AnsweredScreen(screen, i, again)
      /\ UNCHANGED <<server, telling, stream>>
  BY DEF ReadAnswers, AnsweredScreen, WithRead, Left
<1>2. past' = [past EXCEPT !.seen = z, !.lost = L, !.gaveUp = g, !.read = m, !.crossed = w]
  BY DEF ReadAnswers, Seen, SeenOf, GivenUp
<1>3. /\ r.disturbed \in BOOLEAN /\ r.overtaken \in BOOLEAN /\ r.attempt \in Nat
      /\ r.served \in Copies /\ r.served.revision \in Nat /\ CopyOk(server, r.served)
  <2>1. screen.reads \in Seq(ReadType)
    BY <1>0 DEF ScreenType
  <2>2. r \in ReadType
    BY <2>1
  <2> QED BY <1>0, <1>1, <2>2 DEF ReadType, Copies, ScreenOk, ReadsOk
<1>4. again \in BOOLEAN /\ (again => r.disturbed)
  BY <1>3
<1>5. past.read \in Nat /\ past.gaveUp \in Nat /\ past.crossed \in BOOLEAN /\ past.lost \in SUBSET Nat
      /\ server.revision \in Nat
  BY <1>0 DEF PastType, ServerType
<1>6. g \in Nat
  BY <1>5
<1>7. m \in Nat
  BY <1>3, <1>5, NewestIs
<1>8. w \in BOOLEAN
  <2> DEFINE a == r.served.revision
             b == past.read
  <2>1. a \in Nat /\ b \in Nat /\ past.crossed \in BOOLEAN
    BY <1>3, <1>5
  <2>2. w = IF isShown THEN a < b ELSE past.crossed
    OBVIOUS
  <2> HIDE DEF a, b, w, isShown
  <2>3. (a < b) \in BOOLEAN
    BY <2>1
  <2> QED BY <2>1, <2>2, <2>3, Zenon
<1>9. L \in SUBSET Nat
  BY <1>5 DEF StillLost
<1>10. screen'.copy \in Copies
  <2>1. CASE isShown
    <3>1. screen' = WithRead(screen, i)
      BY <1>1, <2>1 DEF AnsweredScreen
    <3> QED BY <1>0, <1>3, <3>1, WithReadType
  <2>2. CASE ~isShown
    <3>1. Left(screen, i) \in ScreenType /\ Left(screen, i).copy = screen.copy
      BY <1>0, LeftScreen
    <3>2. BeginRead(Left(screen, i), r.attempt + 1).copy = screen.copy
      BY <3>1 DEF BeginRead, ScreenType
    <3>3. screen' = Left(screen, i) \/ screen' = BeginRead(Left(screen, i), r.attempt + 1)
      BY <1>1, <2>2 DEF AnsweredScreen
    <3>4. screen.copy \in Copies
      BY <1>0 DEF ScreenType
    <3> QED BY <3>1, <3>2, <3>3, <3>4
  <2> QED BY <2>1, <2>2
<1>11. z \in [turn : Nat, place : Nat]
  BY <1>0, <1>10, NewestIs DEF SeenOf, PastType, Copies
<1> HIDE DEF z, L, g, m, w, again, isShown
<1>12. /\ past' \in PastType /\ past'.seen = z /\ past'.lost = L /\ past'.gaveUp = g /\ past'.read = m
       /\ past'.crossed = w /\ past'.readyAt = past.readyAt
  BY <1>0, <1>2, <1>6, <1>7, <1>8, <1>9, <1>11 DEF PastType
<1>13. z = SeenOf(past, AnsweredScreen(screen, i, again).copy)
  BY <1>1 DEF z
<1>14. ~r.disturbed /\ ~r.overtaken =>
            /\ past'.gaveUp = IF r.served.revision >= past.gaveUp THEN 0 ELSE past.gaveUp
            /\ past'.read = Newest(past.read, r.served.revision)
            /\ past'.crossed = (r.served.revision < past.read)
  BY <1>12 DEF g, m, w, isShown
<1>15. r.disturbed \/ r.overtaken =>
            /\ past'.gaveUp = IF again THEN past.gaveUp
                              ELSE IF i = Len(screen.reads) THEN server.revision ELSE past.gaveUp
            /\ past'.read = past.read /\ past'.crossed = past.crossed
  BY <1>12 DEF g, m, w, isShown
<1>16. /\ screen' \in ScreenType /\ ScreenOk(server, screen', past')
       /\ Keeps(server, screen, past, screen', past')
  <2> DEFINE y == past'
  <2>1. y \in PastType /\ y.seen = SeenOf(past, AnsweredScreen(screen, i, again).copy) /\ y.readyAt = past.readyAt
    BY <1>12, <1>13
  <2> HIDE DEF ScreenOk, ServerOk
  <2> QED BY <1>0, <1>1, <1>4, <1>14, <1>15, <2>1, ReadComesBack
<1>17. \A n \in past.lost : n \in past'.lost \/ Has(screen', past', n)
  BY <1>5, <1>10, <1>12 DEF L, StillLost, Has, Copies
<1> QED BY <1>0, <1>1, <1>12, <1>16, <1>17, ScreenSteps

LEMMA FailedKeeps ==
  ASSUME Inv, NEW i \in DOMAIN screen.reads, ReadFails(i)
  PROVE  Inv'
<1> DEFINE l == Left(screen, i)
           m == screen.retries + 1
<1>0. /\ server \in ServerType /\ screen \in ScreenType /\ past \in PastType
      /\ ScreenOk(server, screen, past) /\ stream \in [queue : Seq(EventType), drops : Nat]
  BY DEF Inv, Types
<1>1. /\ screen' = [l EXCEPT !.retries = m] /\ stream' = [stream EXCEPT !.drops = @ + 1]
      /\ UNCHANGED <<server, telling, past>>
  BY <1>0 DEF ReadFails, Left, ScreenType
<1>2. l \in ScreenType /\ ScreenOk(server, l, past)
  BY <1>0, LeftScreen
<1>3. m \in Nat /\ m > 0
  BY <1>0 DEF ScreenType
<1> HIDE DEF l, m
<1>4. /\ screen' \in ScreenType /\ screen'.retries = m /\ screen'.copy = l.copy /\ screen'.reads = l.reads
      /\ screen'.whole = l.whole /\ screen'.master = l.master
  BY <1>1, <1>2, <1>3 DEF ScreenType
<1>5. ScreenOk(server, screen', past)
  BY <1>2, <1>4 DEF ScreenOk, Shown, ReadsOk
<1>6. Keeps(server, screen, past, screen', past)
  BY <1>3, <1>4 DEF Keeps, Has, Full, Reading
<1>7. stream' \in [queue : Seq(EventType), drops : Nat] /\ stream'.queue = stream.queue
  BY <1>0, <1>1
<1> QED BY <1>0, <1>1, <1>4, <1>5, <1>6, <1>7, ScreenSteps

LEMMA GivenUpKeeps ==
  ASSUME Inv, NEW i \in DOMAIN screen.reads, ReadIsGivenUp(i)
  PROVE  Inv'
<1> DEFINE g == GivenUp(i)
<1>0. /\ server \in ServerType /\ screen \in ScreenType /\ past \in PastType
      /\ ScreenOk(server, screen, past) /\ stream \in [queue : Seq(EventType), drops : Nat]
  BY DEF Inv, Types
<1>1. /\ screen' = Left(screen, i) /\ past' = [past EXCEPT !.gaveUp = g]
      /\ UNCHANGED <<server, telling, stream>>
  BY DEF ReadIsGivenUp, Left
<1>2. g = (IF i = Len(screen.reads) THEN server.revision ELSE past.gaveUp) /\ g \in Nat
  BY <1>0 DEF GivenUp, PastType, ServerType
<1> HIDE DEF g
<1>3. /\ past' \in PastType /\ past'.seen = past.seen /\ past'.read = past.read
      /\ past'.readyAt = past.readyAt /\ past'.crossed = past.crossed /\ past'.lost = past.lost
      /\ past'.gaveUp = g
  BY <1>0, <1>1, <1>2 DEF PastType
<1>4. screen' \in ScreenType /\ ScreenOk(server, screen', past') /\ Keeps(server, screen, past, screen', past')
  <2> HIDE DEF ScreenOk
  <2> QED BY <1>0, <1>1, <1>2, <1>3, ReadIsDropped
<1> QED BY <1>0, <1>1, <1>3, <1>4, ScreenSteps

(* A call that is over has nothing left to tell.                           *)
LEMMA CallsEnd ==
  ASSUME NEW T, NEW t \in T, t.failed \/ t.read # None, t.events = <<>>, NEW q, NEW n
  PROVE  ToBeTold(T, q, n) => ToBeTold(T \ {t}, q, n)
<1>1. \A k \in DOMAIN t.events : FALSE
  OBVIOUS
<1> QED BY <1>1 DEF ToBeTold

LEMMA MyAnswerKeeps ==
  ASSUME Inv, NEW t \in telling, MyCallAnswers(t)
  PROVE  Inv'
<1> DEFINE s == [screen EXCEPT !.busy = FALSE]
           c == t.read
<1>0. /\ server \in ServerType /\ ServerOk(server) /\ telling \subseteq CallType
      /\ screen \in ScreenType /\ past \in PastType
      /\ ScreenOk(server, screen, past) /\ stream \in [queue : Seq(EventType), drops : Nat]
      /\ t \in CallType /\ CallOk(server, t)
      /\ (past.readyAt = server.revision => Full(server, screen, past))
  BY DEF Inv, Types
<1>1. /\ Told(t) /\ screen' = Applied(s, c)
      /\ past' = [past EXCEPT !.seen = SeenOf(past, screen'.copy), !.lost = StillLost(screen')]
      /\ telling' = telling \ {t} /\ server' = server /\ stream' = stream
  BY DEF MyCallAnswers, Seen, SeenOf
<1>2. c \in Copies /\ CopyOk(server, c)
  BY <1>0, <1>1 DEF Told, CallType, CallOk
<1>3. s \in ScreenType /\ s.copy = screen.copy /\ s.reads = screen.reads /\ s.whole = screen.whole
      /\ s.master = screen.master /\ s.snapshot = screen.snapshot /\ s.retries = screen.retries
  <2>1. FALSE \in BOOLEAN
    OBVIOUS
  <2> QED BY <1>0, <2>1 DEF ScreenType
<1> HIDE DEF s, c
<1>4. /\ ScreenOk(server, s, past) /\ (Full(server, screen, past) <=> Full(server, s, past))
      /\ \A n : Has(screen, past, n) <=> Has(s, past, n)
  BY <1>0, <1>3, AlikeScreens
<1>5. /\ screen' \in ScreenType /\ past' \in PastType /\ ScreenOk(server, screen', past')
      /\ Keeps(server, s, past, screen', past') /\ past'.readyAt = past.readyAt
      /\ past'.lost = StillLost(screen')
  <2> DEFINE z == PastSeen(past, screen'.copy)
             L == StillLost(screen')
  <2>1. /\ screen' \in ScreenType /\ z \in PastType /\ ScreenOk(server, screen', z)
        /\ Keeps(server, s, past, screen', z) /\ z.readyAt = past.readyAt
    <3> HIDE DEF ScreenOk, ServerOk
    <3> QED BY <1>0, <1>1, <1>2, <1>3, <1>4, AppliedAnswer
  <2>2. L \in SUBSET Nat
    BY <1>0 DEF StillLost, PastType
  <2>3. past' = [z EXCEPT !.lost = L]
    BY <1>1 DEF PastSeen
  <2> HIDE DEF z, L
  <2>4. /\ past' \in PastType /\ past'.seen = z.seen /\ past'.read = z.read /\ past'.readyAt = z.readyAt
        /\ past'.gaveUp = z.gaveUp /\ past'.crossed = z.crossed /\ past'.lost = L
    BY <2>1, <2>2, <2>3 DEF PastType
  <2>5. /\ ScreenOk(server, screen', past') /\ \A n : Has(screen', z, n) <=> Has(screen', past', n)
        /\ (Full(server, screen', z) <=> Full(server, screen', past'))
    BY <2>1, <2>4, AlikePasts
  <2> QED BY <2>1, <2>4, <2>5 DEF Keeps, L
<1>6. server.turn \in 0..server.revision /\ server.rest \in 0..server.revision
  BY <1>0 DEF ServerType, ServerOk
<1>7. \A n \in {server.turn, server.rest} :
        ToBeTold(telling, stream.queue, n) => ToBeTold(telling', stream.queue, n)
  BY <1>1, CallsEnd DEF Told
<1>8. Covered(server, telling', stream.queue, screen', past')
  <2>1. screen'.copy.revision \in Nat /\ \A n \in past.lost : n \in Nat
    BY <1>0, <1>5 DEF ScreenType, Copies, PastType
  <2>2. \A n \in past.lost : n \in past'.lost \/ Has(screen', past', n)
    BY <1>5, <2>1 DEF StillLost, Has
  <2> QED BY <1>4, <1>5, <1>6, <1>7, <2>2 DEF Inv, Covered, Keeps
<1>9. past'.readyAt = server.revision => Full(server, screen', past')
  BY <1>0, <1>4, <1>5 DEF Keeps
<1>10. Types'
  BY <1>0, <1>1, <1>5 DEF Types
<1>11. /\ \A d \in telling' : CallOk(server, d)
       /\ \A k \in DOMAIN stream.queue : EventOk(server, stream.queue[k])
  BY <1>1 DEF Inv
<1> QED BY <1>0, <1>1, <1>5, <1>8, <1>9, <1>10, <1>11 DEF Inv

(* The screen after an error, whether it reads again or not.               *)
LEMMA RefusedScreen ==
  ASSUME NEW sv \in ServerType, NEW p \in PastType, NEW s \in ScreenType, ScreenOk(sv, s, p),
         NEW x \in Refused(s)
  PROVE  x \in ScreenType /\ ScreenOk(sv, x, p) /\ Keeps(sv, s, p, x, p)
<1> DEFINE y == [s EXCEPT !.busy = FALSE]
<1>1. x = y \/ x = BeginRead(y, Rereads)
  BY DEF Refused
<1>2. y \in ScreenType /\ y.copy = s.copy /\ y.reads = s.reads /\ y.whole = s.whole
      /\ y.master = s.master /\ y.snapshot = s.snapshot /\ y.retries = s.retries
  <2>1. FALSE \in BOOLEAN
    OBVIOUS
  <2> QED BY <2>1 DEF ScreenType
<1> HIDE DEF y
<1>3. /\ ScreenOk(sv, y, p) /\ \A n : Has(s, p, n) <=> Has(y, p, n)
      /\ Full(sv, s, p) <=> Full(sv, y, p)
  BY <1>2, AlikeScreens
<1>4. CASE x = y
  BY <1>2, <1>3, <1>4 DEF Keeps
<1>5. CASE x = BeginRead(y, Rereads)
  <2>1. /\ x \in ScreenType /\ ScreenOk(sv, x, p)
        /\ \A n \in Nat : Has(x, p, n) /\ Full(sv, x, p)
    BY <1>2, <1>3, <1>5, BegunRead, BoundsAssumption
  <2> QED BY <2>1 DEF Keeps
<1> QED BY <1>1, <1>4, <1>5

LEMMA MyCallFailsKeeps ==
  ASSUME Inv, NEW t \in telling, MyCallFails(t)
  PROVE  Inv'
<1>0. /\ server \in ServerType /\ ServerOk(server) /\ telling \subseteq CallType
      /\ screen \in ScreenType /\ past \in PastType
      /\ ScreenOk(server, screen, past) /\ stream \in [queue : Seq(EventType), drops : Nat]
      /\ CallOk(server, t)
      /\ (past.readyAt = server.revision => Full(server, screen, past))
  BY DEF Inv, Types
<1>1. /\ screen' \in Refused(screen) /\ telling' = telling \ {t}
      /\ server' = server /\ stream' = stream /\ past' = past
  BY DEF MyCallFails
<1>2. t.failed \/ t.read # None
  BY DEF MyCallFails, Told
<1>3. t.events = <<>>
  BY <1>0 DEF MyCallFails, Told, CallOk
<1>4. /\ screen' \in ScreenType /\ ScreenOk(server, screen', past)
      /\ Keeps(server, screen, past, screen', past)
  <2> HIDE DEF ScreenOk
  <2> QED BY <1>0, <1>1, RefusedScreen
<1>5. server.turn \in 0..server.revision /\ server.rest \in 0..server.revision
  BY <1>0 DEF ServerType, ServerOk
<1>6. \A n \in {server.turn, server.rest} :
        ToBeTold(telling, stream.queue, n) => ToBeTold(telling', stream.queue, n)
  BY <1>1, <1>2, <1>3, CallsEnd
<1>7. Covered(server, telling', stream.queue, screen', past)
  BY <1>4, <1>5, <1>6 DEF Inv, Covered, Keeps
<1>8. past.readyAt = server.revision => Full(server, screen', past)
  BY <1>0, <1>4 DEF Keeps
<1>9. Types'
  BY <1>0, <1>1, <1>4 DEF Types
<1>10. /\ \A d \in telling' : CallOk(server, d)
       /\ \A k \in DOMAIN stream.queue : EventOk(server, stream.queue[k])
  BY <1>1 DEF Inv
<1> QED BY <1>0, <1>1, <1>4, <1>7, <1>8, <1>9, <1>10 DEF Inv

(* The stream that opens again has a ready for its page.                   *)
LEMMA AgainReady ==
  ASSUME stream \in [queue : Seq(EventType), drops : Nat]
  PROVE  /\ Reconnected \in [queue : Seq(EventType), drops : Nat]
         /\ \A k \in DOMAIN Reconnected.queue : EventOk(server, Reconnected.queue[k])
         /\ \A T, n : ToBeTold(T, Reconnected.queue, n)
<1> DEFINE e == [kind |-> "ready"]
           q == <<e>>
<1>1. e \in EventType /\ e.kind = "ready"
  BY DEF EventType
<1> HIDE DEF e
<1>2. q \in Seq(EventType) /\ DOMAIN q = {1} /\ q[1] = e
  BY <1>1
<1> HIDE DEF q
<1>3. Reconnected = [queue |-> q, drops |-> stream.drops + 1]
  BY DEF Reconnected, q, e
<1>4. Reconnected \in [queue : Seq(EventType), drops : Nat] /\ Reconnected.queue = q
  BY <1>2, <1>3
<1> QED BY <1>1, <1>2, <1>4 DEF EventOk, ToBeTold, Tells

LEMMA DropKeeps == Inv /\ Drop => Inv'
<1> SUFFICES ASSUME Inv, Drop PROVE Inv'
  OBVIOUS
<1>1. stream' = Reconnected /\ server' = server /\ telling' = telling /\ screen' = screen /\ past' = past
  BY DEF Drop
<1>2. /\ stream' \in [queue : Seq(EventType), drops : Nat]
      /\ \A k \in DOMAIN stream'.queue : EventOk(server, stream'.queue[k])
      /\ \A T, n : ToBeTold(T, stream'.queue, n)
  BY <1>1, AgainReady DEF Inv, Types
<1>3. Types'
  BY <1>1, <1>2 DEF Inv, Types
<1> QED BY <1>1, <1>2, <1>3 DEF Inv, Covered

LEMMA RestartKeeps == Inv /\ Restart => Inv'
<1> SUFFICES ASSUME Inv, Restart PROVE Inv'
  OBVIOUS
<1>0. /\ server \in ServerType /\ ServerOk(server) /\ screen \in ScreenType /\ past \in PastType
      /\ ScreenOk(server, screen, past) /\ stream \in [queue : Seq(EventType), drops : Nat]
      /\ (past.readyAt = server.revision => Full(server, screen, past))
  BY DEF Inv, Types
<1>1. /\ stream' = Reconnected /\ server' = server /\ telling' = {} /\ past' = past
      /\ screen' \in Refused(screen) \/ screen' = screen
  BY DEF Restart
<1>2. /\ stream' \in [queue : Seq(EventType), drops : Nat]
      /\ \A k \in DOMAIN stream'.queue : EventOk(server, stream'.queue[k])
      /\ \A T, n : ToBeTold(T, stream'.queue, n)
  BY <1>0, <1>1, AgainReady
<1>3. /\ screen' \in ScreenType /\ ScreenOk(server, screen', past)
      /\ past.readyAt = server.revision => Full(server, screen', past)
  <2>1. CASE screen' \in Refused(screen)
    <3>1. /\ screen' \in ScreenType /\ ScreenOk(server, screen', past)
          /\ Keeps(server, screen, past, screen', past)
      <4> HIDE DEF ScreenOk
      <4> QED BY <1>0, <2>1, RefusedScreen
    <3> QED BY <1>0, <3>1 DEF Keeps
  <2>2. CASE screen' = screen
    BY <1>0, <2>2
  <2> QED BY <1>1, <2>1, <2>2
<1>4. Types'
  BY <1>0, <1>1, <1>2, <1>3 DEF Types
<1> QED BY <1>0, <1>1, <1>2, <1>3, <1>4 DEF Inv, Covered

(* What a screen shows follows from what it has: the invariant of the      *)
(* copies, reads, calls and events holds in every state.                   *)
THEOREM ScreenInvariant == Spec => []Inv
<1>1. Init => Inv
  BY AtTheStart
<1>2. Inv /\ [Next]_vars => Inv'
  <2> SUFFICES ASSUME Inv, [Next]_vars PROVE Inv'
    OBVIOUS
  <2>1. CASE Server
    <3>1. CASE \E kind \in Kinds, go \in Goes, more, mine \in BOOLEAN : Commit(kind, go, more, mine)
      BY <3>1, CommitKeeps
    <3>2. CASE \E t \in telling : FinishReads(t) \/ FinishFails(t) \/ Publish(t)
      BY <3>2, FinishReadsKeeps, FinishFailsKeeps, PublishKeeps
    <3> QED BY <2>1, <3>1, <3>2 DEF Server
  <2>2. CASE Page
    <3>1. CASE Receive \/ SnapshotAnswers \/ RetryRead
      BY <3>1, ReceiveKeeps, SnapshotKeeps, RetryReadKeeps
    <3>2. CASE \E i \in DOMAIN screen.reads :
            ReadIsServed(i) \/ ReadAnswers(i) \/ ReadFails(i) \/ ReadIsGivenUp(i)
      BY <3>2, ServedKeeps, AnsweredKeeps, FailedKeeps, GivenUpKeeps
    <3>3. CASE \E t \in telling : MyCallAnswers(t) \/ MyCallFails(t)
      BY <3>3, MyAnswerKeeps, MyCallFailsKeeps
    <3> QED BY <2>2, <3>1, <3>2, <3>3 DEF Page
  <2>3. CASE Network
    BY <2>3, DropKeeps, RestartKeeps DEF Network
  <2>4. CASE UNCHANGED vars
    BY <2>4 DEF vars, Inv, Types
  <2> QED BY <2>1, <2>2, <2>3, <2>4 DEF Next
<1> QED BY <1>1, <1>2, PTL DEF Spec

------------------------------------------------------------------------------
(* A settled screen has nothing to come: of the last change of the turn and*)
(* of the rest, what it could follow is on screen.                         *)
LEMMA SettledHas ==
  ASSUME Inv, Settled
  PROVE  /\ Followed(server.turn) => screen.copy.turn = server.turn
         /\ screen.whole /\ Followed(server.rest) => screen.copy.rest = server.rest
         /\ past.readyAt = server.revision /\ past.gaveUp < server.revision =>
                /\ screen.copy.turn = server.turn /\ screen.copy.rest = server.rest
                /\ past.seen.place = server.place
<1>1. /\ telling = {} /\ stream.queue = <<>> /\ screen.reads = <<>> /\ ~screen.snapshot
      /\ screen.retries = 0 /\ ~past.crossed /\ (screen.master \/ ~(screen.copy.turn < past.seen.turn))
  BY DEF Settled, Quiet, TurnSetBack
<1>2. /\ server.turn \in Nat /\ server.rest \in Nat /\ server.revision \in Nat /\ past.gaveUp \in Nat
      /\ server.turn <= server.revision /\ screen.copy.turn \in Nat /\ past.seen.turn \in Nat
  BY DEF Inv, Types, ServerType, ServerOk, ScreenType, Copies, PastType
<1>3. \A n : ~ToBeTold(telling, stream.queue, n)
  BY <1>1 DEF ToBeTold
<1>4. \A n \in Nat : past.gaveUp < n => ~Reading(screen, past, n)
  BY <1>1, <1>2 DEF Reading, LastBrings, GaveUp, WentBack
<1>5. \A n \in {server.turn, server.rest} : Followed(n) => n <= screen.copy.revision
  BY <1>2, <1>3, <1>4 DEF Inv, Covered, Has, Followed
<1>6. Shown(server, screen, past)
  BY DEF Inv, ScreenOk
<1>7. server.turn <= screen.copy.revision => screen.copy.turn = server.turn
  <2> SUFFICES ASSUME server.turn <= screen.copy.revision PROVE screen.copy.turn = server.turn
    OBVIOUS
  <2>1. past.seen.turn = server.turn /\ (screen.master => screen.copy.turn = server.turn)
        /\ screen.copy.turn <= past.seen.turn
    BY <1>6 DEF Shown
  <2> QED BY <1>1, <1>2, <2>1
<1>8. screen.whole /\ server.rest <= screen.copy.revision => screen.copy.rest = server.rest
  BY <1>6 DEF Shown
<1>9. past.readyAt = server.revision /\ past.gaveUp < server.revision =>
        /\ screen.copy.revision = server.revision /\ screen.copy.rest = server.rest
        /\ past.seen.place = server.place
  BY <1>2, <1>4 DEF Inv, Full
<1> QED BY <1>2, <1>5, <1>7, <1>8, <1>9

(* Once everything told has arrived, a copy read or answered whole is the  *)
(* combat as it is: a change is missing from it only when nobody was told  *)
(* of it or when the last read in the air was given up after it.           *)
THEOREM WholeCopies == Spec => []WholeCopyIsCurrent
<1>1. Inv => WholeCopyIsCurrent
  BY SettledHas DEF WholeCopyIsCurrent
<1> QED BY <1>1, ScreenInvariant, PTL

(* Once everything told has arrived, the turn on screen is the turn that   *)
(* runs, whatever was patched in place, with the same two exceptions.      *)
THEOREM QuietScreens == Spec => []QuietScreenShowsTheTurn
<1>1. Inv => QuietScreenShowsTheTurn
  BY SettledHas DEF QuietScreenShowsTheTurn
<1> QED BY <1>1, ScreenInvariant, PTL

(* A ready after the last change leaves nothing of the combat behind, even *)
(* what nobody was told, but a place that an older combatant_moved set back*)
(* (unless its reads were given up).                                       *)
THEOREM ReadyHealsAll == Spec => []ReadyHeals
<1>1. Inv => ReadyHeals
  <2> SUFFICES ASSUME Inv, Settled, past.readyAt = server.revision, past.gaveUp < server.revision
               PROVE  /\ screen.copy.turn = server.turn /\ screen.copy.rest = server.rest
                      /\ PlaceSetBack \/ screen.copy.place = server.place
    BY DEF ReadyHeals
  <2>1. screen.copy.turn = server.turn /\ screen.copy.rest = server.rest /\ past.seen.place = server.place
    BY SettledHas
  <2>2. screen.copy.place <= past.seen.place /\ screen.copy.place \in Nat /\ past.seen.place \in Nat
    BY DEF Inv, Types, ScreenOk, Shown, ScreenType, Copies, PastType
  <2> QED BY <2>1, <2>2 DEF PlaceSetBack
<1> QED BY <1>1, ScreenInvariant, PTL

=============================================================================
