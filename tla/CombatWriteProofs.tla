------------------------- MODULE CombatWriteProofs -------------------------
(***************************************************************************)
(* Proofs about CombatWrite, for every number of screens, taps, calls,     *)
(* sessions and restarts: its types, that a thing wanted is done at most   *)
(* once, that what was answered was told, that a change was made on the    *)
(* sight it follows, and that the protocol implements ChangesOnce.         *)
(***************************************************************************)
EXTENDS CombatWrite, TLAPS

(* What a tap means: its key, its change and, for "act", its combat.       *)
Meaning(tap, key, v, combat) ==
    [tap |-> tap, key |-> key, change |-> v, combat |-> IF v = "act" THEN combat ELSE None]

OfEvents == {Meaning(e.tap, e.key, e.change, e.combat) : e \in events}
OfCalls == {Meaning(c.tap, c.key, c.change, c.combat) : c \in calls}
Kept(s, v) == screens[s].sending[v]
InKeep == {k \in Screens \X Changes : Kept(k[1], k[2]) # None}
OfKeys == {Meaning(Kept(k[1], k[2]).tap, Kept(k[1], k[2]).key, k[2], Kept(k[1], k[2]).combat) : k \in InKeep}

(* Everything a tap is known by, in the events, the calls and the keys.    *)
Meanings == OfEvents \cup OfCalls \cup OfKeys

(* A tap means one thing, and the next tap none yet.                       *)
TapsMeanOne ==
    /\ \A a, b \in Meanings : a.tap = b.tap => a = b
    /\ \A a \in Meanings : a.tap <= past.taps

(* Revisions number the events, combats are numbered by their starts, and  *)
(* what was done in the combat that runs was done in this session.         *)
EventsInOrder ==
    /\ \A e \in events : e.revision <= table.revision /\ e.combat <= table.revision
    /\ \A e, f \in events : e.revision = f.revision => e = f
    /\ \A e \in events : e.combat = table.combat => e.session = table.session
    /\ table.combat # None => table.combat <= table.revision

(* A call that changes a combat names one.                                 *)
ActsName == \A c \in calls : c.change = "act" => c.combat # None

(* What a call made or found is an event of its combat, told if so it is.  *)
MadeIsThere ==
    /\ \A c \in calls : c.at \in {"done", "told"} =>
        \E e \in events : e.revision = c.made /\ e.combat = c.combat
    /\ \A c \in calls : c.at = "told" => c.made \in past.told
    /\ \A n \in past.told : \E e \in events : e.revision = n

(* What a call saw is not older than the revision it read before, nor newer*)
(* than the combat is.                                                     *)
SawAfterReading(c, revision) ==
    /\ c.at = "reading" => NeedsSight(c) /\ c.rev \in Nat /\ c.rev <= revision
    /\ c.at = "ready" /\ NeedsSight(c) =>
        c.rev \in Nat /\ c.sight \in Nat /\ c.rev <= c.sight /\ c.sight <= revision

SightsFollow == \A c \in calls : SawAfterReading(c, table.revision)

Inv ==
    /\ SightsFollow
    /\ TypeOK /\ TapsMeanOne /\ EventsInOrder /\ ActsName /\ MadeIsThere
    /\ AppliedOnce /\ AnsweredWasTold /\ SightIsOfTheChange

------------------------------------------------------------------------------
(* The state at the start. *)

LEMMA InitInv == Init => Inv
<1>1. SUFFICES ASSUME Init PROVE Inv
  OBVIOUS
<1>2. PICK combat \in {None, 1} :
        table = [session |-> 1, open |-> TRUE, combat |-> combat, revision |-> 1]
  BY <1>1 DEF Init
<1>3. TypeOK
  BY <1>1, <1>2, BoundsAssumption DEF Init, TypeOK, OrNone, Changes
<1>4. Meanings = {}
  <2>1. OfEvents = {} /\ OfCalls = {}
    BY <1>1 DEF Init, OfEvents, OfCalls
  <2>2. OfKeys = {}
    BY <1>1 DEF Init, OfKeys, InKeep, Kept
  <2>3. QED
    BY <2>1, <2>2 DEF Meanings
<1>5. TapsMeanOne
  BY <1>4 DEF TapsMeanOne
<1>6. EventsInOrder /\ ActsName /\ MadeIsThere /\ AppliedOnce /\ AnsweredWasTold /\ SightIsOfTheChange
  BY <1>1, <1>2, BoundsAssumption
     DEF Init, EventsInOrder, ActsName, MadeIsThere, AppliedOnce, AnsweredWasTold, SightIsOfTheChange
<1>7. SightsFollow
  BY <1>1 DEF Init, SightsFollow
<1>8. QED
  BY <1>3, <1>5, <1>6, <1>7 DEF Inv

------------------------------------------------------------------------------
(* What one step of a call is: the pieces the actions are made of. *)

CallType == [id : Nat, by : Screens, change : Changes, key : Nat, tap : 1..MaxTaps,
             at : {"sent", "reading", "ready", "done", "nothing", "told", "nothing told"},
             combat : OrNone(Nat), rev : OrNone(Nat), sight : OrNone(Nat), try : Nat, first : Nat,
             made : OrNone(Nat)]

(* The call d is what a step made of the call c: the same thing asked.     *)
SameAsked(c, d) ==
    /\ d \in CallType
    /\ d.tap = c.tap /\ d.key = c.key /\ d.change = c.change
    /\ c.change = "act" => d.combat = c.combat

(* The keys a step leaves are among those there were.                      *)
KeysStay ==
    \A s \in Screens, v \in Changes :
        screens'[s].sending[v] # None => screens'[s].sending[v] = screens[s].sending[v]

(* Nothing asked is new: no meaning is added.                              *)
LEMMA NothingNew ==
    ASSUME Inv, KeysStay, past'.taps = past.taps,
           \A d \in calls' : \E c \in calls : SameAsked(c, d),
           \A e \in events' : e \in events \/ \E c \in calls :
                Meaning(e.tap, e.key, e.change, e.combat) = Meaning(c.tap, c.key, c.change, c.combat)
    PROVE  TapsMeanOne'
<1>1. OfCalls' \subseteq OfCalls
  BY DEF OfCalls, SameAsked, Meaning
<1>2. OfKeys' \subseteq OfKeys
  BY DEF OfKeys, InKeep, Kept, KeysStay, Meaning
<1>3. OfEvents' \subseteq OfEvents \cup OfCalls
  BY DEF OfEvents, OfCalls
<1>4. Meanings' \subseteq Meanings
  BY <1>1, <1>2, <1>3 DEF Meanings
<1>5. QED
  BY <1>4 DEF Inv, TapsMeanOne

(* TypeOK, taken apart.                                                    *)
TableType == [session : 1..MaxSessions, open : BOOLEAN, combat : OrNone(Nat), revision : Nat]
EventType == [session : 1..MaxSessions, key : Nat, by : Screens, change : Changes,
              tap : 1..MaxTaps, combat : Nat, sight : OrNone(Nat), revision : Nat]
KeyType == [key : Nat, tap : 1..MaxTaps, combat : OrNone(Nat)]
ScreenType == [waits : OrNone(Nat), sending : [Changes -> OrNone(KeyType)]]
PastType == [taps : 0..MaxTaps, sends : Nat, crashes : Nat, told : SUBSET Nat,
             answered : SUBSET Nat, aborted : SUBSET Int]

LEMMA Types == TypeOK <=>
    /\ table \in TableType /\ (~table.open => table.combat = None)
    /\ events \subseteq EventType /\ calls \subseteq CallType
    /\ screens \in [Screens -> ScreenType] /\ past \in PastType
BY DEF TypeOK, TableType, EventType, CallType, KeyType, ScreenType, PastType

(* A call that goes on stays a call.                                       *)
LEMMA MovesType ==
    ASSUME Inv, NEW c \in calls, NEW d \in CallType, Moves(c, d)
    PROVE  calls' \subseteq CallType
BY Types DEF Inv, Moves

(* A call that fails leaves the screens well typed, and their keys.        *)
LEMMA FailsType ==
    ASSUME Inv, NEW c \in calls, Fails(c)
    PROVE  calls' \subseteq CallType /\ screens' \in [Screens -> ScreenType] /\ KeysStay
<1>1. c \in CallType /\ screens \in [Screens -> ScreenType] /\ calls \subseteq CallType
  BY Types DEF Inv
<1>2. calls' \subseteq CallType
  BY <1>1 DEF Fails
<1>3. c.by \in Screens
  BY <1>1 DEF CallType
<1>4. screens' \in [Screens -> ScreenType]
  BY <1>1, <1>3 DEF Fails, ScreenType, OrNone
<1>5. KeysStay
  BY <1>1, <1>3 DEF Fails, KeysStay, ScreenType, OrNone
<1>6. QED
  BY <1>2, <1>4, <1>5

(* The commit of a change: a well typed event, one revision higher.        *)
LEMMA AppliedType ==
    ASSUME Inv, NEW c \in calls, MayApply(c), Applied(c)
    PROVE  /\ table' \in TableType /\ (~table'.open => table'.combat = None)
           /\ events' \subseteq EventType
           /\ table'.revision = table.revision + 1 /\ table'.session = table.session
           /\ table'.combat \in Nat
           /\ table'.combat = IF c.change = "start" THEN table'.revision ELSE table.combat
<1>1. c \in CallType /\ table \in TableType /\ events \subseteq EventType
  BY Types DEF Inv
<1>2. table.open /\ c.combat = table.combat
  BY DEF MayApply, Running, Misplaced
<1>3. c.change = "act" => table.combat \in Nat
  BY <1>1, <1>2 DEF Inv, ActsName, TableType, OrNone
<1>4. c.change \in {"start", "act"}
  BY <1>1 DEF CallType, Changes
<1>0. table' = [session |-> table.session, open |-> table.open, revision |-> table.revision + 1,
                combat |-> IF c.change = "start" THEN table.revision + 1 ELSE table.combat]
  BY <1>1 DEF Applied, TableType
<1>5. /\ table'.revision = table.revision + 1 /\ table'.session = table.session
      /\ table'.combat = IF c.change = "start" THEN table'.revision ELSE table.combat
      /\ table'.open = table.open
  BY <1>0
<1>6. table'.combat \in Nat
  BY <1>1, <1>3, <1>4, <1>5 DEF TableType
<1>7. table' \in TableType
  BY <1>1, <1>0, <1>5, <1>6 DEF TableType, OrNone
<1>8. events' \subseteq EventType
  <2> DEFINE new == [session |-> table.session, key |-> c.key, by |-> c.by, change |-> c.change,
                     tap |-> c.tap, combat |-> table'.combat, sight |-> c.sight, revision |-> table'.revision]
  <2>1. table'.revision \in Nat /\ table.session \in 1..MaxSessions
    BY <1>1, <1>5 DEF TableType
  <2>2. new \in EventType
    BY <1>1, <1>6, <2>1 DEF CallType, EventType
  <2>3. events' = events \cup {new}
    BY DEF Applied
  <2>4. QED
    BY <1>1, <2>2, <2>3
<1>9. QED
  BY <1>2, <1>5, <1>6, <1>7, <1>8

(* A call that has made a change stays a call. *)
LEMMA DoneType ==
  ASSUME NEW c \in CallType, NEW m \in Nat, NEW n \in Nat
  PROVE  [c EXCEPT !.at = "done", !.made = m, !.combat = n] \in CallType
BY DEF CallType, OrNone

(* A call that tries again stays a call. *)
LEMMA TryAgainType ==
  ASSUME NEW c \in CallType PROVE  [c EXCEPT !.at = "sent", !.try = c.try + 1] \in CallType
<1> DEFINE Again(n) == [c EXCEPT !.at = "sent", !.try = n]
<1>1. \A n \in Nat : Again(n) \in CallType
  BY DEF CallType
<1>2. c.try \in Nat
  BY DEF CallType
<1> HIDE DEF Again
<1>3. c.try + 1 \in Nat
  BY <1>2
<1>4. Again(c.try + 1) \in CallType
  BY <1>1, <1>3, Zenon
<1>5. QED
  BY <1>4 DEF Again

(* What a read of the sight makes of the call c.                           *)
AfterRead(c) ==
    CASE ~NeedsSight(c) -> [c EXCEPT !.at = "ready"]
      [] NeedsSight(c) /\ c.at = "sent" -> [c EXCEPT !.at = "reading", !.rev = table.revision]
      [] OTHER -> [c EXCEPT !.at = "ready", !.sight = table.revision]

LEMMA ReadSightIs ==
    ASSUME Inv, NEW c \in calls, ReadSight(c)
    PROVE  /\ Moves(c, AfterRead(c)) /\ UNCHANGED <<table, events, screens, past>>
           /\ c.at \in {"sent", "reading"} /\ AfterRead(c) \in CallType
           /\ AfterRead(c).at \in {"reading", "ready"}
           /\ AfterRead(c).id = c.id /\ AfterRead(c).by = c.by /\ AfterRead(c).change = c.change
           /\ AfterRead(c).key = c.key /\ AfterRead(c).tap = c.tap /\ AfterRead(c).combat = c.combat
           /\ AfterRead(c).try = c.try /\ AfterRead(c).first = c.first
<1>1. c \in CallType /\ table.revision \in OrNone(Nat)
  BY Types DEF Inv, TableType, OrNone
<1>2. c.at \in {"sent", "reading"} /\ UNCHANGED <<table, events, screens, past>>
  BY DEF ReadSight
<1>3. c.at = "reading" => NeedsSight(c)
  BY DEF Inv, SightsFollow, SawAfterReading
<1>4. Moves(c, AfterRead(c))
  <2>1. CASE ~NeedsSight(c)
    <3>1. c.at = "sent" /\ Moves(c, [c EXCEPT !.at = "ready"])
      BY <1>3, <2>1 DEF ReadSight
    <3>2. QED
      BY <2>1, <3>1 DEF AfterRead
  <2>2. CASE NeedsSight(c) /\ c.at = "sent"
    <3>1. Moves(c, [c EXCEPT !.at = "reading", !.rev = table.revision])
      BY <2>2 DEF ReadSight
    <3>2. QED
      BY <2>2, <3>1 DEF AfterRead
  <2>3. CASE NeedsSight(c) /\ c.at = "reading"
    <3>1. Moves(c, [c EXCEPT !.at = "ready", !.sight = table.revision])
      BY <2>3 DEF ReadSight
    <3>2. QED
      BY <2>3, <3>1 DEF AfterRead
  <2>4. QED
    BY <1>2, <2>1, <2>2, <2>3
<1>5. /\ AfterRead(c) \in CallType /\ AfterRead(c).at \in {"reading", "ready"}
      /\ AfterRead(c).id = c.id /\ AfterRead(c).by = c.by /\ AfterRead(c).change = c.change
      /\ AfterRead(c).key = c.key /\ AfterRead(c).tap = c.tap /\ AfterRead(c).combat = c.combat
      /\ AfterRead(c).try = c.try /\ AfterRead(c).first = c.first
  BY <1>1 DEF AfterRead, CallType
<1>6. QED
  BY <1>2, <1>4, <1>5

(* A call given up is one more in the history. *)
LEMMA AbortedType ==
  ASSUME past \in PastType, NEW i \in Int PROVE  [past EXCEPT !.aborted = @ \cup {i}] \in PastType
<1>1. \A n \in SUBSET Int : [past EXCEPT !.aborted = n] \in PastType
  BY DEF PastType
<1>2. past.aborted \cup {i} \in SUBSET Int
  BY DEF PastType
<1>3. QED
  BY <1>1, <1>2, Zenon

(* Every step leaves the state well typed. *)
LEMMA TypeStep == Inv /\ [Next]_vars => TypeOK'
<1> DEFINE Good == /\ table' \in TableType /\ (~table'.open => table'.combat = None)
                   /\ events' \subseteq EventType /\ calls' \subseteq CallType
                   /\ screens' \in [Screens -> ScreenType] /\ past' \in PastType
<1> SUFFICES ASSUME Inv, [Next]_vars PROVE Good
  BY DEF TypeOK, TableType, EventType, CallType, KeyType, ScreenType, PastType
<1>0. /\ table \in TableType /\ (~table.open => table.combat = None)
      /\ events \subseteq EventType /\ calls \subseteq CallType
      /\ screens \in [Screens -> ScreenType] /\ past \in PastType
  BY Types DEF Inv
<1>1. ASSUME NEW s \in Screens, GiveUp(s) PROVE Good
  <2>1. screens' \in [Screens -> ScreenType]
    BY <1>0, <1>1 DEF GiveUp, ScreenType, OrNone
  <2>2. QED
    BY <1>0, <1>1, <2>1 DEF GiveUp
<1>2. ASSUME NEW s \in Screens, NEW v \in Changes, Tap(s, v) PROVE Good
  <2>1. PICK tap, key :
          /\ tap \in Meant(s, v)
          /\ key = IF SameAgain(s, v) THEN screens[s].sending[v].key ELSE tap
          /\ tap <= MaxTaps
          /\ calls' = calls \cup
                {[id |-> past.sends + 1, by |-> s, change |-> v, key |-> key, tap |-> tap, at |-> "sent",
                  combat |-> Named(v), rev |-> None, sight |-> None, try |-> 1, first |-> table.revision, made |-> None]}
          /\ screens' = [screens EXCEPT ![s].waits = past.sends + 1,
                            ![s].sending[v] = [key |-> key, tap |-> tap, combat |-> Named(v)]]
          /\ past' = [past EXCEPT !.sends = past.sends + 1, !.taps = IF tap > @ THEN tap ELSE @]
    BY <1>2 DEF Tap
  <2>2. screens[s] \in ScreenType /\ screens[s].sending[v] \in OrNone(KeyType)
    BY <1>0 DEF ScreenType
  <2>3. tap \in 1..MaxTaps
    BY <1>0, <2>1, <2>2, BoundsAssumption DEF Meant, SameAgain, KeyType, OrNone, PastType
  <2>4. key \in Nat
    BY <2>1, <2>2, <2>3 DEF SameAgain, KeyType, OrNone
  <2>5. Named(v) \in OrNone(Nat)
    BY <1>0 DEF Named, TableType, OrNone
  <2>6. calls' \subseteq CallType
    <3> DEFINE new == [id |-> past.sends + 1, by |-> s, change |-> v, key |-> key, tap |-> tap, at |-> "sent",
                  combat |-> Named(v), rev |-> None, sight |-> None, try |-> 1, first |-> table.revision, made |-> None]
    <3>1. past.sends + 1 \in Nat /\ table.revision \in Nat
      BY <1>0 DEF PastType, TableType
    <3>2. new \in CallType
      BY <2>3, <2>4, <2>5, <3>1 DEF CallType, OrNone
    <3>3. QED
      BY <1>0, <2>1, <3>2
  <2>7. screens' \in [Screens -> ScreenType]
    <3>1. [key |-> key, tap |-> tap, combat |-> Named(v)] \in KeyType
      BY <2>3, <2>4, <2>5 DEF KeyType
    <3>2. past.sends + 1 \in Nat
      BY <1>0 DEF PastType
    <3>3. QED
      BY <1>0, <2>1, <2>2, <3>1, <3>2 DEF ScreenType, OrNone
  <2>8. past' \in PastType
    <3>1. past.sends + 1 \in Nat /\ (IF tap > past.taps THEN tap ELSE past.taps) \in 0..MaxTaps
      BY <1>0, <2>3, BoundsAssumption DEF PastType
    <3>2. past' = [past EXCEPT !.sends = past.sends + 1, !.taps = IF tap > past.taps THEN tap ELSE past.taps]
      BY <2>1
    <3>3. QED
      BY <1>0, <3>1, <3>2 DEF PastType
  <2>9. QED
    BY <1>0, <1>2, <2>6, <2>7, <2>8 DEF Tap
<1>3. ASSUME NEW c \in calls, ReadSight(c) PROVE Good
  BY <1>0, <1>3, ReadSightIs, MovesType
<1>4. ASSUME NEW c \in calls, Refused(c) PROVE Good
  BY <1>0, <1>4, FailsType DEF Refused
<1>5. ASSUME NEW c \in calls, Replay(c) PROVE Good
  <2>1. PICK e \in OfKey(c) : Moves(c, [c EXCEPT !.at = "done", !.made = e.revision, !.combat = e.combat])
    BY <1>5 DEF Replay
  <2>2. e \in EventType
    BY <1>0 DEF OfKey
  <2>3. [c EXCEPT !.at = "done", !.made = e.revision, !.combat = e.combat] \in CallType
    BY <1>0, <2>2 DEF CallType, EventType, OrNone
  <2>4. QED
    BY <1>0, <1>5, <2>1, <2>3, MovesType DEF Replay
<1>6. ASSUME NEW c \in calls, SightIsStale(c) PROVE Good
  <2>0. c \in CallType /\ c.first \in Nat /\ table.revision \in Nat
    BY <1>0 DEF CallType, TableType
  <2>1. CASE c.try < MaxSightTries
    <3>1. /\ Moves(c, [c EXCEPT !.at = "sent", !.try = c.try + 1])
          /\ UNCHANGED <<table, events, screens, past>>
      BY <1>6, <2>1, Zenon DEF SightIsStale
    <3>2. QED
      BY <1>0, <2>0, <3>1, MovesType, TryAgainType, Zenon
  <2>2. CASE ~(c.try < MaxSightTries)
    <3>1. past' = [past EXCEPT !.aborted = @ \cup {table.revision - c.first}]
      BY <1>6, <2>2, Zenon DEF SightIsStale
    <3>2. past' \in PastType
      <4>1. table.revision - c.first \in Int
        BY <2>0
      <4>2. QED
        BY <1>0, <3>1, <4>1, AbortedType, Zenon
    <3>3. QED
      <4>1. Fails(c) /\ UNCHANGED <<table, events>>
        BY <1>6, <2>2, Zenon DEF SightIsStale
      <4>2. QED
        BY <1>0, <3>2, <4>1, FailsType
  <2>3. QED
    BY <2>1, <2>2
<1>7. ASSUME NEW c \in calls, Apply(c) PROVE Good
  <2>1. c \in CallType
    BY <1>0
  <2>2. MayApply(c) /\ Applied(c) /\ UNCHANGED <<screens, past>>
        /\ Moves(c, [c EXCEPT !.at = "done", !.made = table'.revision, !.combat = table'.combat])
    BY <1>7 DEF Apply
  <2>3. /\ table' \in TableType /\ (~table'.open => table'.combat = None)
        /\ events' \subseteq EventType /\ table'.combat \in Nat
    BY <2>2, AppliedType
  <2>4. table'.revision \in Nat
    BY <2>3 DEF TableType
  <2>5. [c EXCEPT !.at = "done", !.made = table'.revision, !.combat = table'.combat] \in CallType
    BY <2>1, <2>3, <2>4, DoneType
  <2>6. calls' \subseteq CallType
    BY <2>2, <2>5, MovesType
  <2>7. QED
    BY <1>0, <2>2, <2>3, <2>6
<1>8. ASSUME NEW c \in calls, ApplyUnknown(c) PROVE Good
  BY <1>0, <1>8, AppliedType, FailsType DEF ApplyUnknown
<1>9. ASSUME NEW c \in calls, NothingToDo(c) PROVE Good
  <2>1. [c EXCEPT !.at = "nothing"] \in CallType
    BY <1>0 DEF CallType
  <2>2. QED
    BY <1>0, <1>9, <2>1, MovesType DEF NothingToDo
<1>10. ASSUME NEW c \in calls, Tell(c) PROVE Good
  <2>1. [c EXCEPT !.at = IF @ = "done" THEN "told" ELSE "nothing told"] \in CallType
    BY <1>0 DEF CallType
  <2>2. Hinted(c) \subseteq Nat
    BY <1>0 DEF Hinted, EventType
  <2>3. past' \in PastType
    BY <1>0, <1>10, <2>2 DEF Tell, PastType
  <2>4. QED
    BY <1>0, <1>10, <2>1, <2>3, MovesType DEF Tell
<1>11. ASSUME NEW c \in calls, FinishFails(c) PROVE Good
  BY <1>0, <1>11, FailsType DEF FinishFails
<1>12. ASSUME NEW c \in calls, Answer(c) PROVE Good
  <2>0. c \in CallType /\ c.by \in Screens /\ c.change \in Changes
    BY <1>0 DEF CallType
  <2>1. calls' \subseteq CallType
    BY <1>0, <1>12 DEF Answer
  <2>2. screens' \in [Screens -> ScreenType]
    BY <1>0, <1>12, <2>0 DEF Answer, ScreenType, OrNone
  <2>3. c.at = "told" => c.made \in Nat
    <3>1. c.at = "told" => c.made \in past.told
      BY DEF Inv, MadeIsThere
    <3>2. QED
      BY <1>0, <3>1 DEF PastType
  <2>4. past' \in PastType
    BY <1>0, <1>12, <2>3 DEF Answer, PastType
  <2>5. QED
    BY <1>0, <1>12, <2>1, <2>2, <2>4 DEF Answer
<1>13. ASSUME Crash PROVE Good
  <2>1. past' \in PastType
    BY <1>0, <1>13 DEF Crash, PastType
  <2>2. QED
    BY <1>0, <1>13, <2>1 DEF Crash
<1>14. ASSUME EndSession PROVE Good
  BY <1>0, <1>14 DEF EndSession, TableType, OrNone
<1>15. ASSUME StartSession PROVE Good
  <2>1. table.session + 1 \in 1..MaxSessions
    BY <1>0, <1>15, BoundsAssumption DEF StartSession, TableType
  <2>2. table' \in TableType /\ table'.open
    BY <1>0, <1>15, <2>1 DEF StartSession, TableType
  <2>3. QED
    BY <1>0, <1>15, <2>2 DEF StartSession
<1>16. CASE UNCHANGED vars
  BY <1>0, <1>16 DEF vars
<1>17. QED
  BY <1>1, <1>2, <1>3, <1>4, <1>5, <1>6, <1>7, <1>8, <1>9, <1>10, <1>11, <1>12, <1>13, <1>14, <1>15, <1>16
     DEF Next, People, Server
------------------------------------------------------------------------------
(* Taps, keys and meanings. *)

(* A call that goes on asks what it asked.                                 *)
LEMMA MovesAsked ==
    ASSUME Inv, NEW c \in calls, NEW d, Moves(c, d), SameAsked(c, d)
    PROVE  \A e \in calls' : \E f \in calls : SameAsked(f, e)
<1>1. \A e \in calls : SameAsked(e, e)
  BY Types DEF Inv, SameAsked
<1>2. QED
  BY <1>1 DEF Moves

(* Calls that only ended ask what they asked.                              *)
LEMMA FewerAsked ==
    ASSUME Inv, calls' \subseteq calls
    PROVE  \A e \in calls' : \E f \in calls : SameAsked(f, e)
BY Types DEF Inv, SameAsked

(* The event a call saves is of what the call asked.                       *)
LEMMA AppliedAsked ==
    ASSUME Inv, NEW c \in calls, MayApply(c), Applied(c)
    PROVE  \A e \in events' : e \in events \/ \E f \in calls :
                Meaning(e.tap, e.key, e.change, e.combat) = Meaning(f.tap, f.key, f.change, f.combat)
<1>1. table'.combat = IF c.change = "start" THEN table'.revision ELSE table.combat
  BY AppliedType
<1>2. c.combat = table.combat
  BY DEF MayApply, Misplaced
<1>3. c.change = "act" => table'.combat = c.combat
  BY <1>1, <1>2
<1>4. QED
  BY <1>3 DEF Applied, Meaning

(* A tap: what it means is what its key was kept for, or it is a new one.  *)
LEMMA TapMeans ==
    ASSUME Inv, NEW s \in Screens, NEW v \in Changes, Tap(s, v)
    PROVE  TapsMeanOne'
<1>1. PICK tap, key :
        /\ tap \in Meant(s, v)
        /\ key = IF SameAgain(s, v) THEN screens[s].sending[v].key ELSE tap
        /\ calls' = calls \cup
              {[id |-> past.sends + 1, by |-> s, change |-> v, key |-> key, tap |-> tap, at |-> "sent",
                combat |-> Named(v), rev |-> None, sight |-> None, try |-> 1, first |-> table.revision, made |-> None]}
        /\ screens' = [screens EXCEPT ![s].waits = past.sends + 1,
                          ![s].sending[v] = [key |-> key, tap |-> tap, combat |-> Named(v)]]
        /\ past' = [past EXCEPT !.sends = past.sends + 1, !.taps = IF tap > @ THEN tap ELSE @]
        /\ events' = events
  BY DEF Tap
<1>2. screens \in [Screens -> ScreenType] /\ past \in PastType
  BY Types DEF Inv
<1> DEFINE m == Meaning(tap, key, v, Named(v))
<1>3. OfEvents' = OfEvents
  BY <1>1 DEF OfEvents
<1>4. OfCalls' \subseteq OfCalls \cup {m}
  BY <1>1 DEF OfCalls
<1>5. \A t \in Screens, w \in Changes :
        Kept(t, w)' = IF t = s /\ w = v THEN [key |-> key, tap |-> tap, combat |-> Named(v)] ELSE Kept(t, w)
  BY <1>1, <1>2 DEF Kept, ScreenType
<1>6. OfKeys' \subseteq OfKeys \cup {m}
  <2>1. ASSUME NEW k \in InKeep', ~(k[1] = s /\ k[2] = v)
        PROVE  k \in InKeep /\ Kept(k[1], k[2])' = Kept(k[1], k[2])
    BY <1>5, <2>1 DEF InKeep
  <2>2. ASSUME NEW k \in InKeep', k[1] = s /\ k[2] = v
        PROVE  Kept(k[1], k[2])' = [key |-> key, tap |-> tap, combat |-> Named(v)]
    BY <1>5, <2>2 DEF InKeep
  <2>3. QED
    BY <2>1, <2>2 DEF OfKeys
<1>7. Meanings' \subseteq Meanings \cup {m}
  BY <1>3, <1>4, <1>6 DEF Meanings
<1>8. m.tap = tap
  BY DEF Meaning
<1>9. CASE tap = past.taps + 1
  <2>1. past.taps \in Nat /\ past'.taps = tap
    BY <1>1, <1>2, <1>9, BoundsAssumption DEF PastType
  <2>2. \A a \in Meanings : a.tap <= past.taps /\ a.tap \in Nat
    <3>1. \A a \in Meanings : a.tap <= past.taps
      BY DEF Inv, TapsMeanOne
    <3>2. \A a \in OfEvents \cup OfCalls : a.tap \in Nat
      <4>1. (\A e \in events : e.tap \in Nat) /\ (\A c \in calls : c.tap \in Nat)
        <5>1. events \subseteq EventType /\ calls \subseteq CallType
          BY Types DEF Inv
        <5>2. (\A e \in EventType : e.tap \in 1..MaxTaps) /\ (\A c \in CallType : c.tap \in 1..MaxTaps)
          BY DEF EventType, CallType
        <5>3. \A t \in 1..MaxTaps : t \in Nat
          BY BoundsAssumption
        <5>4. QED
          BY <5>1, <5>2, <5>3
      <4>2. QED
        BY <4>1 DEF OfEvents, OfCalls, Meaning
    <3>3. \A a \in OfKeys : a.tap \in Nat
      BY <1>2 DEF OfKeys, InKeep, Kept, Meaning, ScreenType, KeyType, OrNone
    <3>4. QED
      BY <3>1, <3>2, <3>3 DEF Meanings
  <2>3. \A a \in Meanings : a.tap # m.tap /\ a.tap <= past'.taps
    BY <1>8, <1>9, <2>1, <2>2
  <2>4. QED
    BY <1>7, <1>8, <1>9, <2>1, <2>3 DEF Inv, TapsMeanOne
<1>10. CASE SameAgain(s, v) /\ tap = Kept(s, v).tap
  <2>1. key = Kept(s, v).key /\ Named(v) = Kept(s, v).combat /\ <<s, v>> \in InKeep
    BY <1>1, <1>10 DEF SameAgain, Kept, InKeep
  <2>2. m \in OfKeys
    BY <1>10, <2>1 DEF OfKeys
  <2>3. Meanings' \subseteq Meanings
    BY <1>7, <2>2 DEF Meanings
  <2>4. past'.taps = past.taps
    <3>1. tap <= past.taps
      BY <1>8, <2>2 DEF Inv, TapsMeanOne, Meanings
    <3>2. tap \in Nat /\ past.taps \in Nat
      BY <1>2, <1>10, <2>1 DEF InKeep, Kept, ScreenType, KeyType, OrNone, PastType
    <3>3. ~(tap > past.taps)
      BY <3>1, <3>2
    <3>4. QED
      BY <1>1, <1>2, <3>3 DEF PastType
  <2>5. QED
    BY <2>3, <2>4 DEF Inv, TapsMeanOne
<1>11. QED
  BY <1>1, <1>9, <1>10 DEF Meant, Kept

(* Every step leaves a tap one meaning. *)
LEMMA MeaningStep == Inv /\ [Next]_vars => TapsMeanOne'
<1> SUFFICES ASSUME Inv, [Next]_vars PROVE TapsMeanOne'
  OBVIOUS
<1>0. calls \subseteq CallType /\ screens \in [Screens -> ScreenType] /\ past \in PastType
  BY Types DEF Inv
<1>1. ASSUME screens' = screens PROVE KeysStay
  BY <1>1 DEF KeysStay
<1>2. ASSUME NEW s \in Screens, GiveUp(s) PROVE TapsMeanOne'
  <2>1. KeysStay
    BY <1>0, <1>2 DEF GiveUp, KeysStay, ScreenType
  <2>2. QED
    BY <1>2, <2>1, FewerAsked, NothingNew DEF GiveUp
<1>3. ASSUME NEW c \in calls, ReadSight(c) PROVE TapsMeanOne'
  <2>1. SameAsked(c, AfterRead(c))
    BY <1>3, ReadSightIs DEF SameAsked
  <2>2. QED
    BY <1>1, <1>3, <2>1, ReadSightIs, MovesAsked, NothingNew
<1>4. ASSUME NEW c \in calls, Fails(c), UNCHANGED events, past'.taps = past.taps PROVE TapsMeanOne'
  <2>1. calls' \subseteq calls
    BY <1>4 DEF Fails
  <2>2. QED
    BY <1>4, <2>1, FailsType, FewerAsked, NothingNew
<1>5. ASSUME NEW c \in calls, Replay(c) PROVE TapsMeanOne'
  <2>1. PICK e \in OfKey(c) :
          Same(c, e) /\ Moves(c, [c EXCEPT !.at = "done", !.made = e.revision, !.combat = e.combat])
    BY <1>5 DEF Replay
  <2>2. e \in EventType
    BY Types DEF Inv, OfKey
  <2>3. SameAsked(c, [c EXCEPT !.at = "done", !.made = e.revision, !.combat = e.combat])
    BY <1>0, <2>1, <2>2 DEF SameAsked, Same, CallType, EventType, OrNone
  <2>4. QED
    BY <1>1, <1>5, <2>1, <2>3, MovesAsked, NothingNew DEF Replay
<1>6. ASSUME NEW c \in calls, SightIsStale(c) PROVE TapsMeanOne'
  <2>1. CASE c.try < MaxSightTries
    <3>1. /\ Moves(c, [c EXCEPT !.at = "sent", !.try = c.try + 1])
          /\ UNCHANGED <<table, events, screens, past>>
      BY <1>6, <2>1, Zenon DEF SightIsStale
    <3>2. [c EXCEPT !.at = "sent", !.try = c.try + 1] \in CallType
      BY <1>0, TryAgainType, Zenon
    <3>3. SameAsked(c, [c EXCEPT !.at = "sent", !.try = c.try + 1])
      BY <1>0, <3>2 DEF SameAsked, CallType
    <3>4. QED
      BY <1>1, <3>1, <3>3, MovesAsked, NothingNew
  <2>2. CASE ~(c.try < MaxSightTries)
    <3>1. /\ Fails(c) /\ UNCHANGED <<table, events>>
          /\ past' = [past EXCEPT !.aborted = @ \cup {table.revision - c.first}]
      BY <1>6, <2>2, Zenon DEF SightIsStale
    <3>2. past'.taps = past.taps
      BY <1>0, <3>1 DEF PastType
    <3>3. QED
      BY <1>4, <3>1, <3>2
  <2>3. QED
    BY <2>1, <2>2
<1>7. ASSUME NEW c \in calls, Apply(c) PROVE TapsMeanOne'
  <2>1. SameAsked(c, [c EXCEPT !.at = "done", !.made = table'.revision, !.combat = table'.combat])
    <3>1. table'.combat \in Nat /\ table'.revision \in Nat
      BY <1>7, AppliedType DEF Apply, TableType
    <3>2. c.change = "act" => table'.combat = c.combat
      BY <1>7, AppliedType DEF Apply, MayApply, Misplaced
    <3>3. QED
      BY <1>0, <3>1, <3>2 DEF SameAsked, CallType, OrNone
  <2>2. \A d \in calls' : \E f \in calls : SameAsked(f, d)
    BY <1>7, <2>1, MovesAsked DEF Apply
  <2>3. KeysStay /\ past'.taps = past.taps
    BY <1>1, <1>7 DEF Apply
  <2>4. QED
    BY <1>7, <2>2, <2>3, AppliedAsked, NothingNew DEF Apply
<1>8. ASSUME NEW c \in calls, ApplyUnknown(c) PROVE TapsMeanOne'
  <2>1. KeysStay /\ calls' \subseteq calls
    BY <1>8, FailsType DEF ApplyUnknown, Fails
  <2>2. QED
    BY <1>8, <2>1, FewerAsked, AppliedAsked, NothingNew DEF ApplyUnknown
<1>9. ASSUME NEW c \in calls, NothingToDo(c) PROVE TapsMeanOne'
  <2>1. SameAsked(c, [c EXCEPT !.at = "nothing"])
    BY <1>0 DEF SameAsked, CallType
  <2>2. QED
    BY <1>1, <1>9, <2>1, MovesAsked, NothingNew DEF NothingToDo
<1>10. ASSUME NEW c \in calls, Tell(c) PROVE TapsMeanOne'
  <2>1. SameAsked(c, [c EXCEPT !.at = IF @ = "done" THEN "told" ELSE "nothing told"])
    BY <1>0 DEF SameAsked, CallType
  <2>2. past'.taps = past.taps
    BY <1>0, <1>10 DEF Tell, PastType
  <2>3. QED
    BY <1>1, <1>10, <2>1, <2>2, MovesAsked, NothingNew DEF Tell
<1>11. ASSUME NEW c \in calls, Answer(c) PROVE TapsMeanOne'
  <2>1. c.by \in Screens /\ c.change \in Changes /\ calls' \subseteq calls
    BY <1>0, <1>11 DEF Answer, CallType
  <2>2. KeysStay
    BY <1>0, <1>11, <2>1 DEF Answer, KeysStay, ScreenType
  <2>3. past'.taps = past.taps
    BY <1>0, <1>11 DEF Answer, PastType
  <2>4. QED
    BY <1>11, <2>1, <2>2, <2>3, FewerAsked, NothingNew DEF Answer
<1>12. ASSUME Crash PROVE TapsMeanOne'
  <2>1. past'.taps = past.taps
    BY <1>0, <1>12 DEF Crash, PastType
  <2>2. QED
    BY <1>1, <1>12, <2>1, FewerAsked, NothingNew DEF Crash
<1>13. ASSUME UNCHANGED <<events, calls, screens, past>> PROVE TapsMeanOne'
  BY <1>1, <1>13, FewerAsked, NothingNew
<1>14. QED
  BY <1>2, TapMeans, <1>3, <1>4, <1>5, <1>6, <1>7, <1>8, <1>9, <1>10, <1>11, <1>12, <1>13
     DEF Next, People, Server, Refused, FinishFails, EndSession, StartSession, vars

------------------------------------------------------------------------------
(* The events. *)

EventsAreRight == EventsInOrder /\ AppliedOnce /\ SightIsOfTheChange

(* A change is saved only if no event of its tap stands in its way, and    *)
(* after the last one.                                                     *)
LEMMA AppliedRight ==
    ASSUME Inv, TypeOK', NEW c \in calls, MayApply(c), Applied(c)
    PROVE  EventsAreRight'
<1> DEFINE new == [session |-> table.session, key |-> c.key, by |-> c.by, change |-> c.change, tap |-> c.tap,
                   combat |-> table'.combat, sight |-> c.sight, revision |-> table'.revision]
<1>1. events' = events \cup {new}
  BY DEF Applied
<1>2. /\ c \in CallType /\ events \subseteq EventType /\ table \in TableType
  BY Types DEF Inv
<1>3. /\ table'.revision = table.revision + 1 /\ table'.session = table.session
      /\ table'.combat = IF c.change = "start" THEN table'.revision ELSE table.combat
      /\ table'.combat \in Nat /\ table.revision \in Nat
  BY <1>2, AppliedType DEF TableType
<1>4. c.change \in {"start", "act"} /\ c.combat = table.combat /\ OfKey(c) = {} /\ ~Stale(c)
  BY <1>2 DEF MayApply, Misplaced, CallType, Changes
<1>5. \A e \in events : /\ e.revision \in Nat /\ e.combat \in Nat
                        /\ e.revision <= table.revision /\ e.combat <= table.revision
  BY <1>2 DEF Inv, EventsInOrder, EventType
<1>6. c.change = "act" => table.combat \in Nat /\ table.combat <= table.revision
  BY <1>2, <1>4 DEF Inv, ActsName, EventsInOrder, TableType, OrNone
<1>7. EventsInOrder'
  <2>1. \A e \in events' : e.revision <= table'.revision /\ e.combat <= table'.revision
    BY <1>1, <1>3, <1>4, <1>5, <1>6
  <2>2. \A e, f \in events' : e.revision = f.revision => e = f
    <3>1. \A e \in events : e.revision # new.revision
      BY <1>3, <1>5
    <3>2. QED
      BY <1>1, <3>1 DEF Inv, EventsInOrder
  <2>3. \A e \in events' : e.combat = table'.combat => e.session = table'.session
    <3>1. \A e \in events : e.combat = table'.combat => e.session = table.session
      <4>1. CASE c.change = "start"
        BY <1>3, <1>5, <4>1
      <4>2. CASE c.change = "act"
        BY <1>3, <4>2 DEF Inv, EventsInOrder
      <4>3. QED
        BY <1>4, <4>1, <4>2
    <3>2. QED
      BY <1>1, <1>3, <3>1
  <2>4. table'.combat <= table'.revision
    BY <1>3, <1>4, <1>6
  <2>5. QED
    BY <2>1, <2>2, <2>3, <2>4 DEF EventsInOrder
<1>8. SightIsOfTheChange'
  <2>1. ASSUME Fogged, c.change = "act" PROVE c.sight = table'.revision - 1
    <3>1. c.combat # None
      BY <2>1 DEF Inv, ActsName
    <3>2. c.rev = table.revision /\ NeedsSight(c) /\ c.at = "ready"
      BY <1>4, <2>1, <3>1 DEF Stale, NeedsSight, MayApply, Running
    <3>4. c.sight = table.revision
      <4>1. c.sight \in Nat /\ c.rev <= c.sight /\ c.sight <= table.revision
        BY <3>2 DEF Inv, SightsFollow, SawAfterReading
      <4>2. QED
        BY <1>3, <3>2, <4>1
    <3>3. QED
      BY <1>3, <3>4
  <2>2. QED
    BY <1>1, <2>1 DEF Inv, SightIsOfTheChange
<1>9. AppliedOnce'
  <2>1. ASSUME NEW e \in events, e.tap = c.tap
        PROVE  c.change = "start" /\ e.change = "start" /\ e.session # table.session
    <3>1. Meaning(e.tap, e.key, e.change, e.combat) = Meaning(c.tap, c.key, c.change, c.combat)
      <4>1. /\ Meaning(e.tap, e.key, e.change, e.combat) \in Meanings
            /\ Meaning(c.tap, c.key, c.change, c.combat) \in Meanings
        BY DEF Meanings, OfEvents, OfCalls
      <4>2. Meaning(e.tap, e.key, e.change, e.combat).tap = Meaning(c.tap, c.key, c.change, c.combat).tap
        BY <2>1 DEF Meaning
      <4>3. QED
        BY <4>1, <4>2 DEF Inv, TapsMeanOne
    <3>2. e.key = c.key /\ e.change = c.change /\ (c.change = "act" => e.combat = c.combat)
      BY <3>1 DEF Meaning
    <3>3. e.session # table.session
      BY <1>4, <3>2 DEF OfKey
    <3>4. c.change # "act"
      BY <1>4, <3>2, <3>3 DEF Inv, EventsInOrder
    <3>5. QED
      BY <1>4, <3>2, <3>3, <3>4
  <2>2. new.tap = c.tap /\ new.change = c.change /\ new.session = table.session
    OBVIOUS
  <2>3. QED
    BY <1>1, <2>1, <2>2 DEF Inv, AppliedOnce
<1>10. QED
  BY <1>7, <1>8, <1>9 DEF EventsAreRight

(* Every step leaves the events in order, once each, on the right sight.   *)
LEMMA EventStep == Inv /\ TypeOK' /\ [Next]_vars => EventsAreRight'
<1> SUFFICES ASSUME Inv, TypeOK', [Next]_vars PROVE EventsAreRight'
  OBVIOUS
<1>1. ASSUME NEW c \in calls, Apply(c) \/ ApplyUnknown(c) PROVE EventsAreRight'
  BY <1>1, AppliedRight DEF Apply, ApplyUnknown
<1>2. ASSUME UNCHANGED <<table, events>> PROVE EventsAreRight'
  BY <1>2 DEF Inv, EventsAreRight, EventsInOrder, AppliedOnce, SightIsOfTheChange
<1>3. ASSUME UNCHANGED events, table'.combat = None, table'.revision = table.revision PROVE EventsAreRight'
  <2>1. \A e \in events : e.combat # None
    BY Types, BoundsAssumption DEF Inv, EventType
  <2>2. QED
    BY <1>3, <2>1 DEF Inv, EventsAreRight, EventsInOrder, AppliedOnce, SightIsOfTheChange
<1>4. ASSUME EndSession \/ StartSession PROVE EventsAreRight'
  <2>1. /\ UNCHANGED events /\ table \in TableType /\ (~table.open => table.combat = None)
    BY <1>4, Types DEF Inv, EndSession, StartSession
  <2>2. table'.combat = None /\ table'.revision = table.revision
    BY <1>4, <2>1 DEF EndSession, StartSession, TableType
  <2>3. QED
    BY <1>3, <2>1, <2>2
<1>5. ASSUME NEW s \in Screens, NEW v \in Changes, GiveUp(s) \/ Tap(s, v) PROVE EventsAreRight'
  BY <1>2, <1>5 DEF GiveUp, Tap
<1>6. ASSUME NEW c \in calls,
             \/ ReadSight(c) \/ Refused(c) \/ Replay(c) \/ SightIsStale(c)
             \/ NothingToDo(c) \/ Tell(c) \/ FinishFails(c) \/ Answer(c)
      PROVE EventsAreRight'
  BY <1>2, <1>6 DEF ReadSight, Refused, Replay, SightIsStale, NothingToDo, Tell, FinishFails, Answer
<1>7. ASSUME Crash \/ UNCHANGED vars PROVE EventsAreRight'
  BY <1>2, <1>7 DEF Crash, vars
<1>8. QED
  BY <1>1, <1>4, <1>5, <1>6, <1>7 DEF Next, People, Server, Changes

------------------------------------------------------------------------------
(* What calls made, what was told and what was answered. *)

CallsAreRight == ActsName /\ MadeIsThere /\ AnsweredWasTold

(* The call d names a combat if it must, and what it made is there.        *)
IsRight(d) ==
    /\ d.change = "act" => d.combat # None
    /\ d.at \in {"done", "told"} => \E e \in events' : e.revision = d.made /\ e.combat = d.combat
    /\ d.at = "told" => d.made \in past'.told

(* Calls that were right stay right when events and tellings only grow.    *)
LEMMA StillRight ==
    ASSUME Inv, events \subseteq events', past.told \subseteq past'.told,
           past'.answered \subseteq past'.told,
           \A n \in past'.told : n \in past.told \/ \E e \in events' : e.revision = n,
           \A d \in calls' : d \in calls \/ IsRight(d)
    PROVE  CallsAreRight'
<1>1. \A d \in calls : IsRight(d)
  BY DEF Inv, ActsName, MadeIsThere, IsRight
<1>2. \A d \in calls' : IsRight(d)
  BY <1>1
<1>3. \A n \in past'.told : \E e \in events' : e.revision = n
  BY DEF Inv, MadeIsThere
<1>4. QED
  BY <1>2, <1>3 DEF CallsAreRight, ActsName, MadeIsThere, AnsweredWasTold, IsRight

(* The same when nothing is told.                                          *)
LEMMA StillRightQuietly ==
    ASSUME Inv, events \subseteq events', past'.told = past.told, past'.answered = past.answered,
           \A d \in calls' : d \in calls \/ IsRight(d)
    PROVE  CallsAreRight'
BY StillRight DEF Inv, AnsweredWasTold

(* Every step leaves what calls made there, and the answered told.         *)
LEMMA CallStep == Inv /\ [Next]_vars => CallsAreRight'
<1> SUFFICES ASSUME Inv, [Next]_vars PROVE CallsAreRight'
  OBVIOUS
<1>0. /\ calls \subseteq CallType /\ past \in PastType /\ events \subseteq EventType
      /\ \A d \in calls : d.change = "act" => d.combat # None
  BY Types DEF Inv, ActsName
<1>1. ASSUME NEW s \in Screens, GiveUp(s) PROVE CallsAreRight'
  BY <1>1, StillRightQuietly DEF GiveUp
<1>2. ASSUME NEW s \in Screens, NEW v \in Changes, Tap(s, v) PROVE CallsAreRight'
  <2> DEFINE KeyOf(tap) == IF SameAgain(s, v) THEN screens[s].sending[v].key ELSE tap
  <2>1. PICK tap \in Meant(s, v) : calls' = calls \cup
          {[id |-> past.sends + 1, by |-> s, change |-> v, key |-> KeyOf(tap), tap |-> tap, at |-> "sent",
            combat |-> Named(v), rev |-> None, sight |-> None, try |-> 1, first |-> table.revision, made |-> None]}
    BY <1>2 DEF Tap
  <2>2. v = "act" => Named(v) # None
    BY <1>2 DEF Tap, Named
  <2>3. past'.told = past.told /\ past'.answered = past.answered /\ events' = events
    BY <1>0, <1>2 DEF Tap, PastType
  <2>4. \A d \in calls' : d \in calls \/ IsRight(d)
    BY <2>1, <2>2 DEF IsRight
  <2>5. QED
    BY <2>3, <2>4, StillRightQuietly
<1>3. ASSUME NEW c \in calls, ReadSight(c) PROVE CallsAreRight'
  <2>1. /\ Moves(c, AfterRead(c)) /\ UNCHANGED <<table, events, screens, past>>
        /\ AfterRead(c).change = c.change /\ AfterRead(c).combat = c.combat
        /\ AfterRead(c).at \in {"reading", "ready"}
    BY <1>3, ReadSightIs
  <2>2. IsRight(AfterRead(c))
    BY <1>0, <2>1 DEF IsRight
  <2>3. QED
    BY <2>1, <2>2, StillRightQuietly DEF Moves
<1>4. ASSUME NEW c \in calls, Fails(c), UNCHANGED events,
             past'.told = past.told, past'.answered = past.answered
      PROVE  CallsAreRight'
  BY <1>4, StillRightQuietly DEF Fails
<1>5. ASSUME NEW c \in calls, Replay(c) PROVE CallsAreRight'
  <2>1. PICK e \in OfKey(c) :
          Same(c, e) /\ Moves(c, [c EXCEPT !.at = "done", !.made = e.revision, !.combat = e.combat])
    BY <1>5 DEF Replay
  <2> DEFINE d == [c EXCEPT !.at = "done", !.made = e.revision, !.combat = e.combat]
  <2>2. d.change = c.change /\ d.combat = e.combat /\ d.at = "done" /\ d.made = e.revision
    BY <1>0 DEF CallType
  <2>3. e \in events /\ e.combat # None
    BY <1>0, BoundsAssumption DEF OfKey, EventType
  <2>4. IsRight(d)
    BY <1>5, <2>2, <2>3 DEF IsRight, Replay
  <2>5. QED
    BY <1>5, <2>1, <2>4, StillRightQuietly DEF Replay, Moves
<1>6. ASSUME NEW c \in calls, SightIsStale(c) PROVE CallsAreRight'
  <2>1. CASE c.try < MaxSightTries
    <3> DEFINE d == [c EXCEPT !.at = "sent", !.try = c.try + 1]
    <3>1. Moves(c, d) /\ UNCHANGED <<table, events, screens, past>>
      BY <1>6, <2>1, Zenon DEF SightIsStale
    <3>2. d.change = c.change /\ d.combat = c.combat /\ d.at = "sent"
      BY <1>0 DEF CallType
    <3>3. IsRight(d)
      BY <1>0, <3>2 DEF IsRight
    <3>4. QED
      BY <3>1, <3>3, StillRightQuietly DEF Moves
  <2>2. CASE ~(c.try < MaxSightTries)
    <3>1. /\ Fails(c) /\ UNCHANGED <<table, events>>
          /\ past' = [past EXCEPT !.aborted = @ \cup {table.revision - c.first}]
      BY <1>6, <2>2, Zenon DEF SightIsStale
    <3>2. past'.told = past.told /\ past'.answered = past.answered
      BY <1>0, <3>1 DEF PastType
    <3>3. QED
      BY <1>4, <3>1, <3>2
  <2>3. QED
    BY <2>1, <2>2
<1>7. ASSUME NEW c \in calls, Apply(c) PROVE CallsAreRight'
  <2> DEFINE d == [c EXCEPT !.at = "done", !.made = table'.revision, !.combat = table'.combat]
  <2>1. /\ d.combat = table'.combat /\ d.at = "done" /\ d.made = table'.revision
    BY <1>0 DEF CallType
  <2>2. table'.combat # None
    BY <1>7, AppliedType, BoundsAssumption DEF Apply
  <2>3. \E e \in events' : e.revision = table'.revision /\ e.combat = table'.combat
    BY <1>7 DEF Apply, Applied
  <2>4. IsRight(d)
    BY <2>1, <2>2, <2>3 DEF IsRight
  <2>5. QED
    BY <1>7, <2>4, StillRightQuietly DEF Apply, Applied, Moves
<1>8. ASSUME NEW c \in calls, ApplyUnknown(c) PROVE CallsAreRight'
  BY <1>8, StillRightQuietly DEF ApplyUnknown, Applied, Fails
<1>9. ASSUME NEW c \in calls, NothingToDo(c) PROVE CallsAreRight'
  <2> DEFINE d == [c EXCEPT !.at = "nothing"]
  <2>1. d.change = c.change /\ d.combat = c.combat /\ d.at = "nothing"
    BY <1>0 DEF CallType
  <2>2. IsRight(d)
    BY <1>0, <2>1 DEF IsRight
  <2>3. QED
    BY <1>9, <2>2, StillRightQuietly DEF NothingToDo, Moves
<1>10. ASSUME NEW c \in calls, Tell(c) PROVE CallsAreRight'
  <2> DEFINE d == [c EXCEPT !.at = IF @ = "done" THEN "told" ELSE "nothing told"]
  <2>1. /\ past'.told = past.told \cup Hinted(c) /\ past'.answered = past.answered
        /\ events' = events /\ Moves(c, d) /\ c.at \in {"done", "nothing"}
    BY <1>0, <1>10 DEF Tell, PastType
  <2>2. /\ d.change = c.change /\ d.combat = c.combat /\ d.made = c.made
        /\ d.at = IF c.at = "done" THEN "told" ELSE "nothing told"
    BY <1>0 DEF CallType
  <2>3. c.at = "done" => \E e \in events : e.revision = c.made /\ e.combat = c.combat
    BY DEF Inv, MadeIsThere
  <2>4. c.at = "done" => c.made \in Hinted(c)
    BY <2>3 DEF Hinted
  <2>5. IsRight(d)
    <3>1. c.at = "done" => d.at = "told" /\ d.made \in past'.told
      BY <2>1, <2>2, <2>4
    <3>2. c.at # "done" => d.at = "nothing told"
      BY <2>2
    <3>3. c.at = "done" => \E e \in events' : e.revision = d.made /\ e.combat = d.combat
      BY <2>1, <2>2, <2>3
    <3>4. d.change = "act" => d.combat # None
      BY <1>0, <2>2
    <3> HIDE DEF d
    <3>5. QED
      BY <3>1, <3>2, <3>3, <3>4 DEF IsRight
  <2>6. \A n \in past'.told : n \in past.told \/ \E e \in events' : e.revision = n
    BY <2>1 DEF Hinted
  <2>7. past'.answered \subseteq past'.told
    BY <2>1 DEF Inv, AnsweredWasTold
  <2>8. \A f \in calls' : f \in calls \/ IsRight(f)
    BY <2>1, <2>5 DEF Moves
  <2>9. QED
    BY <2>1, <2>6, <2>7, <2>8, StillRight
<1>11. ASSUME NEW c \in calls, Answer(c) PROVE CallsAreRight'
  <2>1. past'.told = past.told /\ events' = events /\ calls' \subseteq calls
    BY <1>0, <1>11 DEF Answer, PastType
  <2>2. c.at = "told" => c.made \in past.told
    BY DEF Inv, MadeIsThere
  <2>3. past'.answered \subseteq past'.told
    <3>1. past'.answered = past.answered \/ (c.at = "told" /\ past'.answered = past.answered \cup {c.made})
      BY <1>0, <1>11 DEF Answer, PastType
    <3>2. QED
      BY <2>1, <2>2, <3>1 DEF Inv, AnsweredWasTold
  <2>4. QED
    BY <2>1, <2>3, StillRight
<1>12. ASSUME Crash PROVE CallsAreRight'
  <2>1. past'.told = past.told /\ past'.answered = past.answered
    BY <1>0, <1>12 DEF Crash, PastType
  <2>2. QED
    BY <1>12, <2>1, StillRightQuietly DEF Crash
<1>13. ASSUME UNCHANGED <<events, calls, past>> PROVE CallsAreRight'
  BY <1>13, StillRightQuietly
<1>14. QED
  BY <1>1, <1>2, <1>3, <1>4, <1>5, <1>6, <1>7, <1>8, <1>9, <1>10, <1>11, <1>12, <1>13
     DEF Next, People, Server, Refused, FinishFails, EndSession, StartSession, vars

------------------------------------------------------------------------------
(* What calls saw. *)

(* What a call saw stays behind a revision that grows.                     *)
LEMMA SightsStay ==
    ASSUME Inv, table'.revision = table.revision \/ table'.revision = table.revision + 1,
           \A d \in calls' : d \in calls \/ SawAfterReading(d, table'.revision)
    PROVE  SightsFollow'
<1>1. table.revision \in Nat /\ table'.revision \in Nat /\ table.revision <= table'.revision
  BY Types DEF Inv, TableType
<1>2. \A c \in calls : SawAfterReading(c, table.revision)
  BY DEF Inv, SightsFollow
<1>3. \A c \in calls : SawAfterReading(c, table'.revision)
  BY <1>1, <1>2 DEF SawAfterReading
<1>4. QED
  BY <1>3 DEF SightsFollow, SawAfterReading, NeedsSight

(* Every step leaves what a call saw behind the revision, and in order.    *)
LEMMA SightStep == Inv /\ [Next]_vars => SightsFollow'
<1> SUFFICES ASSUME Inv, [Next]_vars PROVE SightsFollow'
  OBVIOUS
<1>0. /\ calls \subseteq CallType /\ past \in PastType /\ table \in TableType /\ table.revision \in Nat
      /\ \A c \in calls : SawAfterReading(c, table.revision)
  BY Types DEF Inv, TableType, SightsFollow
<1>1. ASSUME calls' \subseteq calls, table'.revision = table.revision \/ table'.revision = table.revision + 1
      PROVE  SightsFollow'
  BY <1>1, SightsStay
<1>2. ASSUME NEW c \in calls, NEW d, Moves(c, d), d.at \notin {"reading", "ready"},
             table'.revision = table.revision \/ table'.revision = table.revision + 1
      PROVE  SightsFollow'
  BY <1>2, SightsStay DEF Moves, SawAfterReading
<1>3. ASSUME NEW s \in Screens, NEW v \in Changes, Tap(s, v) PROVE SightsFollow'
  <2> DEFINE KeyOf(tap) == IF SameAgain(s, v) THEN screens[s].sending[v].key ELSE tap
             New(tap) == [id |-> past.sends + 1, by |-> s, change |-> v, key |-> KeyOf(tap), tap |-> tap,
                          at |-> "sent", combat |-> Named(v), rev |-> None, sight |-> None, try |-> 1,
                          first |-> table.revision, made |-> None]
  <2>1. PICK tap \in Meant(s, v) : calls' = calls \cup {New(tap)}
    BY <1>3 DEF Tap
  <2>2. New(tap).at = "sent" /\ table' = table
    BY <1>3 DEF Tap
  <2> HIDE DEF New
  <2>3. QED
    BY <2>1, <2>2, SightsStay DEF SawAfterReading
<1>4. ASSUME NEW c \in calls, ReadSight(c) PROVE SightsFollow'
  <2> DEFINE d == AfterRead(c)
  <2>1. /\ Moves(c, d) /\ UNCHANGED <<table, events, screens, past>>
        /\ c.at \in {"sent", "reading"} /\ d.at \in {"reading", "ready"} /\ d.combat = c.combat
    BY <1>4, ReadSightIs
  <2>2. NeedsSight(d) <=> NeedsSight(c)
    BY <2>1 DEF NeedsSight
  <2>3. CASE ~NeedsSight(c)
    <3>1. d.at = "ready"
      BY <1>0, <2>3 DEF AfterRead, CallType
    <3> HIDE DEF d
    <3>2. QED
      BY <2>1, <2>2, <2>3, <3>1, SightsStay DEF Moves, SawAfterReading
  <2>4. CASE NeedsSight(c) /\ c.at = "sent"
    <3>1. d.at = "reading" /\ d.rev = table.revision
      BY <1>0, <2>4 DEF AfterRead, CallType
    <3> HIDE DEF d
    <3>2. SawAfterReading(d, table.revision)
      BY <1>0, <2>2, <2>4, <3>1 DEF SawAfterReading
    <3>3. QED
      BY <2>1, <3>2, SightsStay DEF Moves
  <2>5. CASE NeedsSight(c) /\ c.at = "reading"
    <3>1. d.at = "ready" /\ d.sight = table.revision /\ d.rev = c.rev
      BY <1>0, <2>5 DEF AfterRead, CallType
    <3>2. c.rev \in Nat /\ c.rev <= table.revision
      BY <1>0, <2>5 DEF SawAfterReading
    <3> HIDE DEF d
    <3>3. SawAfterReading(d, table.revision)
      BY <1>0, <2>2, <2>5, <3>1, <3>2 DEF SawAfterReading
    <3>4. QED
      BY <2>1, <3>3, SightsStay DEF Moves
  <2>6. QED
    BY <2>1, <2>3, <2>4, <2>5
<1>5. ASSUME NEW c \in calls, SightIsStale(c) PROVE SightsFollow'
  <2>1. UNCHANGED <<table, events>>
    BY <1>5, Zenon DEF SightIsStale
  <2>2. CASE c.try < MaxSightTries
    <3> DEFINE d == [c EXCEPT !.at = "sent", !.try = c.try + 1]
    <3>1. Moves(c, d)
      BY <1>5, <2>2, Zenon DEF SightIsStale
    <3>2. d.at = "sent"
      BY <1>0 DEF CallType
    <3> HIDE DEF d
    <3>3. QED
      BY <1>2, <2>1, <3>1, <3>2
  <2>3. CASE ~(c.try < MaxSightTries)
    <3>1. Fails(c)
      BY <1>5, <2>3, Zenon DEF SightIsStale
    <3>2. QED
      BY <1>1, <2>1, <3>1 DEF Fails
  <2>4. QED
    BY <2>2, <2>3
<1>6. ASSUME NEW c \in calls, Apply(c) PROVE SightsFollow'
  <2>1. table'.revision = table.revision + 1
    BY <1>6, AppliedType DEF Apply
  <2> DEFINE d == [c EXCEPT !.at = "done", !.made = table'.revision, !.combat = table'.combat]
  <2>2. d.at = "done" /\ Moves(c, d)
    BY <1>0, <1>6 DEF Apply, CallType
  <2> HIDE DEF d
  <2>3. QED
    BY <1>2, <2>1, <2>2
<1>7. ASSUME NEW c \in calls, ApplyUnknown(c) PROVE SightsFollow'
  <2>1. table'.revision = table.revision + 1 /\ Fails(c)
    BY <1>7, AppliedType DEF ApplyUnknown
  <2>2. QED
    BY <1>1, <2>1 DEF Fails
<1>8. ASSUME NEW c \in calls, Replay(c) PROVE SightsFollow'
  <2>1. PICK e \in OfKey(c) : Moves(c, [c EXCEPT !.at = "done", !.made = e.revision, !.combat = e.combat])
    BY <1>8 DEF Replay
  <2> DEFINE d == [c EXCEPT !.at = "done", !.made = e.revision, !.combat = e.combat]
  <2>2. d.at = "done" /\ Moves(c, d) /\ table' = table
    BY <1>0, <1>8, <2>1 DEF Replay, CallType
  <2> HIDE DEF d
  <2>3. QED
    BY <1>2, <2>2
<1>9. ASSUME NEW c \in calls, NothingToDo(c) PROVE SightsFollow'
  <2> DEFINE d == [c EXCEPT !.at = "nothing"]
  <2>1. d.at = "nothing" /\ Moves(c, d) /\ table' = table
    BY <1>0, <1>9 DEF NothingToDo, CallType
  <2> HIDE DEF d
  <2>2. QED
    BY <1>2, <2>1
<1>10. ASSUME NEW c \in calls, Tell(c) PROVE SightsFollow'
  <2> DEFINE d == [c EXCEPT !.at = IF @ = "done" THEN "told" ELSE "nothing told"]
  <2>1. d.at \in {"told", "nothing told"} /\ Moves(c, d) /\ table' = table
    BY <1>0, <1>10 DEF Tell, CallType
  <2> HIDE DEF d
  <2>2. QED
    BY <1>2, <2>1
<1>11. ASSUME NEW c \in calls, Answer(c) \/ Refused(c) \/ FinishFails(c) PROVE SightsFollow'
  BY <1>1, <1>11 DEF Answer, Refused, FinishFails, Fails
<1>12. ASSUME Crash PROVE SightsFollow'
  BY <1>1, <1>12 DEF Crash
<1>13. ASSUME EndSession \/ StartSession PROVE SightsFollow'
  BY <1>0, <1>1, <1>13 DEF EndSession, StartSession, TableType
<1>14. ASSUME NEW s \in Screens, GiveUp(s) PROVE SightsFollow'
  BY <1>1, <1>14 DEF GiveUp
<1>15. ASSUME UNCHANGED vars PROVE SightsFollow'
  BY <1>1, <1>15 DEF vars
<1>16. QED
  BY <1>3, <1>4, <1>5, <1>6, <1>7, <1>8, <1>9, <1>10, <1>11, <1>12, <1>13, <1>14, <1>15
     DEF Next, People, Server

------------------------------------------------------------------------------
(* The theorems. *)

(* The invariant holds in every state of the protocol.                     *)
LEMMA Invariance == Spec => []Inv
<1>1. Inv /\ [Next]_vars => Inv'
  <2>1. Inv /\ [Next]_vars => TypeOK' /\ TapsMeanOne' /\ EventsAreRight' /\ CallsAreRight' /\ SightsFollow'
    BY TypeStep, MeaningStep, EventStep, CallStep, SightStep
  <2>2. QED
    BY <2>1 DEF Inv, EventsAreRight, CallsAreRight
<1>2. QED
  BY InitInv, <1>1, PTL DEF Spec

(* The table, the events, the calls and the screens keep their types.      *)
THEOREM WriteTypes == Spec => []TypeOK
<1>1. Inv => TypeOK
  BY DEF Inv
<1>2. QED
  BY Invariance, <1>1, PTL

(* However many calls carry it, a thing wanted is done at most once.       *)
THEOREM DoneOnce == Spec => []AppliedOnce
<1>1. Inv => AppliedOnce
  BY DEF Inv
<1>2. QED
  BY Invariance, <1>1, PTL

(* What was answered as done had been told to the streams.                 *)
THEOREM AnswersWereTold == Spec => []AnsweredWasTold
<1>1. Inv => AnsweredWasTold
  BY DEF Inv
<1>2. QED
  BY Invariance, <1>1, PTL

(* Under the fog a change was made on the sight of the revision it follows:*)
(* what was seen is not older than the revision read before it (that is    *)
(* SightsFollow), and that one was still the last at the commit.           *)
THEOREM OnTheRightSight == Spec => []SightIsOfTheChange
<1>1. Inv => SightIsOfTheChange
  BY DEF Inv
<1>2. QED
  BY Invariance, <1>1, PTL

------------------------------------------------------------------------------
(* Changes given up for a stale sight. *)

(* Every try but the first of a call that still tries came after a change  *)
(* made since it was sent, and so did what it saw last.                    *)
IsTried(c, revision) ==
    /\ c.at \in {"sent", "reading", "ready"} => c.first + c.try <= revision + 1
    /\ c.at \in {"reading", "ready"} /\ NeedsSight(c) =>
        c.rev \in Nat /\ c.first + c.try <= c.rev + 1 /\ c.rev <= revision

Tries == \A c \in calls : IsTried(c, table.revision)

(* A try stays behind the revision while that grows.                       *)
LEMMA StillTried ==
    ASSUME Inv, Tries, NEW m \in Nat, m >= table.revision, NEW c \in calls
    PROVE  IsTried(c, m)
<1>1. c \in CallType /\ table \in TableType
  BY Types DEF Inv
<1>2. c.first \in Nat /\ c.try \in Nat /\ table.revision \in Nat
  BY <1>1 DEF CallType, TableType
<1>3. IsTried(c, table.revision)
  BY DEF Tries
<1>4. QED
  BY <1>2, <1>3 DEF IsTried

(* A step that adds no call that tries, and gives no change up.            *)
LEMMA TriesStay ==
    ASSUME Inv, Tries, GivenUpAmongChanges, past'.aborted = past.aborted,
           table'.revision \in Nat, table'.revision >= table.revision,
           \A d \in calls' : d \in calls \/ IsTried(d, table'.revision)
    PROVE  Tries' /\ GivenUpAmongChanges'
BY StillTried DEF Tries, GivenUpAmongChanges, IsTried, NeedsSight

(* Every step leaves the tries behind the changes made among them.         *)
LEMMA TriesStep ==
    Inv /\ Tries /\ GivenUpAmongChanges /\ [Next]_vars => Tries' /\ GivenUpAmongChanges'
<1> DEFINE Good == Tries' /\ GivenUpAmongChanges'
<1> SUFFICES ASSUME Inv, Tries, GivenUpAmongChanges, [Next]_vars PROVE Good
  OBVIOUS
<1> HIDE DEF Good
<1>0. /\ calls \subseteq CallType /\ past \in PastType /\ table \in TableType /\ table.revision \in Nat
      /\ \A c \in calls : c.first \in Nat /\ c.try \in Nat
  BY Types DEF Inv, TableType, CallType
<1>1. ASSUME past'.aborted = past.aborted, table'.revision = table.revision \/ table'.revision = table.revision + 1,
             \A d \in calls' : d \in calls \/ IsTried(d, table'.revision)
      PROVE  Good
  <2>1. table'.revision \in Nat /\ table'.revision >= table.revision
    BY <1>0, <1>1
  <2>2. QED
    BY <1>1, <2>1, TriesStay DEF Good
<1>2. ASSUME calls' \subseteq calls, past'.aborted = past.aborted, table'.revision = table.revision PROVE Good
  BY <1>1, <1>2
<1>3. ASSUME NEW s \in Screens, NEW v \in Changes, Tap(s, v) PROVE Good
  <2> DEFINE KeyOf(tap) == IF SameAgain(s, v) THEN screens[s].sending[v].key ELSE tap
             New(tap) == [id |-> past.sends + 1, by |-> s, change |-> v, key |-> KeyOf(tap), tap |-> tap,
                          at |-> "sent", combat |-> Named(v), rev |-> None, sight |-> None, try |-> 1,
                          first |-> table.revision, made |-> None]
  <2>1. PICK tap \in Meant(s, v) : calls' = calls \cup {New(tap)}
    BY <1>3 DEF Tap
  <2>2. IsTried(New(tap), table.revision)
    <3>1. New(tap).at = "sent" /\ New(tap).try = 1 /\ New(tap).first = table.revision
      OBVIOUS
    <3> HIDE DEF New
    <3>2. QED
      BY <1>0, <3>1 DEF IsTried
  <2>3. past'.aborted = past.aborted /\ table' = table
    BY <1>0, <1>3 DEF Tap, PastType
  <2>4. QED
    BY <1>1, <2>1, <2>2, <2>3
<1>4. ASSUME NEW c \in calls, ReadSight(c) PROVE Good
  <2> DEFINE d == AfterRead(c)
  <2>1. /\ Moves(c, d) /\ UNCHANGED <<table, events, screens, past>>
        /\ c.at \in {"sent", "reading"} /\ d.at \in {"reading", "ready"}
        /\ d.first = c.first /\ d.try = c.try /\ d.combat = c.combat
    BY <1>4, ReadSightIs
  <2>2. NeedsSight(d) => d.rev = IF c.at = "sent" THEN table.revision ELSE c.rev
    BY <1>0, <2>1 DEF NeedsSight, AfterRead, CallType
  <2> HIDE DEF d
  <2>3. NeedsSight(d) => NeedsSight(c)
    BY <2>1 DEF NeedsSight
  <2>4. /\ c.first + c.try <= table.revision + 1
        /\ c.at = "reading" /\ NeedsSight(c) =>
             c.rev \in Nat /\ c.first + c.try <= c.rev + 1 /\ c.rev <= table.revision
    BY <2>1 DEF Tries, IsTried
  <2>5. IsTried(d, table.revision)
    BY <1>0, <2>1, <2>2, <2>3, <2>4 DEF IsTried
  <2>6. QED
    BY <1>1, <2>1, <2>5 DEF Moves
<1>5. ASSUME NEW c \in calls, SightIsStale(c) PROVE Good
  <2>1. c.at = "ready" /\ NeedsSight(c) /\ c.rev # table.revision /\ UNCHANGED <<table, events>>
    BY <1>5, Zenon DEF SightIsStale, Running, Stale
  <2>2. c.rev \in Nat /\ c.first + c.try <= c.rev + 1 /\ c.rev <= table.revision
    BY <2>1 DEF Tries, IsTried
  <2>3. c.first + c.try <= table.revision
    BY <1>0, <2>1, <2>2
  <2>4. CASE c.try < MaxSightTries
    <3> DEFINE n == c.try + 1
               d == [c EXCEPT !.at = "sent", !.try = n]
    <3>1. Moves(c, d) /\ UNCHANGED <<table, events, screens, past>>
      BY <1>5, <2>4, Zenon DEF SightIsStale
    <3>2. d.at = "sent" /\ d.first = c.first /\ d.try = n
      BY <1>0 DEF CallType
    <3> HIDE DEF d
    <3>3. IsTried(d, table.revision)
      BY <1>0, <2>3, <3>2 DEF IsTried
    <3>4. QED
      BY <1>1, <3>1, <3>3 DEF Moves
  <2>5. CASE ~(c.try < MaxSightTries)
    <3> DEFINE n == table.revision - c.first
    <3>1. Fails(c) /\ past' = [past EXCEPT !.aborted = @ \cup {n}]
      BY <1>5, <2>5, Zenon DEF SightIsStale
    <3>2. n >= MaxSightTries
      BY <1>0, <2>3, <2>5, BoundsAssumption
    <3> HIDE DEF n
    <3>3. past'.aborted = past.aborted \cup {n}
      BY <1>0, <3>1 DEF PastType
    <3>4. calls' \subseteq calls /\ table' = table
      BY <2>1, <3>1 DEF Fails
    <3>5. GivenUpAmongChanges'
      BY <3>2, <3>3 DEF GivenUpAmongChanges
    <3>6. QED
      BY <3>4, <3>5 DEF Good, Tries, IsTried, NeedsSight
  <2>6. QED
    BY <2>4, <2>5
<1>6. ASSUME NEW c \in calls, Apply(c) PROVE Good
  <2>1. table'.revision = table.revision + 1
    BY <1>6, AppliedType DEF Apply
  <2> DEFINE d == [c EXCEPT !.at = "done", !.made = table'.revision, !.combat = table'.combat]
  <2>2. d.at = "done" /\ Moves(c, d) /\ past' = past
    BY <1>0, <1>6 DEF Apply, CallType
  <2> HIDE DEF d
  <2>3. QED
    BY <1>1, <2>1, <2>2 DEF Moves, IsTried
<1>7. ASSUME NEW c \in calls, ApplyUnknown(c) PROVE Good
  <2>1. table'.revision = table.revision + 1 /\ Fails(c) /\ past' = past
    BY <1>7, AppliedType DEF ApplyUnknown
  <2>2. QED
    BY <1>1, <2>1 DEF Fails
<1>8. ASSUME NEW c \in calls, Replay(c) PROVE Good
  <2>1. PICK e \in OfKey(c) : Moves(c, [c EXCEPT !.at = "done", !.made = e.revision, !.combat = e.combat])
    BY <1>8 DEF Replay
  <2> DEFINE d == [c EXCEPT !.at = "done", !.made = e.revision, !.combat = e.combat]
  <2>2. d.at = "done" /\ Moves(c, d) /\ UNCHANGED <<table, past>>
    BY <1>0, <1>8, <2>1 DEF Replay, CallType
  <2> HIDE DEF d
  <2>3. QED
    BY <1>1, <2>2 DEF Moves, IsTried
<1>9. ASSUME NEW c \in calls, NothingToDo(c) PROVE Good
  <2> DEFINE d == [c EXCEPT !.at = "nothing"]
  <2>1. d.at = "nothing" /\ Moves(c, d) /\ UNCHANGED <<table, past>>
    BY <1>0, <1>9 DEF NothingToDo, CallType
  <2> HIDE DEF d
  <2>2. QED
    BY <1>1, <2>1 DEF Moves, IsTried
<1>10. ASSUME NEW c \in calls, Tell(c) PROVE Good
  <2> DEFINE d == [c EXCEPT !.at = IF @ = "done" THEN "told" ELSE "nothing told"]
  <2>1. d.at \in {"told", "nothing told"} /\ Moves(c, d) /\ table' = table
    BY <1>0, <1>10 DEF Tell, CallType
  <2>2. past'.aborted = past.aborted
    BY <1>0, <1>10 DEF Tell, PastType
  <2> HIDE DEF d
  <2>3. QED
    BY <1>1, <2>1, <2>2 DEF Moves, IsTried
<1>11. ASSUME NEW c \in calls, Answer(c) PROVE Good
  BY <1>0, <1>2, <1>11 DEF Answer, PastType
<1>12. ASSUME NEW c \in calls, Refused(c) \/ FinishFails(c) PROVE Good
  BY <1>2, <1>12 DEF Refused, FinishFails, Fails
<1>13. ASSUME Crash PROVE Good
  BY <1>0, <1>2, <1>13 DEF Crash, PastType
<1>14. ASSUME EndSession \/ StartSession PROVE Good
  BY <1>0, <1>2, <1>14 DEF EndSession, StartSession, TableType
<1>15. ASSUME NEW s \in Screens, GiveUp(s) PROVE Good
  BY <1>2, <1>15 DEF GiveUp
<1>16. ASSUME UNCHANGED vars PROVE Good
  BY <1>2, <1>16 DEF vars
<1>17. QED
  BY <1>3, <1>4, <1>5, <1>6, <1>7, <1>8, <1>9, <1>10, <1>11, <1>12, <1>13, <1>14, <1>15, <1>16
     DEF Next, People, Server

(* A change given up for a stale sight saw a change of others in every try.*)
THEOREM GivenUpFairly == Spec => []GivenUpAmongChanges
<1>1. Init => Tries /\ GivenUpAmongChanges
  BY DEF Init, Tries, GivenUpAmongChanges
<1>2. QED
  BY Invariance, TriesStep, <1>1, PTL DEF Spec

------------------------------------------------------------------------------
(* The protocol implements ChangesOnce. *)

Told == {[wish |-> Wish(e), at |-> e.revision] : e \in events}

LEMMA StartsKept == Init => Promise!Init
BY DEF Init, Promise!Init

(* Saving a change makes what its tap wants, which was not made yet.       *)
LEMMA AppliedMakes ==
    ASSUME Inv, AppliedOnce', TypeOK', NEW c \in calls, MayApply(c), Applied(c), UNCHANGED past
    PROVE  Promise!Next
<1> DEFINE new == [session |-> table.session, key |-> c.key, by |-> c.by, change |-> c.change, tap |-> c.tap,
                   combat |-> table'.combat, sight |-> c.sight, revision |-> table'.revision]
<1>1. events' = events \cup {new} /\ new.revision = table'.revision
  BY DEF Applied
<1>2. /\ c \in CallType /\ events \subseteq EventType /\ table \in TableType
  BY Types DEF Inv
<1>3. table'.revision = table.revision + 1 /\ table.revision \in Nat
  BY <1>2, AppliedType DEF TableType
<1>4. Wish(new) \in [tap : 1..MaxTaps, session : 1..MaxSessions \cup {None}]
  BY <1>2 DEF Wish, CallType, TableType
<1>5. \A e \in events : e # new
  BY <1>1, <1>3 DEF Inv, EventsInOrder
<1>6. \A e \in events : Wish(e) # Wish(new)
  <2>1. \A e \in events : e.tap = new.tap => e.change = "start" /\ e.session # new.session
    BY <1>1, <1>5 DEF AppliedOnce
  <2>2. \A e \in events : e.session # None
    BY <1>2, BoundsAssumption DEF EventType
  <2>3. QED
    BY <2>1, <2>2 DEF Wish
<1>7. PICK w \in [tap : 1..MaxTaps, session : 1..MaxSessions \cup {None}] : w = Wish(new)
  BY <1>4
<1>8. \A m \in Told : m.wish # w
  BY <1>6, <1>7 DEF Told
<1>9. Told' = Told \cup {[wish |-> w, at |-> table'.revision]}
  BY <1>1, <1>7 DEF Told
<1>10. Promise!Make(w)
  BY <1>3, <1>8, <1>9 DEF Promise!Make, Told
<1>11. QED
  BY <1>10 DEF Promise!Next

(* Telling the streams tells them of changes that were made.               *)
LEMMA TellTells ==
    ASSUME Inv, MadeIsThere', NEW c \in calls, Tell(c)
    PROVE  Promise!Next
<1>1. past \in PastType
  BY Types DEF Inv
<1>2. /\ UNCHANGED <<table, events>> /\ past.told \subseteq past'.told
      /\ past'.answered = past.answered
  BY <1>1 DEF Tell, PastType
<1>3. past'.told \subseteq {e.revision : e \in events}
  BY <1>2 DEF MadeIsThere
<1>4. {e.revision : e \in events} \subseteq Promise!Numbers
  <2>1. \A m \in Told : m.at \in Promise!Numbers
    BY DEF Promise!Numbers, Told
  <2>2. \A e \in events : [wish |-> Wish(e), at |-> e.revision] \in Told
    BY DEF Told
  <2>3. \A e \in events : [wish |-> Wish(e), at |-> e.revision].at = e.revision
    OBVIOUS
  <2>4. \A e \in events : e.revision \in Promise!Numbers
    BY <2>1, <2>2, <2>3
  <2>5. QED
    BY <2>4
<1>5. Promise!Tell
  BY <1>2, <1>3, <1>4 DEF Promise!Tell
<1>6. QED
  BY <1>5 DEF Promise!Next

(* An answer that is heard is about a change the streams were told of.     *)
LEMMA AnswerHears ==
    ASSUME Inv, NEW c \in calls, Answer(c)
    PROVE  Promise!Next \/ UNCHANGED <<table, events, past>>
<1>1. past \in PastType
  BY Types DEF Inv
<1>2. UNCHANGED <<table, events>>
  BY DEF Answer
<1>3. \/ past' = past
      \/ c.at = "told" /\ past' = [past EXCEPT !.answered = @ \cup {c.made}]
  BY DEF Answer
<1>4. ASSUME c.at = "told", past' = [past EXCEPT !.answered = @ \cup {c.made}] PROVE Promise!Next
  <2>1. past'.answered = past.answered \cup {c.made} /\ past'.told = past.told
    BY <1>1, <1>4 DEF PastType
  <2>2. c.made \in past.told
    BY <1>4 DEF Inv, MadeIsThere
  <2>3. Promise!Hear
    BY <1>2, <2>1, <2>2 DEF Promise!Hear
  <2>4. QED
    BY <2>3 DEF Promise!Next
<1>5. QED
  BY <1>2, <1>3, <1>4

(* Every step makes, tells or hears, or is none of their business.         *)
LEMMA StepsKept ==
    Inv /\ Inv' /\ [Next]_vars =>
        [Promise!Next]_<<table.revision, Told, past.told, past.answered>>
<1> DEFINE Kept_ == [Promise!Next]_<<table.revision, Told, past.told, past.answered>>
<1> SUFFICES ASSUME Inv, Inv', [Next]_vars PROVE Kept_
  OBVIOUS
<1>0. past \in PastType /\ table \in TableType
  BY Types DEF Inv
<1>1. ASSUME NEW c \in calls, Apply(c) \/ ApplyUnknown(c) PROVE Kept_
  BY <1>1, AppliedMakes DEF Apply, ApplyUnknown, Inv
<1>2. ASSUME NEW c \in calls, Tell(c) PROVE Kept_
  BY <1>2, TellTells DEF Inv
<1>3. ASSUME UNCHANGED events, table'.revision = table.revision,
             past'.told = past.told, past'.answered = past.answered
      PROVE  Kept_
  BY <1>3 DEF Told
<1>4. ASSUME NEW c \in calls, Answer(c) PROVE Kept_
  BY <1>3, <1>4, AnswerHears
<1>5. ASSUME UNCHANGED <<table, events, past>> PROVE Kept_
  BY <1>3, <1>5
<1>6. ASSUME NEW c \in calls, SightIsStale(c) PROVE Kept_
  <2>1. /\ UNCHANGED <<table, events>>
        /\ past' = past \/ past' = [past EXCEPT !.aborted = @ \cup {table.revision - c.first}]
    BY <1>6, Zenon DEF SightIsStale
  <2>2. past'.told = past.told /\ past'.answered = past.answered
    BY <1>0, <2>1 DEF PastType
  <2>3. QED
    BY <1>3, <2>1, <2>2
<1>7. ASSUME NEW s \in Screens, NEW v \in Changes, GiveUp(s) \/ Tap(s, v) PROVE Kept_
  <2>1. UNCHANGED <<table, events>> /\ past'.told = past.told /\ past'.answered = past.answered
    BY <1>0, <1>7 DEF GiveUp, Tap, PastType
  <2>2. QED
    BY <1>3, <2>1
<1>8. ASSUME Crash PROVE Kept_
  BY <1>0, <1>3, <1>8 DEF Crash, PastType
<1>9. ASSUME EndSession \/ StartSession PROVE Kept_
  BY <1>0, <1>3, <1>9 DEF EndSession, StartSession, TableType
<1>10. ASSUME NEW c \in calls, ReadSight(c) \/ Refused(c) \/ Replay(c) \/ NothingToDo(c) \/ FinishFails(c)
       PROVE  Kept_
  BY <1>5, <1>10 DEF ReadSight, Refused, Replay, NothingToDo, FinishFails
<1>11. QED
  BY <1>1, <1>2, <1>4, <1>5, <1>6, <1>7, <1>8, <1>9, <1>10 DEF Next, People, Server, Changes, vars

(* Keys, locks, retries and replays keep what ChangesOnce promises.        *)
THEOREM PromiseKept == Spec => KeepsThePromise
<1>1. Inv /\ Inv' /\ [Next]_vars =>
        [Promise!Next]_<<table.revision, {[wish |-> Wish(e), at |-> e.revision] : e \in events},
                         past.told, past.answered>>
  BY StepsKept DEF Told
<1>2. QED
  BY StartsKept, <1>1, Invariance, PTL DEF Spec, KeepsThePromise, Promise!Spec
=============================================================================
