# Verification of meuRPG

meuRPG is a virtual tabletop: a Go server (`src/backend`) over PostgreSQL and an
Angular client (`src/web`) with which a master and players run D&D 5e sessions. This directory
keeps TLA+ models of its core — the running combat, from the database to the screen, and the live
stream that carries it — and of the import of a campaign from a package, the TLC configurations that
check them, and TLAPS proofs. All paths below are relative to `src/`.

1. [Inventory](#1-inventory) — the parts of the system, what each must get right
2. [Modules](#2-modules-and-the-code) — which module models which code, and how
3. [Runs](#3-runs) — what TLC checks, on which bounds
4. [Disagreements](#4-where-the-code-and-its-docs-disagree)
5. [Proofs](#5-proofs)
6. [Not modelled](#6-what-is-not-modelled-and-why)
7. [Plan](#7-plan)

## 1. Inventory

The server is one process. Everything that matters is in the database; a change is one
serializable transaction that first locks the campaign's game session, so two changes of one
combat never interleave *inside* a transaction. What interleaves is everything around
it: what was read before it, what is told after it, retries of it, and what each screen makes of
it. Besides the database the server keeps only the in-memory hub of live streams.

| Part | State | Operations | Talks to | Hard | Must hold |
|---|---|---|---|---|---|
| Turn of a combat (`backend/internal/play/combat_turn.go`, `combat_endturn.go`, `combat_setup.go`, `combat_join.go`, `lasting_effects_clock.go`, `combat_reaction_window.go`) | `encounters` (status, round, current), `combatants` (order, initiative, turn_state, defeated) | start, add, roll, reorder, begin, end a part, leave, die, revive, settle | every operation of a combat ends in its settling | long sequences of legal calls; marks that outlive what they were computed from | one total per turn; nobody skipped, nobody twice; a waiting turn waits for something |
| Creatures of a character (`combat_creatures.go`, `creature_cast.go`, `creature_host.go`) | rows that come and go, kept hidden for an undo | cast, end of concentration, dismissal, undo | the turn (they leave and join it) | several rows leave in one call | one total per casting; the gone hold nothing |
| Writing a change (`combat_write.go`, `combat_fog.go`; web `combat-client-base.ts`) | `session_events` with keys, combat revision, keys kept by the screens | write, replay, sight and its retry, finish, publish | the hub; the screens | retries beside slow calls, unknown commits, restarts | applied once; told if answered; made on a fresh sight |
| Combat on screen (web `combat-state.ts`, `combat-calls.ts`, `live-session-loader.ts`, `live-session-events.ts`) | the copy, its revision, reads in the air | reads, answers, hints, events applied in place | the stream, the calls | overlapping reads and answers, late events, reconnection | a settled screen shows the table |
| Live stream (`play/live/hub.go`, `live.go`; web `live-stream.ts`) | subscribers and their buffers | subscribe, publish, drop, replace | all screens | slow readers, replaced streams, restarts | what is lost is healed by the next `ready` |
| Pending damage and reactions (`combat_damage.go`, `combat_reaction_hold.go`, …) | damages, windows and their groups, held actions | roll, land, react, release, replay | turn, undo | replays inside another transaction | a held action goes on exactly once |
| Undo (`combat_undo*.go`) | the session's events | undo the last | everything | a chain broken by any other change | undo restores |
| Lasting effects (`lasting_effects*.go`) | effect rows with durations | give, tick, save, end | turn, damage | clock by combatant | every effect ends once |
| Views and fog (`combat_view.go`, `combat_fog.go`) | none (filters) | read | screens | sight raced by changes | nothing hidden is shown |
| Movement, doors, zones, traps | squares, map | move, open, trigger | effects, damage | geometry | budget not exceeded |
| Session, stage, scenes, table screen | `game_sessions`, stage | open, close, show | all | one open session | at most one open |
| Characters, vitals, progression | sheets, vitals, XP | approve, level up, correct, award, undo | combat (death, revival) | cross-module calls | no XP counted twice |
| Campaigns, invites, claims | memberships | invite, accept, claim | identity | uses raced | a limit is kept |
| Package import (`backend/internal/campaignpackage`; web `pages/campaigns/campaign-import`) | rows of uploads and their parts, the files of the store, the campaign and its key | begin, send a part, preview, create, cancel, sweep | the store of files, the rate limit | rows and files are no one transaction; crashes between; retries after lost answers | only a named failure leaves a file to nobody; a campaign has its files; a wish makes one |
| Package export and its tasks | jobs | export, retry | task queue | retried jobs | one file for one job |
| Maps and image generation | images, slots | generate, cut | outside services | slots raced | a slot has one image |
| Identity | login states, sessions | login, renew, revoke | all | renewal raced | a revoked session stays so |
| Rules engine | none | derive, validate | all | tables | (golden tests) |

`PROJECT.json` lists every part with its sources and status, and the hazards of the code at their
lines with the properties that cover them.

## 2. Modules and the code

```
CombatTurns            the turn of a combat                        (core)
  CombatTurnsProofs    TypeCorrect, TurnIsJoint, for every table
  CombatOrderProofs    OrderIsALine: the order and its groups     EXTENDS CombatTurnsProofs
  CombatRoundProofs    who is in the turn, who had it, what holds it   EXTENDS CombatOrderProofs
  CombatSummons        creatures that come and go in it            EXTENDS CombatTurns
    CombatSummonsProofs  its four properties, for every table      EXTENDS CombatRoundProofs
ChangesOnce            what making a change promises               (abstract)
CombatWrite            one change made once: keys, sight, publish  implements ChangesOnce
  CombatWriteProofs    its invariants and the refinement, for every instance
CombatScreen           one screen that follows the combat
  CombatScreenProofs   its three invariants, for every instance
LiveStream             the hub, the server's stream, the page's reconnection
  LiveStreamProofs     its invariants, for every number of pages and buffer
CampaignImport         a package sent in parts and made a campaign
  CampaignImportProofs its types and its four invariants, for every instance
MC*                    instances for TLC; *.cfg are the runs
```

The modules cut the system where the code does. `CombatTurns` may treat each call as one atomic
step because of the protocol of `CombatWrite` (session lock, one transaction); `CombatScreen` may
treat a change as "the revision goes up by one and finish tells it" for the same reason, and its
stream as a queue that may drop and then starts with `ready` because that is what `LiveStream`
shows of the hub and the reconnection (a live page at rest missed nothing, a page in view is live
again). The import stands alone: it shares no state with the combat.

### CombatTurns

`combat` is the record that the code threads through a call as `combatTx`: the encounter's columns,
the combatants' (a function per column), the open EFFECT_SAVE windows (`saves`: who rolls, and
whether it was asked at the start or the end of a turn or for damage it took), the damages still to land (`damage`:
attacker and target) and those of them that wait for a reaction of the target (`asks`).
An operator such as `StartTurn`, `LeaveTurn` or `PassTheTurn` has the name of its Go
function and takes a record to the *set* of records the function may leave; an action composes them
in the code's order and ends in `Settle`, as `write` ends in `settleChange`. The operations
that are made outside `write` (`ReviveInCombat`, `EndEncounter`, `CreaturesLeaving`) do not settle.

The last four fields are history, written only by `Recorded` and where somebody leaves: `owed` (who was alive when
the round began and has had no turn yet), `had`, `skipped`, `repeated`.

What is abstracted:
- dice and effects: which effect asks a save or hurts at a turn's start or end is a choice
  (`MayAsk`, `MayFall`), limited by `MaxSaves` and `MaxStruck`; hit points are "down or not". Damage that lands may open a
  save (`OnDamage`, phase "damage" here): of an attack (`DamageAsks`), and of an effect on an NPC at the end of the old turn
  and the start of the new one (`MayAsk`). The same damage on a player's character waits for the master with no attacker to
  name, and is not modelled, nor are the windows of concentration, Hellish Rebuke, riders and zones;
- effects whose duration ends close their windows, which is the same step as the answer of the window
  (`RollEffectSave`); other effects ending by a concentration lost are `EffectsEnd`, any subset of the saves;
- who a save's effect belongs to is not kept: the saves of others that close with a caster who leaves
  (`RemoveCombatant`: the settling ends the effects whose actor is gone) are any subset of those open;
- the questions that only *refuse* a call (rage, a hidden combatant's reveal, an
  opportunity attack on offer, a death save due) are not there: a refusal is a stutter. An attack
  made as a reaction is not modelled;
- places are renumbered 0.. by `Ordered` (the code stores the same order with 0.. too);
- the creatures of one casting have one bonus (they are of one stat block in the summoning spells).

### CombatSummons

Adds `last`, what `UndoLastAction` may take back, and the creatures' coming and going: the cast (`SummonCreatures`), the end of the
concentration (`EndConcentration`, rows kept), a dismissal from the sheet (`CreaturesLeaving`), and
both undos. `Dropped` is `dropCombatants`, as a function of how many are gone: creature by creature in the order, the
effects it carried and held end (`EffectsOfLeaver`, any subset of the open saves), it leaves the turn with the list of
combatants read once, before the first (`GoneFrom`), and its row goes (`Gone`: kept hidden, or deleted with the damage that names it). Every other change closes the undo chain, so an undo is only
right after. A cast is modelled only when no creature of the old casting is in the fight and no
damage names one; rows that come back go before or after those they tie with (`side`: their
`created_at`). `CreaturesLeaving` settles nothing, because the characters module makes it outside `write`; a turn that waited
for the save of somebody else, asked by an effect the creature held, goes on only at the next change of the combat. That one
step is `TookASave`, named in `NeverHeldBySummons`. Table spells whose creatures roll apart are left out.

### CombatWrite

| Model | Code |
|---|---|
| `Tap`, `GiveUp`, `screens[s].sending` | `CombatClientBase.keyed`: the key of an unanswered request is used again by the same request |
| `ReadSight`, `Stale`, `SightIsStale` | `sightForWrite`: the combat's revision (`rev`), then in a second read what the players see (`sight`: the revision it shows); `errSightStale`, which compares `rev`; the loop of `write` (at most `MaxSightTries`) |
| `OfKey`, `IsRetry`, `Replay` | `replayOfKey`, `publishRetried` |
| `Apply`, `ApplyUnknown`, `Refused`, `NothingToDo` | the transaction of `write`, a commit whose outcome is lost, an error, no event |
| `Tell`, `FinishFails`, `Answer` | `finish`: read, publish, answer |
| `Crash`, `EndSession`, `StartSession` | a deploy; `EndGameSession` (which ends its combat); `StartGameSession` |

`tap` is a ghost: *what a person wants done*. Somebody who repeats a request with no answer may
mean "again" or may be trying the same thing once more; the model allows both, since the server
cannot tell. A retry of a rolled-back transaction is a stutter. One combat per session at a time,
which only the end of the session ends; the number of the revision doubles as the combat's id. The check of a key's kind and hash is
the equality of `change` and `by`. The writes of a held action inside another
transaction (`writeAmbient`) are not modelled.

`ChangesOnce` is the abstract specification: *making* something wanted (at most once, with the
next number), *telling* the streams of some of what was made, *hearing* an answer about something
told. `Promise` in `CombatWrite` maps to it: `last` is the revision, `made` are the events (each as
the wish of its tap; a start tried again in the next session is a wish of that session), `told` and `heard` the
history of what the streams and the people were told. `Apply` and `ApplyUnknown` are a `Make`, `Tell` a
`Tell`, an `Answer` heard a `Hear`, everything else a stutter.

### CombatScreen

One screen, the master's (its events carry revisions) or a player's (they do not), on a map
without fog. The state of the combat is three versions — revision of the last change of the turn, of
the squares (`place`), of the `rest` — so "the screen is behind" is a comparison. `telling` are the
calls that committed and have not told everything; `stream.queue` is the ordered stream, which
may drop and then starts with `ready`; `screen.reads` are the reads in the air, each with what the
server answered. The tickets of `CombatState` (counters compared when a read answers) are
marks on the reads instead: `disturbed` by an answer or an event since it began, `overtaken` by a
read that began later. `turn_changed` is applied in place or reads again as `combat-state.ts:228-273`
says; `end_turn` publishes turn then hint, other changes of the turn hint then turn, as the callers do.

A change may never be told: `finish` cannot read the combat after the commit, or the commit was saved and its answer lost
(`FinishFails`; `past.lost`). Its own screen gets an error and, for some codes, reads once (`Refused`, which is `refreshAfter`).
A read that fails is tried once more (`ReadFails`, `RetryRead`); the retry, a read in place of a dropped one and the one of
`refreshAfter` are given up when they fail (`ReadIsGivenUp`; `past.gaveUp`).

Abstracted: `finish`'s reads are one snapshot; drop and reconnection are one step, which a snapshot of the session that
fails is too; movement spent is not compared.

### LiveStream

One person's pages and the server's streams for them. `streams` is in the order of the
subscriptions, so "the oldest" of `Hub.Subscribe` is the first; a stream keeps the hub's side (`sub`,
`queue`, `pending`), the server's (`at`, `hand`, `session`) and what the page has not read (`wire`).

| Model | Code |
|---|---|
| `Publish`, `Delivered`, `Removed` | `Hub.Publish`, `deliver` (a pending hint coalesces, a full buffer is `ErrSlow`), `remove` |
| `Subscribe`, `ReadSession` | `WatchGameSession`: subscribe first, read the open session after, `ready` or "no session" |
| `Receive`, `Taken`, `Forward` | `watchLoop` and `forwardWatch`: receive, tell the hub it was taken, send; the end of its session ends the stream |
| `Dropped`, `Lifetime`, `Recheck` | the closed channel, the longest life of a stream, `recheckWatch` |
| `Start`, `Retry`, `Rescheduled`, `Failed` | `connect`, the backoff's timer, `scheduleReconnect`, `failed` (only "no session" is final) |
| `Hear`, `ReadSnapshot`, `SnapshotFails` | `receive`; `readSnapshot` after a `ready`, which reads every panel after it; `snapshotFailed`, which restarts the stream |
| `ReadPanel`, `PanelFails` | a panel read again at a hint (`FogView.read`); when that fails the stream goes on and the panel keeps what it shows (`missed`) |
| `Cut`, `Hide`, `HiddenClose`, `Show` | a connection lost or silent for 60 s; `visibilityChanged` and its timer |
| `Change`, `EndGameSession`, `StartGameSession`, `Restart` | the campaign; a deploy, which loses what was not published |

One hint stands for all the hints that coalesce; other events are queued as the end of the session is.
Heartbeats only feed the dead-stream timer, and that timer is `Cut`. Who may see which event is a
filter and not here. The snapshot's answers that close the page for another reason than the end (no access, signed out, invalid)
are left out. The backoff's length and jitter are left out: it is a step that happens some time after.

### CampaignImport

One person, one page at a time (closed and opened again at any moment), one package among `Files`.
`disk` is what a crash leaves: the upload's row, the campaigns, the keys in the store.
`server` are the requests in hand, each at the moment its last transaction or file operation left
it, and the deletions they owe. `page` is the card of the page. Rows and files are in no common
transaction: that is the difficulty, so every one of them is an action of its own.

| Model | Code |
|---|---|
| `BeginImport`: `Resume`, `Replace`; `BeginUnknown` | `BeginCampaignImport`: the upload of the same fingerprint goes on, any other is dropped; its commit saved and the answer lost |
| `SendPart`, `PartStored`, `PartRecorded` | the PUT of a part: `ownUpload`, the file, the transaction that records it or says the upload is gone |
| `PartFails`, `PartAnswerLost`, `PartUnanswered` | a store or database that fails (the file is deleted only on "no such row"), an answer lost, a server gone |
| `ReadPackage`, `PartsRead`, `Shows` | the preview, which reads the parts: a part that is not there is a problem of the package, on the "refused" card, which has no "Tentar de novo" |
| `Tap`, `CreateAgain`, `LookForCreated`, `CheckUpload`, `StageImage`, `Apply`, `DropUpload` | `CreateCampaignFromImport`: replay by key, the upload's check, `Stage`, the transaction (`ErrReplayed` ends it), `dropUpload` |
| `Made`, `Failed`, `Refused` | the card the answer leads to: done, "Tentar de novo", or the refused package (`HAS_PROBLEMS`) |
| `ApplyUnknown`, `CreationFails`, `DropFails` | the commit whose outcome is unknown; an error before it; a drop that fails, saved or not, and is logged |
| `Choose`, `ChooseAgain`, `Retry`, `Close`, `CreateUnanswered` | the buttons of the page (`ChooseAgain`: the same file picked again after a refusal), and leaving it |
| `Cancel`, `CancelDrops`, `CancelFails`, `CancelAnswered` | "Cancelar o envio" and the request it sends, which may arrive late, when another opening of the page has resumed the upload |
| `Delete`, `Expire`, `SweepStarts`, `SweepPart`, `SweepRow` | deletions owed; the hour; a pass of the sweep, which deletes parts, then the row, without looking again |
| `Crash` | the server stops with everything it had in hand |

History: `past.forsaken` are the files a request left to nobody: its deletion failed and was logged, the server stopped with
them in hand, the commit that dropped their row was saved without an answer, or the recording of a part failed after its row had gone.
`past.unswept` are those that were there when the sweep took the row: their deletion had failed, or they came behind it.
`past.swept` is the last row a sweep began on.
A `wish` is one tap on "Criar campanha"; "Tentar de novo" is the same wish. Image *i* lies in part *i*. Other problems *inside* a
package, the account's cap and the rate limit only refuse, and are left out. So are parts of a wrong length, which the page never
sends: the route stores them over the part that was there and then deletes it, recorded or not (`http.go:95-98`), so a client that
sends one does break what `RecordedIsStored` says. A cancel pressed before the upload's id is known sends nothing, and is left out.

## 3. Runs

| Run | Instance | Properties |
|---|---|---|
| `turn_order` | 2 players, 1 NPC, totals 1..3, a bonus that breaks ties, 3 rounds, 2 saves, 1 damage | TypeOK, GroupsAreRuns, JointTurn, CurrentIsInTurn, NobodySkipped, NobodyTwice, NeverHeldForNothing, WindowsHoldTheTurn |
| `turn_progress` | 2 players, 1 NPC, 2 rounds, under FairSpec | TheRoundComesRound |
| `summons` | a summoner and 2 creatures, 1 save, 1 damage, 2 rounds | GroupsAreRuns, OneTotalForTheCasting, TheGoneHoldNothing, NeverHeldBySummons |
| `write` | 2 people, 3 taps, 3 calls, 2 sessions, 1 restart, with fog | TypeOK, AppliedOnce, AnsweredWasTold, SightIsOfTheChange, GivenUpAmongChanges, KeepsThePromise |
| `screens` | 3 revisions, 2 reads in the air, a call of the screen's own, any finish or retry that fails, 1 drop, restart or failed read | WholeCopyIsCurrent, QuietScreenShowsTheTurn, ReadyHeals |
| `stream` | 1 page, cap 1, buffers of 1, 2 streams at a time, 2 changes, 1 end, 1 trouble | TypeOK, QuietPageIsFresh, EndIsHeard, AgainLive, EndIsKnown |
| `imports` | 1 package in 2 parts, 3 uploads, 3 creations, 1 expiry or cancel, 1 trouble | TypeOK, NobodysFile, RecordedIsStored, KnownHasItsFiles, OncePerUpload, ThePersonGetsThere |
| `turn_leaving`, `summons_round`, `screen_claim`, `import_files`, `import_twice` | as small | one claim of the docs or comments each, which the code breaks (section 4) |

What they show, beyond the sentence each has in `PROJECT.json`:

- The order and its groups survive every sequence of rolls, ties, reorders, reinforcements,
  removals, deaths and revivals: a turn is one group's, the round is never raised over somebody it
  owes a turn, and nobody has two. The exceptions are in the properties themselves: the master's restart of an orphaned
  turn plays the same round again.
- A turn that waits always has an open window to wait for. There are two exceptions, a revival and a creature dismissed
  from the sheet whose effect had asked the save the turn waits for; each is named in its property (`Revival`, `TookASave`), and
  the next change settles it.
- A change is made once per thing wanted, under every overlap of calls, with two narrowly stated exceptions
  (a start tried again in the next session is a start there).
- A turn may start over a save for damage, asked by that very change; it never does over an end-of-turn save, nor over one that
  was open before and was not closed by the call, unless a member leaves or dies.
- The sight a change is stamped with is that of its own revision because the revision is read *first*: read in the other
  order (`SightThenRevision`), a change that lands between the two reads goes unseen.
- A settled screen shows the turn that runs, and a copy that was read or answered whole is the
  combat as it is. What may be behind is named: `lost` (a change whose finish failed or whose commit's answer was lost, which
  nobody told, until some read brings it), `gaveUp` (`COMBAT_REREADS` disturbed reads in a row, or a read that failed
  with no try left), `TurnSetBack`, `PlaceSetBack` (events with no revision
  that arrive late), `crossed` (two reads
  served in the other order than they began: the older copy stays on screen, since revisions of reads are not compared).
- `KeepsThePromise` says the same of the write protocol as one specification: seen from the
  table, changes are made one at a time, and nobody hears "done" of what the streams were not told.
- A hint that was left out because another was waiting is never missed: `pending` is cleared before the
  read that the hint causes can begin. A panel whose read fails is stale until the next hint or `ready`. A page in view does not stay on a dead, replaced or ended stream.
- An import leaves a file to nobody only by one of the failures listed in `NobodysFile` — the failed deletion of the sweep is
  one of them, against its comment (section 4) — and by no order of its requests alone; a
  creation that was answered keeps its images whatever a second call, a replay or the sweep does.
- Who keeps trying ends with a campaign, but not by "Tentar de novo" alone: when an earlier call of the same wish, or a cancel that came late,
  drops the parts under a creation, the answer is the refused package, and the person has to pick the file again. When
  the earlier call had made its campaign, that makes a second one.

### Bounds, and why they are enough

- *Three combatants*: the smallest table in which a group of two has another before or after it, so
  joint turns, wraps and the group "below" all differ. Totals 1..3 let all three be apart, two tie
  or all tie; `MixedBonus` makes both kinds of tie (broken by bonus, left to the master).
- *Three rounds* (two where rounds are not the question): a raise with history before and after.
- *Saves*: two, so that one is answered while another is open. *Damage*: one, since a second
  would hold the same gate.
- *Write*: three calls are a slow call, its retry and somebody else's change between them; two sessions and one restart each
  happen once between any two steps. `MaxSightTries` is 2 instead of the code's 3: the property
  counts the tries themselves.
- *Stream*: the cap, the buffer and the connection's window are 1, so that one more page load, event or message is over
  each of them; the page's own old stream is what its new one replaces. Two changes are a hint under way and the one that
  coalesces with it. `MaxStreams` 2 is the stream the page left and the one it reads. With a second
  page the state is out of reach of a run of some minutes.
- *Import*: two parts are one before and one after any step; three uploads are the one dropped, the one in use
  and the one begun by a retry; three creations are a slow one, its retry and one of another wish. One trouble of
  each kind falls between any two steps, alone; an hour that ends and a cancel share a bound of their own (`MaxEnded`), so one of them
  may come together with the trouble.
- *Screen*: three revisions are the copy's, one applied in place and one hinted; two reads in the
  air cross in both orders. Finishes and second tries of reads fail without a bound. `Rereads` is 1 instead of 3, so that giving up happens.

`CHECK_DEADLOCK FALSE` stands in the configurations of `CombatWrite`, `CombatScreen`, `LiveStream` and
`CampaignImport`: once the bounded taps, changes and troubles are spent, or the page is closed or done, a behaviour has
nothing left to do. In a combat something is always possible (the check is on).

### Fairness

`FairSpec` asks weak fairness of four things: the master ends the part of who acts, dropping its
damage (`EndTurn` accepts the master for anybody); the master starts an orphaned turn again; open
saves are rolled; reactions are answered (the master may roll and answer for anybody).
Nothing else has to happen. These are people's acts, so the property says that *the code never leaves a
table that plays on stuck*; it is not a promise about people. (The run has no damage, so the
fairness of reactions has nothing to do in it.) `TheRoundComesRound` assumes in
its own formula that characters are not revived for ever.

`LiveStream` asks that what the program does by itself happens: a stream's goroutine runs,
a committed event is published, the backoff's timer fires, a message that was sent arrives or the connection is
cut, a read answers or fails. Changes, ends, cuts, restarts and hiding are not asked for. (`EndIsKnown` therefore does not rest on
`Recheck` or `Lifetime`, which are safety nets.)

`CampaignImport` asks that requests run on (a cancel on its way too), that the page's code goes on, and that the person
who sees a preview, a failure or a refusal taps "Criar campanha" or "Tentar de novo", or picks the same file again. `ThePersonGetsThere` states its
premises itself (`LeftAlone`): one file, no upload that expires, and from some moment on nothing fails and nobody gives up. No fairness of
deletions and of the sweep is asked: nothing waits for them.

## 4. Where the code and its docs disagree

Each is a run that TLC shows violated; the quotes are in `PROJECT.json`.

1. `turn_leaving`: when the last acting member of a group leaves or dies, `leaveTurn` starts the next
   turn over an end-of-turn save that is still open.
2. `summons_round`: `dropCombatants` passes the turn with a list read before the first creature
   left, so creatures dismissed in their own turn may pass it twice and raise the round by two.
3. `screen_claim`: `publishEndTurn` tells `turn_changed` before `encounter_changed` with the same
   revision; the master's patched copy claims the revision without the rest of the change.
4. `import_files`: a creation whose commit is reported as unknown deletes the images it wrote, although the campaign
   may have been saved; the retry then finds the campaign by its key and answers that it was made.
5. `import_twice`: the key of a creation is one per *upload*. A creation that worked drops its upload, so after
   a lost answer "Tentar de novo" begins another upload, with another key, and makes a second campaign.

Smaller ones have no run of their own. The sweep "deletes the file
first and the row after, so a failure leaves a row that is tried again, never a file nobody names" (`sweep.go:36-38`): for uploads
(`sweepImports`, `sweep.go:83-84`) a failed deletion is only logged and the row goes all the same; for exports (`deleteExport`) the row does
stay. `NobodysFile` counts such a file apart (`past.unswept`). A commit that drops an upload's row (in a begin, a cancel, or after a creation) and whose
answer is lost leaves that upload's parts to nobody: they are deleted only after a commit that was answered. And
`lasting_effects_save.go:28-30` has the turn wait while a window is open, but a turn starts over the saves that the damage of
the end of the old turn and of its own start opens in that same change: they are answered in the turn that then runs.

Three more are listed as hazards: an NPC at 0 hit points that was acting holds its group's
turn after the last window closes; an older read that answers after a newer one stays on screen; and a revival or a
dismissal from the sheet changes a combat without the settling that "runs after every change of a combat"
(`combat_reaction_window.go:387`).

## 5. Proofs

`CombatTurnsProofs` proves, for every finite set of players, NPCs and creatures, every bonus and every
bound:

- `TypeCorrect == Spec => []TypeOK`. One lemma per operator on records (`OrderedType`,
  `StartTurnType`, `LeaveTurnType`, `SettleType`, `WithoutType`, …), then one per group of actions.
- `TurnIsJoint == Spec => []JointTurn`. `JointTurn` is not inductive: a roll in setup would break the
  total of a member if somebody could be in a turn then, and a combatant who joins would be a
  member at once if marks survived out of the fight. The inductive invariant is
  `TypeOK /\ GoodTurn(combat)`, where `GoodTurn` says that (a) in setup every mark is idle, (b) who has a mark
  is in the fight, (c) members have one total. Lemmas say which operators keep it (`Ordered`, `Closed`,
  `Without`, `Defeat`, `EffectsEnd`: none changes a mark to a new one or a total of a member) and that
  `StartTurn` of any set of fighters with one total establishes it; `NextGroup` gives such a set because it takes those
  of the highest total.

`CombatOrderProofs` proves `OrderIsALine == Spec => []GroupsAreRuns`. The invariant `InLine` says that the places of
fighters are distinct naturals below their number, in an order that falls with the total. `Ordered` establishes it: the place it gives is
the number of those that precede, and `Precedes` is a strict total order of the fighters whenever their
old places are distinct, so a predecessor has strictly fewer predecessors (cardinality of a strict subset). Operators
that move nobody keep it, `Without` and `Joined` are followed by `Ordered`.

`CombatRoundProofs` rests on the two modules before it. Its invariant `Whole` joins `Good` (types and `GoodTurn`), `InLine` and `Sound`, which relates
the marks to the place of the turn and to the round's history: while somebody acts the current combatant is a member, a dead player's
only when nobody else acts (`Named`); whoever the round owes a turn has a lower total than the group that plays, whoever had one has not
(`FairRound`); a start-of-turn save is asked of somebody who acts (`StartsWaitBut`). From it:

- `CurrentStaysInTurn` (`CurrentIsInTurn`), `NobodyIsSkipped` (`NobodySkipped`), `NobodyPlaysTwice` (`NobodyTwice`).
  The last two need the order: that `NextGroup` takes the highest total *below* the group is only "the next one" when
  totals fall with the places.
- `TurnsMoveOn` (`NeverHeldForNothing`) and `WindowsHold` (`WindowsHoldTheTurn`), the two action properties of the turn: one lemma per action. What is
  open as a turn starts was asked by `Started` itself, so its phase is start or damage, and only a call that had just closed the same save can
  have found it open before. The rest of
  the work is `Settle`, which closes what the fallen hold and passes the turn until somebody acts or a window is open.

`CombatSummonsProofs` proves the same module's properties with the creatures in it, for every set of creatures: `CastingPlaysAsOne`
(`OneTotalForTheCasting`), `NobodyGoneIsWaitedFor` (`TheGoneHoldNothing`), `SummonsKeepTheLine` (`GroupsAreRuns`),
`SummonsKeepTheTurnJoint` (`JointTurn`) and `SummonsMoveOn` (`NeverHeldBySummons`). The invariant `Casts` has three parts:

- `Steady`: the record is `Good` and `InLine` as above, and `Fit`. `Fit` says that the creatures in the fight have one total in every
  status and are with their owner, and who is out of it has none (`Casting`: a total left from another fight
  would split a casting that joins); that nothing waits where no combat runs (`Quiet`); and that a turn in which nobody acts but
  dead players waits for no reaction and for no creature's save but a member's (`WaitsOwn`). The last is what makes a dismissal harmless: it can take
  away its own save, which `leaveTurn` answers by passing the turn, but not the one others are waiting for — unless its effects do.
- `Fenced`: who is waited for is in the fight.
- `RowsKept`: rows kept for an undo have one total and distinct places, so that they come back as a line.

An operation is shown once to keep `Steady` and to leave `Fenced` and a turn that moves (`SetupHands`, `TurnsHands`, `HitsHands`, `LeavingHands`). `Dropped`
needs an induction on how many creatures are gone: a predicate `Dropping(x, drop, k, z)` says what record `z` is after the `k` first of
`drop` have left, by their rank in the order, and holds for every `k` because there is no least one for which it
fails (`LeastNumber`). Its heart is `Follows`: in the middle of the call the marks of those who stay are still the ones in the list that was read, or a turn
has just begun, in which every member acts (`Alert`). Either way the stale list, which does raise the round twice (section 4), leaves no turn
that waits for nothing.

`CombatWriteProofs` proves, for every set of screens and every bound:

- `WriteTypes`, `DoneOnce`, `AnswersWereTold`, `OnTheRightSight`: `TypeOK`, `AppliedOnce`, `AnsweredWasTold`
  and `SightIsOfTheChange` are invariants of `Spec`. None of the last three is inductive. The invariant `Inv` adds
  (a) `TapsMeanOne`: whatever carries a tap — an event, a call, a key some screen keeps — carries one
  key, one change and one combat, so two calls for one tap find each other's event;
  (b) `EventsInOrder`: revisions number the events, and what was done in the combat that runs was done in the
  session that is open (else a key of an earlier session would be looked for in the wrong one); the sight of a call is
  at least the revision it read before it (`SightsFollow`), so a revision that still stands makes the sight exact;
  (c) `ActsName` and `MadeIsThere`: a call past its commit names an event that is there, and a call
  that has told has told it. The proof has one lemma for each part, one step per action.
- `GivenUpFairly == Spec => []GivenUpAmongChanges`. A call's tries and the revision it saw are related by
  `Tries`: the first revision it looked at, plus the tries it made after, is at most the revision of its sight, since
  a try is lost only to a change that came between.
- `PromiseKept == Spec => KeepsThePromise`: the initial states map to one of `ChangesOnce`, and each step of
  `Next` from `Inv` to `Inv'` maps to a `Make` (`AppliedMakes`), a `Tell` (`TellTells`), a `Hear`
  (`AnswerHears`) or a stutter. `DoneOnce` is what makes the step a `Make`.

`LiveStreamProofs` proves, for every set of pages, cap, buffer and bound, `StreamTypes` (`TypeOK`), `EndsAreHeard`
(`EndIsHeard`) and `QuietPagesAreFresh` (`QuietPageIsFresh`). Neither property is inductive: a page is at rest only at the end of a
chain (a change told to the hub, a hint in its buffer or coalesced with one, in the goroutine's hand, on the wire, heard, a
panel or snapshot to read, a read whose failure is named). The invariant says of each stream that it is *sane* (what each of its four places may hold
when it is subscribed, cut or replaced) and that, when the page that reads it does not have what is committed, one link of that chain
still holds a hint, a `ready` or a trouble. `Subscribe` first and the session's read after is what makes it true of a new stream.

`CombatScreenProofs` proves, for every number of revisions, reads, drops and rereads, `WholeCopies`
(`WholeCopyIsCurrent`), `QuietScreens` (`QuietScreenShowsTheTurn`) and `ReadyHealsAll` (`ReadyHeals`). The invariant (`ScreenInvariant`) is a
conservation law: every revision of the turn, of the squares and of the rest that the screen needs is, part by part, still to be told,
in the stream, to be read by a read in the air that nothing disturbed, had, or *lost by name* (`lost`: nobody told it and no read has
brought it since; `gaveUp`, `TurnSetBack`, `PlaceSetBack`, `crossed`). One lemma for each of what the server does, an answer, an event and a read's end, and one (`Covered`) for what
a step may leave uncovered.

`CampaignImportProofs` proves, for every set of packages, number of parts and bound, `ImportTypes`
(`TypeOK`), `FilesStay` (`KnownHasItsFiles`), `OneForEach` (`OncePerUpload`), `FilesAreSomebodys` (`NobodysFile`) and
`RecordedStays` (`RecordedIsStored`). The invariant has these parts, each proved with those above it:

- `Steady`, the types with what a card of the page knows (`PageKnows`: a card that sends, previews or creates has
  an upload, one that may retry a creation has its wish) and that one PUT at most is waited for (`OneAwaited`);
- `FilesKept`: calls are told apart by their number (`CallsApart`), and until its transaction a call's images are
  in the store, not to be deleted, and no campaign's (`CallsHaveTheirs`). Without it `KnownHasItsFiles` is not inductive: the images a
  call cleans up could be those of a campaign. A step either leaves images alone (`QuietFiles`), or is one of
  the four moves of a call (`CreateFiles`, `MovedFiles`, `SavedFiles`, `EndedFiles`);
- `WishesApart`: every wish belongs to one opening of the page, the key is that opening with the upload, and a key
  makes one campaign.
- `Accounted`: a file has a row or a campaign that names it, a request or a deletion that has it in hand, or is `forsaken` or
  `unswept`; and a PUT answers only for a file it has stored. The sweep is nobody's hand: what it has not deleted yet is still named by
  its row. A step *hands on* (`HandsOn(E)`) every file but those of a set `E`, for which somebody else has to answer after it: for
  most steps `E` is empty, for a drop it is the parts of the row, for a failure the files it names, for the sweep's row what is left there.
- `UploadsKept`: nothing is kept of an upload not begun; the sweep that runs is the last begun; and nobody — a drop, a cancel, the sweep, a creation that ends —
  has a deletion in hand of the parts of the row that stands. Without the last, `RecordedIsStored` breaks a step later.

Assumptions: `ImportBounds` (there is a part, bounds are naturals, `None` is no package), `NoneIsApart` (the value that stands for "no row"
and "no pass" is neither), `CombatantsAssumption` (the sets are finite and disjoint, the owner is a player, bonuses
are integers), `NoneAssumption` (in `CombatScreen`, `None` is no copy of the combat), `StreamBounds` (a cap and buffers of at least one) and the `BoundsAssumption` of `CombatTurns`, `CombatWrite` and `CombatScreen` (bounds are
naturals, at least one try); TLC evaluates them in every run.

Only model-checked: liveness under fairness (`TheRoundComesRound`, `AgainLive`, `EndIsKnown`, `ThePersonGetsThere`), which is out of
the provers' reach. Every invariant and action property of a passing run is a theorem.

## 6. What is not modelled, and why

Pure functions over data (the rules engine, geometry of sight, movement, templates) have golden tests and no
interleaving. Forms and single-row changes (notes, messages, characters' sheets) have little to
check. Generated code, migrations, the importer and deployment are not behaviour of the
running system. The rest is planned below; `PROJECT.json` says which is which for each part.

## 7. Plan

In order of how much can go wrong that a test would not reach:

1. Proofs: with each component that is added, the same set (types, its invariants, the step to what it promises); the
   lemmas on the order and on settling (`CombatOrderProofs`, `CombatSummonsProofs`) are stated on records, for those that
   compose with the turn to cite.
2. Reactions: groups of windows, held actions, replay, dropped damage; composed with the turn.
   The stale taps of End turn (expected combatant and round).
3. The undo chain over the session's events; death saves.
4. The page's merge of vitals and snapshots; two pages of a person, once `LiveStream` has a smaller state.
5. Durations of lasting effects.
6. Package export and its tasks; slots of the image generation; invites; login and session renewal; XP awards and
   their undo; the rate limit.

Bounds for these stay at two or three actors and one failure of each kind.
