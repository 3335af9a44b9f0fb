---------------------------- MODULE CampaignImport ----------------------------
(***************************************************************************)
(* A campaign made from a package: the upload in parts, the creation and   *)
(* the cleaning (backend/internal/campaignpackage), with the page that     *)
(* sends the file (web, campaign-import). One person, whose page sends one *)
(* part at a time; what outlives a crash (the rows and the files of the    *)
(* store), what the server has in hand, and what the page holds are three  *)
(* records, and every step that another request or a crash can come        *)
(* between is an action of its own. Image i of the package lies in part i. *)
(***************************************************************************)
EXTENDS Naturals, FiniteSets

CONSTANTS
    Files,          \* the packages the person has, by their fingerprint
    PartCount,      \* the parts a package goes up in
    None,
    MaxUploads,     \* bound: rows of uploads ever inserted
    MaxCreates,     \* bound: calls of CreateCampaignFromImport
    MaxEnded,       \* bound: times an upload's hour ends or the person cancels one
    MaxTrouble      \* bound: crashes, failures, lost answers, pages closed

ASSUME ImportBounds ==
    /\ PartCount \in Nat \ {0}
    /\ MaxUploads \in Nat /\ MaxCreates \in Nat /\ MaxEnded \in Nat /\ MaxTrouble \in Nat
    /\ None \notin Files

VARIABLES
    disk,       \* what survives: the row of the upload, the campaigns, the files
    server,     \* the requests in hand and the deletions they owe
    page,       \* the page of the person
    past        \* history: the troubles so far, the last row swept, the files left to nobody

vars == <<disk, server, page, past>>

Parts == 1..PartCount
Uploads == 1..MaxUploads
Calls == 1..MaxCreates
Openings == 1..(MaxTrouble + 1)     \* each time the page is opened

PartKey(u, n) == <<"part", u, n>>
ImageKey(c, n) == <<"image", c, n>>

PartsOf(u) == {PartKey(u, n) : n \in Parts}
ImagesOf(c) == {ImageKey(c, n) : n \in Parts}
Keys == (UNION {PartsOf(u) : u \in Uploads}) \cup (UNION {ImagesOf(c) : c \in Calls})

Rows == [id : Uploads, file : Files, recorded : SUBSET Parts, expired : BOOLEAN]
\* The key of a creation: the page's ActionKey gives one key for one upload.
CreateKeys == Openings \X Uploads
KeyFor(p) == <<p.no, p.upload>>

Campaigns == [id : Calls, key : CreateKeys, of : Uploads, wish : Calls, known : BOOLEAN]
Puts == [upload : Uploads, part : Parts, stored : BOOLEAN, awaited : BOOLEAN]
Creations == [id : Calls, key : CreateKeys, of : Uploads, wish : Calls,
              stage : {"look", "check", "stage", "drop"}, wrote : SUBSET Parts]
Passes == [id : Uploads, left : SUBSET Parts]
Sweeps == Passes \cup {None}
Pages == [no : Openings, status : {"choose", "sending", "canceling", "preview", "creating",
                                      "failed", "refused", "done"},
          file : Files \cup {None}, upload : 0..MaxUploads, held : SUBSET Parts,
          sending : 0..PartCount, after : {"preview", "create"},
          call : 0..MaxCreates, wish : 0..MaxCreates]

\* Nothing in the database, and no pass under way, are no row and no pass.
ASSUME NoneIsApart == None \notin Rows /\ None \notin Passes

NewPage(no) ==
    [no |-> no, status |-> "choose", file |-> None, upload |-> 0, held |-> {},
     sending |-> 0, after |-> "preview", call |-> 0, wish |-> 0]

Init ==
    /\ disk = [row |-> None, begun |-> 0, campaigns |-> {}, stored |-> {}]
    /\ server = [puts |-> {}, calls |-> {}, cancels |-> {}, doomed |-> {}, sweep |-> None]
    /\ page = NewPage(1)
    /\ past = [trouble |-> 0, creates |-> 0, ended |-> 0, swept |-> 0,
               forsaken |-> {}, unswept |-> {}]

Trouble ==
    /\ past.trouble < MaxTrouble
    /\ past' = [past EXCEPT !.trouble = @ + 1]

\* ownUpload: the row is there and has not expired.
Own(u) == disk.row # None /\ disk.row.id = u /\ ~disk.row.expired

------------------------------------------------------------------------------
(* The store's deletions. A handler owes them one by one; a failed one is  *)
(* logged and given up on. Past.forsaken has the files a request left to   *)
(* nobody, past.unswept those whose row the sweep took with them there.    *)

Deleted(k) ==
    /\ disk' = [disk EXCEPT !.stored = @ \ {k}]
    /\ past' = [past EXCEPT !.forsaken = @ \ {k}, !.unswept = @ \ {k}]

Forsakes(keys) ==
    /\ past.trouble < MaxTrouble
    /\ past' = [past EXCEPT !.trouble = @ + 1, !.forsaken = @ \cup keys]

Delete(k) ==
    /\ k \in server.doomed
    /\ server' = [server EXCEPT !.doomed = @ \ {k}]
    /\ Deleted(k) \/ (Forsakes({k}) /\ UNCHANGED disk)
    /\ UNCHANGED page

(* The row of an upload goes, and its parts are left where they are.       *)
RowDropped(u) ==
    IF disk.row # None /\ disk.row.id = u THEN [disk EXCEPT !.row = None] ELSE disk
LeftBy(u) ==
    IF disk.row # None /\ disk.row.id = u THEN PartsOf(u) \cap disk.stored ELSE {}

------------------------------------------------------------------------------
(* BeginCampaignImport: the upload of the same file goes on; any other is  *)
(* dropped with its parts and a new one takes its place.                   *)

Resumes(f) == disk.row # None /\ disk.row.file = f /\ ~disk.row.expired

Resume == disk' = [disk EXCEPT !.row.expired = FALSE] /\ UNCHANGED server

TakesThePlace(f) ==
    /\ disk.begun < MaxUploads
    /\ disk' = [disk EXCEPT !.begun = @ + 1,
                    !.row = [id |-> disk.begun + 1, file |-> f, recorded |-> {}, expired |-> FALSE]]
(* Mutant: the parts of the upload it drops are left. *)
ReplaceLeavesParts(f) == TakesThePlace(f) /\ UNCHANGED server
Replace(f) ==
    /\ TakesThePlace(f)
    /\ server' = [server EXCEPT !.doomed =
                    @ \cup (IF disk.row = None THEN {} ELSE PartsOf(disk.row.id))]

BeginImport(f) == IF Resumes(f) THEN Resume ELSE Replace(f)

(* The commit is saved and its answer lost: the parts of the upload it     *)
(* dropped are nobody's.                                                   *)
BeginUnknown(f) ==
    /\ ~Resumes(f) /\ TakesThePlace(f)
    /\ Forsakes(IF disk.row = None THEN {} ELSE LeftBy(disk.row.id))
    /\ UNCHANGED server

(* The page takes the upload the answer names, with the parts the server   *)
(* says it holds; without an answer it shows the failure of the upload.    *)
Begun(f, after) ==
    [page EXCEPT !.status = "sending", !.file = f, !.upload = disk'.row.id, !.after = after,
                 !.held = disk'.row.recorded, !.sending = 0, !.call = 0]
NotBegun(f) ==
    [page EXCEPT !.status = "failed", !.file = f, !.after = "preview", !.held = {},
                 !.sending = 0, !.call = 0]

Send(f, after) ==
    \/ BeginImport(f) /\ page' = Begun(f, after) /\ UNCHANGED past
    \/ BeginImport(f) /\ page' = NotBegun(f) /\ Trouble
    \/ UNCHANGED <<disk, server>> /\ page' = NotBegun(f) /\ Trouble
    \/ BeginUnknown(f) /\ page' = NotBegun(f)

Choose(f) == page.status \in {"choose", "preview", "failed", "refused"} /\ Send(f, "preview")
(* A refusal has no "Tentar de novo": the person picks the same file again. *)
ChooseAgain == page.status = "refused" /\ Choose(page.file)
(* Mutant: the retry goes on with the upload it had, and does not begin again. *)
RetryTheOld ==
    /\ page.status = "failed"
    /\ page' = [page EXCEPT !.status = "sending"]
    /\ UNCHANGED <<disk, server, past>>
Retry == page.status = "failed" /\ Send(page.file, page.after)

------------------------------------------------------------------------------
(* PUT of a part: the check, the file in the store, and the transaction    *)
(* that records it are three moments of the request.                       *)

Missing == Parts \ page.held
NextOf(S) == {n \in S : \A k \in S : n <= k}     \* the least of them

PageFails(p, after) ==
    [p EXCEPT !.status = "failed", !.after = after, !.held = {}, !.sending = 0, !.call = 0]

SendPart ==
    /\ page.status = "sending" /\ page.sending = 0
    /\ \E n \in NextOf(Missing) :
       IF Own(page.upload)
       THEN /\ page' = [page EXCEPT !.sending = n]
            /\ server' = [server EXCEPT !.puts = @ \cup
                 {[upload |-> page.upload, part |-> n, stored |-> FALSE, awaited |-> TRUE]}]
       ELSE page' = PageFails(page, "preview") /\ UNCHANGED server
    /\ UNCHANGED <<disk, past>>

PartStored(q) ==
    /\ ~q.stored
    /\ disk' = [disk EXCEPT !.stored = @ \cup {PartKey(q.upload, q.part)}]
    /\ server' = [server EXCEPT !.puts = (@ \ {q}) \cup {[q EXCEPT !.stored = TRUE]}]
    /\ UNCHANGED <<page, past>>

PartRecorded(q) ==
    /\ q.stored
    /\ IF disk.row # None /\ disk.row.id = q.upload
       THEN /\ disk' = [disk EXCEPT !.row.recorded = @ \cup {q.part}, !.row.expired = FALSE]
            /\ server' = [server EXCEPT !.puts = @ \ {q}]
            /\ page' = IF q.awaited THEN [page EXCEPT !.held = @ \cup {q.part}, !.sending = 0] ELSE page
       ELSE /\ server' = [server EXCEPT !.puts = @ \ {q},
                                        !.doomed = @ \cup {PartKey(q.upload, q.part)}]
            /\ page' = IF q.awaited THEN PageFails(page, "preview") ELSE page
            /\ UNCHANGED disk
    /\ UNCHANGED past

(* The page hears of a part that failed: it sends it again, or shows the   *)
(* failure after the last try.                                             *)
SendsAgain == page' \in {[page EXCEPT !.sending = 0], PageFails(page, "preview")}

(* The store or the transaction fails. Only "no such row" deletes the file: *)
(* after another failure it stays, with its row or, the row gone, without. *)
PartFails(q) ==
    /\ Forsakes(IF q.stored /\ (disk.row = None \/ disk.row.id # q.upload)
                THEN {PartKey(q.upload, q.part)} ELSE {})
    /\ server' = [server EXCEPT !.puts = @ \ {q}]
    /\ IF q.awaited THEN SendsAgain ELSE UNCHANGED page
    /\ UNCHANGED disk

(* The answer is lost: the request goes on and nobody waits for it.        *)
PartAnswerLost(q) ==
    /\ q.awaited
    /\ server' = [server EXCEPT !.puts = (@ \ {q}) \cup {[q EXCEPT !.awaited = FALSE]}]
    /\ SendsAgain /\ Trouble
    /\ UNCHANGED disk

(* The server went away with the request.                                  *)
PartUnanswered ==
    /\ page.sending # 0
    /\ ~\E q \in server.puts : q.awaited
    /\ SendsAgain
    /\ UNCHANGED <<disk, server, past>>

------------------------------------------------------------------------------
(* The page reads the package: a preview changes nothing on the server.    *)
(* The upload may go while it is read; what cannot be read of the parts    *)
(* are problems of the package, and its card has no "Tentar de novo".      *)

PartsRead ==
    IF Own(page.upload) /\ disk.row.recorded # Parts THEN "choose"
    ELSE IF PartsOf(page.upload) \subseteq disk.stored THEN "preview" ELSE "refused"
Shows(card) == page' = [page EXCEPT !.status = card, !.held = {}]

ReadPackage ==
    /\ page.status = "sending" /\ page.sending = 0 /\ Missing = {} /\ page.after = "preview"
    /\ \/ Shows(PartsRead) /\ UNCHANGED past
       \/ ~Own(page.upload) /\ page' = PageFails(page, "preview") /\ UNCHANGED past
       \/ page' = PageFails(page, "preview") /\ Trouble
       \/ Shows("refused") /\ Trouble
    /\ UNCHANGED <<disk, server>>

------------------------------------------------------------------------------
(* CreateCampaignFromImport. "Criar campanha" is a new wish of the person; *)
(* "Tentar de novo" after a failed creation is the same wish again.        *)

Create(wish) ==
    /\ past.creates < MaxCreates
    /\ LET c == past.creates + 1 IN
       /\ past' = [past EXCEPT !.creates = c]
       /\ page' = [page EXCEPT !.status = "creating", !.held = {}, !.call = c, !.wish = wish]
       /\ server' = [server EXCEPT !.calls = @ \cup
            {[id |-> c, key |-> KeyFor(page), of |-> page.upload, wish |-> wish,
              stage |-> "look", wrote |-> {}]}]
    /\ UNCHANGED disk

Tap == page.status = "preview" /\ Create(past.creates + 1)

CreateAgain ==
    /\ page.status = "sending" /\ page.sending = 0 /\ Missing = {} /\ page.after = "create"
    /\ Create(page.wish)

(* Mutant: the file is forgotten and the failure's card stays. *)
MadeOnTheCard(c) == IF page.call # c.id THEN page
                    ELSE [page EXCEPT !.status = "failed", !.file = None, !.upload = 0, !.call = 0]

(* The answer of a call goes to the page that still waits for it.          *)
Made(c) == IF page.call # c.id THEN page
           ELSE [page EXCEPT !.status = "done", !.file = None, !.upload = 0, !.call = 0]
Failed(c) == IF page.call # c.id THEN page ELSE PageFails(page, "create")
Refused(c) == IF page.call # c.id THEN page
              ELSE [page EXCEPT !.status = "refused", !.held = {}, !.call = 0]

Moves(c, e) == server' = [server EXCEPT !.calls = (@ \ {c}) \cup {e}]
Ends(c, keys) == server' = [server EXCEPT !.calls = @ \ {c}, !.doomed = @ \cup keys]

Written(c) == {ImageKey(c.id, n) : n \in c.wrote}
(* Mutant: the campaign does not keep the key it was made with. *)
NeverTaken(key) == FALSE
Taken(key) == \E m \in disk.campaigns : m.key = key

LookForCreated(c) ==
    /\ c.stage = "look"
    /\ IF Taken(c.key)
       THEN Ends(c, {}) /\ page' = Made(c)
       ELSE Moves(c, [c EXCEPT !.stage = "check"]) /\ UNCHANGED page
    /\ UNCHANGED <<disk, past>>

CheckUpload(c) ==
    /\ c.stage = "check"
    /\ IF Own(c.of) /\ disk.row.recorded = Parts
       THEN Moves(c, [c EXCEPT !.stage = "stage"]) /\ UNCHANGED page
       ELSE Ends(c, {}) /\ page' = Failed(c)
    /\ UNCHANGED <<disk, past>>

(* Open and Stage read the parts where they lie and copy the images out of *)
(* them; a part that is not there is a problem of the package.             *)
StageImage(c) ==
    /\ c.stage = "stage"
    /\ \E n \in NextOf(Parts \ c.wrote) :
       IF PartKey(c.of, n) \in disk.stored
       THEN /\ disk' = [disk EXCEPT !.stored = @ \cup {ImageKey(c.id, n)}]
            /\ Moves(c, [c EXCEPT !.wrote = @ \cup {n}])
            /\ UNCHANGED page
       ELSE Ends(c, Written(c)) /\ page' = Refused(c) /\ UNCHANGED disk
    /\ UNCHANGED past

Saved(c, known) ==
    [disk EXCEPT !.campaigns = @ \cup
        {[id |-> c.id, key |-> c.key, of |-> c.of, wish |-> c.wish, known |-> known]}]

(* Mutant: a replayed call deletes the files of the campaign that stands. *)
ApplyCleansTheOther(c) ==
    /\ c.stage = "stage" /\ c.wrote = Parts
    /\ LET e == [c EXCEPT !.stage = "drop"] IN
       IF Taken(c.key)
       THEN /\ server' = [server EXCEPT !.calls = (@ \ {c}) \cup {e},
                 !.doomed = @ \cup Written(c) \cup UNION {ImagesOf(m.id) : m \in {o \in disk.campaigns : o.key = c.key}}]
            /\ UNCHANGED disk
       ELSE disk' = Saved(c, TRUE) /\ Moves(c, e)
    /\ UNCHANGED <<page, past>>

(* The transaction that makes the campaign; a key that already made one    *)
(* ends it (ErrReplayed), and the files of this call are deleted.          *)
Apply(c) ==
    /\ c.stage = "stage" /\ c.wrote = Parts
    /\ LET e == [c EXCEPT !.stage = "drop"] IN
       IF Taken(c.key)
       THEN /\ server' = [server EXCEPT !.calls = (@ \ {c}) \cup {e}, !.doomed = @ \cup Written(c)]
            /\ UNCHANGED disk
       ELSE disk' = Saved(c, TRUE) /\ Moves(c, e)
    /\ UNCHANGED <<page, past>>

(* The connection breaks while committing: saved or not, the call fails    *)
(* and its files are deleted.                                              *)
ApplyUnknown(c) ==
    /\ c.stage = "stage" /\ c.wrote = Parts /\ ~Taken(c.key)
    /\ disk' = Saved(c, FALSE)
    /\ Ends(c, Written(c)) /\ page' = Failed(c) /\ Trouble

(* A database that fails before the campaign is there; a store that fails  *)
(* is a problem of the package.                                            *)
CreationFails(c) ==
    /\ c.stage # "drop"
    /\ Ends(c, Written(c)) /\ Trouble
    /\ page' = Failed(c) \/ (c.stage = "stage" /\ page' = Refused(c))
    /\ UNCHANGED disk

(* dropUpload: the row, then its parts.                                    *)
DropUpload(c) ==
    /\ c.stage = "drop"
    /\ disk' = RowDropped(c.of)
    /\ Ends(c, PartsOf(c.of)) /\ page' = Made(c)
    /\ UNCHANGED past

(* Mutant: the parts are deleted before the row is. *)
DropPartsFirst(c) ==
    /\ c.stage = "drop"
    /\ Ends(c, PartsOf(c.of)) /\ page' = Made(c) /\ Trouble
    /\ UNCHANGED disk

(* The look for the campaign just made fails, and nothing is dropped; or   *)
(* the drop does, saved or not, and is only logged.                        *)
DropFails(c) ==
    /\ c.stage = "drop"
    /\ Ends(c, {})
    /\ \/ page' = Failed(c) /\ Trouble /\ UNCHANGED disk
       \/ page' = Made(c) /\ Trouble /\ UNCHANGED disk
       \/ page' = Made(c) /\ Forsakes(LeftBy(c.of)) /\ disk' = RowDropped(c.of)

CreateUnanswered ==
    /\ page.status = "creating"
    /\ page' = PageFails(page, "create")
    /\ IF \E c \in server.calls : c.id = page.call THEN Trouble ELSE UNCHANGED past
    /\ UNCHANGED <<disk, server>>

------------------------------------------------------------------------------
(* The person gives up, or leaves.                                         *)

NobodyWaits(puts) == {[q EXCEPT !.awaited = FALSE] : q \in puts}
Aborted(puts) == {q \in puts : ~q.awaited}      \* a PUT stopped before its file is whole

(* "Cancelar o envio" stops the part in flight and asks the server to drop *)
(* the upload; the page waits for the answer on the same card.             *)
Cancel ==
    /\ page.status = "sending"
    /\ past.ended < MaxEnded
    /\ past' = [past EXCEPT !.ended = @ + 1]
    /\ page' = [NewPage(page.no) EXCEPT !.status = "canceling", !.upload = page.upload]
    /\ LET Left == {NobodyWaits(server.puts)} \cup
                   (IF \E q \in server.puts : q.awaited /\ ~q.stored
                    THEN {Aborted(server.puts)} ELSE {}) IN
       \E puts \in Left :
          server' = [server EXCEPT !.puts = puts, !.cancels = @ \cup {page.upload}]
    /\ UNCHANGED disk

(* CancelCampaignImport, whenever it arrives: another opening of the page  *)
(* may have resumed the upload by then.                                    *)
CancelDrops(u) ==
    /\ server' = [server EXCEPT !.cancels = @ \ {u},
                                !.doomed = @ \cup (IF Own(u) THEN PartsOf(u) ELSE {})]
    /\ disk' = IF Own(u) THEN RowDropped(u) ELSE disk
    /\ UNCHANGED <<page, past>>

(* It never arrives, or its transaction fails, saved or not.               *)
CancelFails(u) ==
    /\ server' = [server EXCEPT !.cancels = @ \ {u}]
    /\ \/ Trouble /\ UNCHANGED disk
       \/ Own(u) /\ Forsakes(LeftBy(u)) /\ disk' = RowDropped(u)
    /\ UNCHANGED page

CancelAnswered ==
    /\ page.status = "canceling"
    /\ page' = NewPage(page.no)
    /\ IF page.upload \in server.cancels THEN Trouble ELSE UNCHANGED past
    /\ UNCHANGED <<disk, server>>

Close ==
    /\ page' = NewPage(page.no + 1) /\ Trouble
    /\ server' = [server EXCEPT !.puts = NobodyWaits(@)]
    /\ UNCHANGED disk

------------------------------------------------------------------------------
(* Time, the sweep of what expired, and the crash of the server.           *)

Expire ==
    /\ disk.row # None /\ ~disk.row.expired
    /\ past.ended < MaxEnded
    /\ past' = [past EXCEPT !.ended = @ + 1]
    /\ disk' = [disk EXCEPT !.row.expired = TRUE]
    /\ UNCHANGED <<server, page>>

(* The pass lists what expired, deletes the parts and then the row, and    *)
(* does not look again at whether the row is still expired.                *)
SweepStarts ==
    /\ server.sweep = None /\ disk.row # None /\ disk.row.expired
    /\ server' = [server EXCEPT !.sweep = [id |-> disk.row.id, left |-> Parts]]
    /\ past' = [past EXCEPT !.swept = disk.row.id]
    /\ UNCHANGED <<disk, page>>

(* A deletion that fails is logged, and the row goes all the same.         *)
SweepPart ==
    /\ server.sweep # None
    /\ \E n \in NextOf(server.sweep.left) :
       /\ server' = [server EXCEPT !.sweep.left = @ \ {n}]
       /\ Deleted(PartKey(server.sweep.id, n)) \/ (Trouble /\ UNCHANGED disk)
    /\ UNCHANGED page

SweepRow ==
    /\ server.sweep # None /\ server.sweep.left = {}
    /\ LET u == server.sweep.id IN
       \/ /\ disk' = RowDropped(u)
          /\ past' = [past EXCEPT !.unswept = @ \cup LeftBy(u)]
       \/ UNCHANGED disk /\ Trouble
    /\ server' = [server EXCEPT !.sweep = None]
    /\ UNCHANGED page

(* Who has a file in hand: a request that will record it or delete it, or  *)
(* a deletion that is owed.                                                *)
InHand(k) ==
    \/ k \in server.doomed
    \/ \E q \in server.puts : k = PartKey(q.upload, q.part)
    \/ \E c \in server.calls : c.stage = "stage" /\ k \in Written(c)

Crash ==
    /\ Forsakes({k \in disk.stored : InHand(k)})
    /\ server' = [puts |-> {}, calls |-> {}, cancels |-> {}, doomed |-> {}, sweep |-> None]
    /\ UNCHANGED <<disk, page>>

------------------------------------------------------------------------------
PartSteps == \E q \in server.puts : PartStored(q) \/ PartRecorded(q)
CreationSteps ==
    \E c \in server.calls :
        LookForCreated(c) \/ CheckUpload(c) \/ StageImage(c) \/ Apply(c) \/ DropUpload(c)
CancelSteps == \E u \in server.cancels : CancelDrops(u)
PageSteps ==
    \/ SendPart \/ PartUnanswered \/ ReadPackage \/ CreateAgain \/ CreateUnanswered
    \/ CancelAnswered
Sweeps1 == SweepStarts \/ SweepPart \/ SweepRow

Next ==
    \/ \E f \in Files : Choose(f)
    \/ Retry \/ Tap \/ Cancel \/ Close
    \/ PageSteps \/ PartSteps \/ CreationSteps \/ CancelSteps
    \/ \E q \in server.puts : PartFails(q) \/ PartAnswerLost(q)
    \/ \E c \in server.calls : ApplyUnknown(c) \/ CreationFails(c) \/ DropFails(c)
    \/ \E u \in server.cancels : CancelFails(u)
    \/ \E k \in server.doomed : Delete(k)
    \/ Expire \/ Sweeps1 \/ Crash

(* The requests run on, the page's code runs on, and the person keeps on:  *)
(* taps "Criar campanha" on a preview, "Tentar de novo" on a failure, and  *)
(* picks the same file again on a refusal.                                 *)
Fairness ==
    /\ WF_vars(PartSteps) /\ WF_vars(CreationSteps) /\ WF_vars(CancelSteps)
    /\ WF_vars(PageSteps)
    /\ WF_vars(Tap) /\ WF_vars(Retry) /\ WF_vars(ChooseAgain)

Spec == Init /\ [][Next]_vars /\ Fairness

------------------------------------------------------------------------------
(* Properties. *)

(* Every record stays in its range, whatever the order of requests.        *)
TypeOK ==
    /\ disk \in [row : Rows \cup {None}, begun : 0..MaxUploads,
                 campaigns : SUBSET Campaigns, stored : SUBSET Keys]
    /\ server \in [puts : SUBSET Puts, calls : SUBSET Creations,
                   cancels : SUBSET Uploads, doomed : SUBSET Keys, sweep : Sweeps]
    /\ page \in Pages
    /\ past \in [trouble : 0..MaxTrouble, creates : 0..MaxCreates,
                 ended : 0..MaxEnded, swept : 0..MaxUploads,
                 forsaken : SUBSET Keys, unswept : SUBSET Keys]

Named(k) ==
    \/ disk.row # None /\ k \in PartsOf(disk.row.id)
    \/ \E m \in disk.campaigns : k \in ImagesOf(m.id)

(* At any moment each file of the store belongs to the upload's row or to  *)
(* a campaign, or is in the hands of a request, or is one of these:        *)
(* forsaken: the deletion a request owed failed, the server died with the  *)
(* file in a request's hands, the commit that dropped the row was saved    *)
(* without an answer, or the recording of a part failed after its row had  *)
(* gone (http.go:101-119 deletes only on "no such row");                   *)
(* unswept: the sweep took the row while the file was there, because its   *)
(* own deletion had failed (sweep.go:83-84, against sweep.go:36-38) or a   *)
(* part had come behind it.                                                *)
NobodysFile ==
    \A k \in disk.stored :
        Named(k) \/ InHand(k) \/ k \in past.forsaken \/ k \in past.unswept

(* What the record says is there is there: while no sweep has begun on the *)
(* upload, every part it has recorded is in the store, so the page that    *)
(* skips the recorded parts sends a whole package.                         *)
RecordedIsStored ==
    disk.row # None /\ disk.row.id # past.swept =>
        \A n \in disk.row.recorded :
            /\ PartKey(disk.row.id, n) \in disk.stored
            /\ PartKey(disk.row.id, n) \notin server.doomed

(* A campaign whose commit was answered keeps all its files, whoever else  *)
(* creates from the same upload, fails, is replayed or is swept meanwhile. *)
KnownHasItsFiles ==
    \A m \in disk.campaigns :
        m.known => ImagesOf(m.id) \subseteq disk.stored \ server.doomed

(* One wish makes one campaign of an upload, however often it is retried.  *)
OncePerUpload ==
    \A a, b \in disk.campaigns : a.wish = b.wish /\ a.of = b.of => a = b

(* The person who keeps trying gets a campaign: if it is one file, no      *)
(* upload expires and, from some moment on, nothing fails and the person   *)
(* neither cancels, leaves nor chooses before a refusal, a page that holds *)
(* a file ends in "done". "Tentar de novo" alone does not get there: parts *)
(* that an earlier call of the same wish dropped, or a cancel that came    *)
(* late, end in the card of a refused package.                             *)
GivesUp == Cancel \/ Close \/ (page.status # "refused" /\ \E f \in Files : Choose(f))
LeftAlone ==
    /\ \E f \in Files : [](page.file \in {None, f})
    /\ [](disk.row # None => ~disk.row.expired)
    /\ <>[][~GivesUp /\ past'.trouble = past.trouble]_vars
ThePersonGetsThere == LeftAlone => [](page.file # None => <>(page.file = None))

(* The claims of the code that the code does not keep (checked on their own).*)

(* importer.go:115: the files deleted are those of an import that ended    *)
(* without a campaign. Every campaign keeps its files.                     *)
EveryCampaignHasItsFiles == \A m \in disk.campaigns : ImagesOf(m.id) \subseteq disk.stored

(* campaign-import.ts:375: one key per import, "Tentar de novo" after a    *)
(* lost answer is the same creation, and makes one campaign.               *)
OneCampaignPerWish == \A a, b \in disk.campaigns : a.wish = b.wish => a = b
==============================================================================
