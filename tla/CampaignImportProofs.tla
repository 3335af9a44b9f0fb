------------------------ MODULE CampaignImportProofs ------------------------
(***************************************************************************)
(* Proofs about CampaignImport, for every number of packages, parts,       *)
(* uploads, creations, cancels, expiries and troubles: its types, that a campaign   *)
(* whose commit was answered keeps its files, that one wish makes one      *)
(* campaign of an upload, that no file is left that nobody answers for,    *)
(* and that the parts a row records are in the store.                      *)
(***************************************************************************)
EXTENDS CampaignImport, TLAPS

(* What a card of the page needs: the file and the upload it works on, the *)
(* wish it retries, and a request only while it waits for one.             *)
PageKnows ==
    /\ page.no <= past.trouble + 1
    /\ page.status \in {"sending", "preview", "creating"} => page.upload # 0
    /\ page.status \in {"sending", "preview", "creating", "failed", "refused"} => page.file # None
    /\ page.call # 0 => page.status = "creating"
    /\ page.status = "creating" \/ page.after = "create" => page.wish # 0
    /\ page.sending # 0 => page.status = "sending"

(* The page waits for one PUT at most, the one it sends. *)
OneAwaited ==
    /\ \A q \in server.puts : q.awaited => page.sending # 0
    /\ \A q, r \in server.puts : q.awaited /\ r.awaited => q = r

Steady == TypeOK /\ PageKnows /\ OneAwaited

(* Calls are numbered: who has files in the store is told apart by it.     *)
CallsApart ==
    /\ \A c \in server.calls : c.id <= past.creates
    /\ \A c, d \in server.calls : c.id = d.id => c = d
    /\ \A m \in disk.campaigns : m.id <= past.creates
    /\ \A i \in Calls, n \in Parts : ImageKey(i, n) \in server.doomed => i <= past.creates

(* Until its transaction, what a call wrote is its own and is there.       *)
CallsHaveTheirs ==
    \A c \in server.calls : c.stage # "drop" =>
        /\ \A n \in Parts : ImageKey(c.id, n) \notin server.doomed
        /\ \A m \in disk.campaigns : m.id # c.id
        /\ \A n \in c.wrote : ImageKey(c.id, n) \in disk.stored

FilesKept == CallsApart /\ CallsHaveTheirs /\ KnownHasItsFiles

(* What calls and campaigns are asked for, and under which key.            *)
Asked(x) == [key |-> x.key, of |-> x.of, wish |-> x.wish]
AllAsked == {Asked(m) : m \in disk.campaigns} \cup {Asked(c) : c \in server.calls}

(* A wish is one opening's of the page, which is half of the key; the other *)
(* half is the upload; and a key makes one campaign.                       *)
WishesApart ==
    /\ \A x \in AllAsked : x.key[2] = x.of /\ x.wish <= past.creates
    /\ \A x, y \in AllAsked : x.wish = y.wish => x.key[1] = y.key[1]
    /\ \A x \in AllAsked : x.wish = page.wish => x.key[1] = page.no
    /\ page.wish <= past.creates
    /\ \A a, b \in disk.campaigns : a.key = b.key => a = b

Inv == Steady /\ FilesKept /\ WishesApart

------------------------------------------------------------------------------
(* The keys of the store. *)

LEMMA KeysIn ==
    /\ \A u \in Uploads, n \in Parts : PartKey(u, n) \in Keys
    /\ \A c \in Calls, n \in Parts : ImageKey(c, n) \in Keys
    /\ \A u \in Uploads : PartsOf(u) \subseteq Keys
    /\ \A c \in Calls : ImagesOf(c) \subseteq Keys
<1>1. \A u \in Uploads : PartsOf(u) \subseteq Keys
  BY DEF Keys
<1>2. \A c \in Calls : ImagesOf(c) \subseteq Keys
  BY DEF Keys
<1>3. QED
  BY <1>1, <1>2 DEF PartsOf, ImagesOf

LEMMA KeysApart ==
    /\ \A u, n, c, i : PartKey(u, n) # ImageKey(c, i)
    /\ \A c, n, d, i : ImageKey(c, n) = ImageKey(d, i) => c = d /\ n = i
  BY DEF PartKey, ImageKey

------------------------------------------------------------------------------
(* The types of what a step leaves. *)

DiskType == [row : Rows \cup {None}, begun : 0..MaxUploads,
             campaigns : SUBSET Campaigns, stored : SUBSET Keys]
ServerType == [puts : SUBSET Puts, calls : SUBSET Creations,
               cancels : SUBSET Uploads, doomed : SUBSET Keys, sweep : Sweeps]
PastType == [trouble : 0..MaxTrouble, creates : 0..MaxCreates,
             ended : 0..MaxEnded, swept : 0..MaxUploads,
             forsaken : SUBSET Keys, unswept : SUBSET Keys]

LEMMA TypesAre == TypeOK <=>
    disk \in DiskType /\ server \in ServerType /\ page \in Pages /\ past \in PastType
  BY DEF TypeOK, DiskType, ServerType, PastType

LEMMA TypesAreNext == TypeOK' <=>
    disk' \in DiskType /\ server' \in ServerType /\ page' \in Pages /\ past' \in PastType
  BY DEF TypeOK, DiskType, ServerType, PastType

LEMMA InitSteady == Init => Steady
  BY ImportBounds DEF Init, Steady, TypeOK, PageKnows, OneAwaited, NewPage, Pages, Sweeps, Openings

LEMMA TroubleType == ASSUME past \in PastType, Trouble PROVE past' \in PastType /\ past'.trouble = past.trouble + 1
  BY ImportBounds DEF PastType, Trouble

LEMMA SameOrTrouble == ASSUME past \in PastType, Trouble \/ UNCHANGED past
                       PROVE  past' \in PastType /\ past'.trouble >= past.trouble
  BY ImportBounds DEF PastType, Trouble

LEMMA ZeroIn == 0 \in 0..PartCount /\ 0 \in 0..MaxCreates /\ 0 \in 0..MaxUploads
  BY ImportBounds

LEMMA FailsInPages ==
    ASSUME NEW p \in Pages, NEW after \in {"preview", "create"}
    PROVE  PageFails(p, after) \in Pages
<1>1. \A h \in SUBSET Parts, z \in 0..PartCount, c \in 0..MaxCreates :
        [p EXCEPT !.status = "failed", !.after = after, !.held = h, !.sending = z, !.call = c] \in Pages
  BY DEF Pages
<1>2. QED
  BY <1>1, ZeroIn DEF PageFails

LEMMA BegunInPages ==
    ASSUME NEW p \in Pages, NEW f \in Files, NEW after \in {"preview", "create"},
           NEW u \in 0..MaxUploads, NEW held \in SUBSET Parts
    PROVE  [p EXCEPT !.status = "sending", !.file = f, !.upload = u, !.after = after,
                     !.held = held, !.sending = 0, !.call = 0] \in Pages
<1>1. \A z \in 0..PartCount, c \in 0..MaxCreates :
        [p EXCEPT !.status = "sending", !.file = f, !.upload = u, !.after = after,
                  !.held = held, !.sending = z, !.call = c] \in Pages
  BY DEF Pages
<1>2. QED
  BY <1>1, ZeroIn

LEMMA NotBegunInPages ==
    ASSUME NEW p \in Pages, NEW f \in Files, NEW held \in SUBSET Parts
    PROVE  [p EXCEPT !.status = "failed", !.file = f, !.after = "preview", !.held = held,
                     !.sending = 0, !.call = 0] \in Pages
<1>1. \A z \in 0..PartCount, c \in 0..MaxCreates :
        [p EXCEPT !.status = "failed", !.file = f, !.after = "preview", !.held = held,
                  !.sending = z, !.call = c] \in Pages
  BY DEF Pages
<1>2. QED
  BY <1>1, ZeroIn

LEMMA ForsakenType ==
    ASSUME past \in PastType, NEW keys \in SUBSET Keys, Forsakes(keys)
    PROVE  past' \in PastType /\ past'.trouble = past.trouble + 1
<1>1. past.trouble + 1 \in 0..MaxTrouble
  BY ImportBounds DEF PastType, Forsakes
<1>2. past.forsaken \cup keys \in SUBSET Keys
  BY DEF PastType
<1>3. past' = [past EXCEPT !.trouble = past.trouble + 1, !.forsaken = past.forsaken \cup keys]
  BY DEF Forsakes
<1>4. past' \in PastType /\ past'.trouble = past.trouble + 1
  BY <1>1, <1>2, <1>3 DEF PastType
<1>5. QED
  BY <1>4

LEMMA LeftByType == ASSUME disk \in DiskType, NEW u \in Uploads PROVE LeftBy(u) \in SUBSET Keys
  BY DEF LeftBy, DiskType

LEMMA DroppedType == ASSUME disk \in DiskType, NEW u PROVE RowDropped(u) \in DiskType
  BY DEF RowDropped, DiskType

(* The page that shows a failure knows what it works on. *)
LEMMA FailureKnows ==
    ASSUME Steady, NEW after \in {"preview", "create"}, page.file # None,
           after = "create" => page.wish # 0,
           past' \in PastType, past'.trouble >= past.trouble, page' = PageFails(page, after)
    PROVE  page' \in Pages /\ PageKnows' /\ page'.sending = 0
<1>1. page \in Pages /\ past \in PastType
  BY TypesAre DEF Steady
<1>2. page' \in Pages
  BY <1>1, FailsInPages
<1>3. page'.no = page.no /\ page'.status = "failed" /\ page'.file = page.file /\ page'.call = 0
      /\ page'.after = after /\ page'.sending = 0 /\ page'.wish = page.wish
  BY <1>1 DEF PageFails, Pages
<1>4. page'.no <= past'.trouble + 1
  BY <1>1, <1>3, ImportBounds DEF Steady, PageKnows, Pages, PastType, Openings
<1>5. QED
  BY <1>2, <1>3, <1>4 DEF PageKnows

(* While the page is not sending, nobody waits for a PUT. *)
LEMMA NobodyAwaits == ASSUME Steady, page.sending = 0 PROVE \A q \in server.puts : ~q.awaited
  BY DEF Steady, OneAwaited

------------------------------------------------------------------------------
(* The page begins an upload. *)

LEMMA TakesThePlaceType ==
    ASSUME disk \in DiskType, NEW f \in Files, TakesThePlace(f)
    PROVE  disk' \in DiskType /\ disk'.row \in Rows
<1> DEFINE new == [id |-> disk.begun + 1, file |-> f, recorded |-> {}, expired |-> FALSE]
<1>1. disk.begun < MaxUploads /\ disk' = [disk EXCEPT !.begun = @ + 1, !.row = new]
  BY DEF TakesThePlace
<1>2. new \in Rows
  BY <1>1, ImportBounds DEF DiskType, Rows, Uploads
<1>3. disk.begun + 1 \in 0..MaxUploads
  BY <1>1, ImportBounds DEF DiskType
<1>4. disk' \in DiskType /\ disk'.row = new
  BY <1>1, <1>2, <1>3 DEF DiskType
<1>5. QED
  BY <1>2, <1>4

LEMMA BeginType ==
    ASSUME Steady, NEW f \in Files, BeginImport(f)
    PROVE  disk' \in DiskType /\ disk'.row \in Rows /\ server' \in ServerType
           /\ server'.puts = server.puts
<1>1. disk \in DiskType /\ server \in ServerType
  BY TypesAre DEF Steady
<1>2. CASE Resumes(f)
  <2>1. disk.row \in Rows
    BY <1>1, <1>2 DEF Resumes, DiskType
  <2>2. [disk.row EXCEPT !.expired = FALSE] \in Rows
    BY <2>1 DEF Rows
  <2>3. disk' = [disk EXCEPT !.row = [disk.row EXCEPT !.expired = FALSE]] /\ server' = server
    BY <1>2 DEF BeginImport, Resume
  <2>4. QED
    BY <1>1, <2>2, <2>3 DEF DiskType
<1>3. CASE ~Resumes(f)
  <2> DEFINE gone == IF disk.row = None THEN {} ELSE PartsOf(disk.row.id)
  <2>1. TakesThePlace(f) /\ server' = [server EXCEPT !.doomed = @ \cup gone]
    BY <1>3 DEF BeginImport, Replace
  <2>2. gone \subseteq Keys
    BY <1>1, KeysIn DEF DiskType, Rows
  <2>3. server' \in ServerType /\ server'.puts = server.puts
    BY <1>1, <2>1, <2>2 DEF ServerType
  <2>4. QED
    BY <1>1, <2>1, <2>3, TakesThePlaceType
<1>4. QED
  BY <1>2, <1>3

LEMMA BeginUnknownType ==
    ASSUME disk \in DiskType, server \in ServerType, past \in PastType, NEW f \in Files, BeginUnknown(f)
    PROVE  /\ disk' \in DiskType /\ disk'.row \in Rows /\ server' = server
           /\ past' \in PastType /\ past'.trouble = past.trouble + 1
<1> DEFINE keys == IF disk.row = None THEN {} ELSE LeftBy(disk.row.id)
<1>1. disk.row # None => disk.row.id \in Uploads
  BY DEF DiskType, Rows
<1>2. keys \in SUBSET Keys
  BY <1>1, LeftByType
<1>3. TakesThePlace(f) /\ Forsakes(keys) /\ server' = server
  BY DEF BeginUnknown
<1> HIDE DEF keys
<1>4. QED
  BY <1>2, <1>3, TakesThePlaceType, ForsakenType

LEMMA SendSteady ==
    ASSUME Steady, NEW f \in Files, NEW after \in {"preview", "create"},
           after = "create" => page.wish # 0,
           page.status \in {"choose", "preview", "failed", "refused"}, Send(f, after)
    PROVE  Steady'
<1>1. disk \in DiskType /\ server \in ServerType /\ page \in Pages /\ past \in PastType
  BY TypesAre DEF Steady
<1>2. \A q \in server.puts : ~q.awaited
  BY NobodyAwaits DEF Steady, PageKnows
<1>3. past' \in PastType /\ past'.trouble >= past.trouble
  <2>1. CASE Trouble \/ UNCHANGED past
    BY <1>1, <2>1, SameOrTrouble
  <2>2. CASE BeginUnknown(f)
    <3>1. past' \in PastType /\ past'.trouble = past.trouble + 1
      BY <1>1, <2>2, BeginUnknownType
    <3>2. QED
      BY <1>1, <3>1, ImportBounds DEF PastType
  <2>3. QED
    BY <2>1, <2>2 DEF Send
<1>4. disk' \in DiskType /\ server' \in ServerType /\ server'.puts = server.puts
  BY <1>1, BeginType, BeginUnknownType DEF Send
<1>6. page.no <= past'.trouble + 1
  BY <1>1, <1>3, ImportBounds DEF Steady, PageKnows, Pages, PastType, Openings
<1>7. page' \in Pages /\ PageKnows'
  <2>1. CASE BeginImport(f) /\ page' = Begun(f, after)
    <3>1. disk'.row \in Rows
      BY <2>1, BeginType
    <3>2. disk'.row.id \in Uploads /\ disk'.row.recorded \in SUBSET Parts
      BY <3>1 DEF Rows
    <3>3. disk'.row.id \in 0..MaxUploads /\ disk'.row.id # 0
      BY <3>2, ImportBounds DEF Uploads
    <3>4. page' \in Pages
      BY <1>1, <2>1, <3>2, <3>3, BegunInPages DEF Begun
    <3>5. page'.no = page.no /\ page'.status = "sending" /\ page'.file = f /\ page'.call = 0
          /\ page'.after = after /\ page'.sending = 0 /\ page'.wish = page.wish /\ page'.upload # 0
      BY <1>1, <2>1, <3>3 DEF Begun, Pages
    <3>6. QED
      BY <1>6, <3>4, <3>5, ImportBounds DEF PageKnows
  <2>2. CASE page' = NotBegun(f)
    <3>1. page' \in Pages
      BY <1>1, <2>2, NotBegunInPages DEF NotBegun
    <3>2. page'.no = page.no /\ page'.status = "failed" /\ page'.file = f /\ page'.call = 0
          /\ page'.after = "preview" /\ page'.sending = 0
      BY <1>1, <2>2 DEF NotBegun, Pages
    <3>3. QED
      BY <1>6, <3>1, <3>2, ImportBounds DEF PageKnows
  <2>3. QED
    BY <2>1, <2>2 DEF Send
<1>8. OneAwaited'
  BY <1>2, <1>4 DEF OneAwaited
<1>9. QED
  BY <1>3, <1>4, <1>7, <1>8, TypesAreNext DEF Steady

------------------------------------------------------------------------------
(* What the rest of the steps leave: the page the same, or a failure. *)

LEMMA SameKnows ==
    ASSUME Steady, past' \in PastType, past'.trouble >= past.trouble, page' = page
    PROVE  page' \in Pages /\ PageKnows'
<1>1. page \in Pages /\ past \in PastType
  BY TypesAre DEF Steady
<1>2. page.no <= past'.trouble + 1
  BY <1>1, ImportBounds DEF Steady, PageKnows, Pages, PastType, Openings
<1>3. QED
  BY <1>1, <1>2 DEF Steady, PageKnows

(* A page that sends its part again. *)
LEMMA AgainKnows ==
    ASSUME Steady, past' \in PastType, past'.trouble >= past.trouble, page.status = "sending",
           NEW held \in SUBSET Parts, page' = [page EXCEPT !.held = held, !.sending = 0]
    PROVE  page' \in Pages /\ PageKnows'
<1>1. page \in Pages /\ past \in PastType
  BY TypesAre DEF Steady
<1>2. \A z \in 0..PartCount : [page EXCEPT !.held = held, !.sending = z] \in Pages
  BY <1>1 DEF Pages
<1>3. page' \in Pages
  BY <1>2, ZeroIn
<1>4. page'.no = page.no /\ page'.status = "sending" /\ page'.file = page.file /\ page'.call = page.call
      /\ page'.after = page.after /\ page'.sending = 0 /\ page'.wish = page.wish /\ page'.upload = page.upload
  BY <1>1 DEF Pages
<1>5. page.no <= past'.trouble + 1
  BY <1>1, ImportBounds DEF Steady, PageKnows, Pages, PastType, Openings
<1>6. QED
  BY <1>3, <1>4, <1>5 DEF Steady, PageKnows

LEMMA SendsAgainKnows ==
    ASSUME Steady, past' \in PastType, past'.trouble >= past.trouble, page.sending # 0, SendsAgain
    PROVE  page' \in Pages /\ PageKnows' /\ page'.sending = 0
<1>1. page \in Pages /\ page.status = "sending" /\ page.file # None
  BY TypesAre DEF Steady, PageKnows
<1>2. CASE page' = [page EXCEPT !.sending = 0]
  <2>1. page' = [page EXCEPT !.held = page.held, !.sending = 0] /\ page.held \in SUBSET Parts /\ page'.sending = 0
    BY <1>1, <1>2 DEF Pages
  <2>2. QED
    BY <1>1, <2>1, AgainKnows
<1>3. CASE page' = PageFails(page, "preview")
  BY <1>1, <1>3, FailureKnows
<1>4. QED
  BY <1>2, <1>3 DEF SendsAgain

(* An answer of a creation that worked, and of one that did not. *)
LEMMA MadeKnows ==
    ASSUME Steady, past' \in PastType, past'.trouble >= past.trouble, NEW c \in Creations, page' = Made(c)
    PROVE  page' \in Pages /\ PageKnows' /\ page'.sending = page.sending
<1>1. page \in Pages /\ past \in PastType
  BY TypesAre DEF Steady
<1>2. CASE page.call # c.id
  BY <1>2, SameKnows DEF Made
<1>3. CASE page.call = c.id
  <2>1. page.call # 0 /\ page.status = "creating" /\ page.sending = 0
    BY <1>3, ImportBounds DEF Steady, PageKnows, Creations, Calls
  <2>2. page' = [page EXCEPT !.status = "done", !.file = None, !.upload = 0, !.call = 0]
    BY <1>3 DEF Made
  <2>3. \A u \in 0..MaxUploads, z \in 0..MaxCreates :
          [page EXCEPT !.status = "done", !.file = None, !.upload = u, !.call = z] \in Pages
    BY <1>1 DEF Pages
  <2>4. page' \in Pages
    BY <2>2, <2>3, ZeroIn
  <2>5. page'.no = page.no /\ page'.status = "done" /\ page'.call = 0
        /\ page'.after = page.after /\ page'.sending = page.sending /\ page'.wish = page.wish
    BY <1>1, <2>2 DEF Pages
  <2>6. page.no <= past'.trouble + 1
    BY <1>1, ImportBounds DEF Steady, PageKnows, Pages, PastType, Openings
  <2>7. QED
    BY <2>1, <2>4, <2>5, <2>6 DEF Steady, PageKnows
<1>4. QED
  BY <1>2, <1>3

LEMMA FailedKnows ==
    ASSUME Steady, past' \in PastType, past'.trouble >= past.trouble, NEW c \in Creations, page' = Failed(c)
    PROVE  page' \in Pages /\ PageKnows' /\ page'.sending = page.sending
<1>1. CASE page.call # c.id
  BY <1>1, SameKnows DEF Failed
<1>2. CASE page.call = c.id
  <2>1. page.call # 0 /\ page.status = "creating" /\ page.sending = 0 /\ page.file # None /\ page.wish # 0
    BY <1>2, ImportBounds DEF Steady, PageKnows, Creations, Calls
  <2>2. page' = PageFails(page, "create")
    BY <1>2 DEF Failed
  <2>3. QED
    BY <2>1, <2>2, FailureKnows
<1>3. QED
  BY <1>1, <1>2

LEMMA RefusedKnows ==
    ASSUME Steady, past' \in PastType, past'.trouble >= past.trouble, NEW c \in Creations, page' = Refused(c)
    PROVE  page' \in Pages /\ PageKnows' /\ page'.sending = page.sending
<1>1. page \in Pages /\ past \in PastType
  BY TypesAre DEF Steady
<1>2. CASE page.call # c.id
  BY <1>2, SameKnows DEF Refused
<1>3. CASE page.call = c.id
  <2>1. page.call # 0 /\ page.status = "creating" /\ page.sending = 0 /\ page.file # None /\ page.wish # 0
    BY <1>3, ImportBounds DEF Steady, PageKnows, Creations, Calls
  <2>2. page' = [page EXCEPT !.status = "refused", !.held = {}, !.call = 0]
    BY <1>3 DEF Refused
  <2>3. \A z \in 0..MaxCreates : [page EXCEPT !.status = "refused", !.held = {}, !.call = z] \in Pages
    BY <1>1 DEF Pages
  <2>4. page' \in Pages
    BY <2>2, <2>3, ZeroIn
  <2>5. page'.no = page.no /\ page'.status = "refused" /\ page'.call = 0 /\ page'.file = page.file
        /\ page'.after = page.after /\ page'.sending = page.sending /\ page'.wish = page.wish
    BY <1>1, <2>2 DEF Pages
  <2>6. page.no <= past'.trouble + 1
    BY <1>1, ImportBounds DEF Steady, PageKnows, Pages, PastType, Openings
  <2>7. QED
    BY <2>1, <2>4, <2>5, <2>6 DEF Steady, PageKnows
<1>4. QED
  BY <1>2, <1>3

(* What the page makes of the answer of a call. *)
LEMMA AnswerKnows ==
    ASSUME Steady, past' \in PastType, past'.trouble >= past.trouble, NEW c \in Creations,
           page' \in {page, Made(c), Failed(c), Refused(c)}
    PROVE  page' \in Pages /\ PageKnows' /\ page'.sending = page.sending
  BY SameKnows, MadeKnows, FailedKnows, RefusedKnows

------------------------------------------------------------------------------
(* The requests in hand. *)

LEMMA SteadyParts ==
    ASSUME disk' \in DiskType, server' \in ServerType, past' \in PastType,
           page' \in Pages, PageKnows', OneAwaited'
    PROVE  Steady'
  BY TypesAreNext DEF Steady

LEMMA FewerPuts ==
    ASSUME Steady, server'.puts \subseteq server.puts, page'.sending = page.sending
    PROVE  OneAwaited'
  BY DEF Steady, OneAwaited

LEMMA NoneAwaited ==
    ASSUME \A q \in server'.puts : ~q.awaited PROVE OneAwaited'
  BY DEF OneAwaited

(* The other PUTs, once the one the page waited for has ended. *)
LEMMA OthersAwaited ==
    ASSUME Steady, NEW q \in server.puts, server'.puts = server.puts \ {q},
           q.awaited \/ page'.sending = page.sending
    PROVE  OneAwaited'
  BY DEF Steady, OneAwaited

LEMMA PutTypes ==
    ASSUME NEW q \in Puts
    PROVE  [q EXCEPT !.stored = TRUE] \in Puts /\ [q EXCEPT !.awaited = FALSE] \in Puts
           /\ PartKey(q.upload, q.part) \in Keys
  BY KeysIn DEF Puts

LEMMA SameParts ==
    ASSUME Steady
    PROVE  disk \in DiskType /\ server \in ServerType /\ page \in Pages /\ past \in PastType
           /\ PageKnows /\ OneAwaited /\ past.trouble >= past.trouble
<1>1. past \in PastType
  BY TypesAre DEF Steady
<1>2. past.trouble >= past.trouble
  BY <1>1, ImportBounds DEF PastType
<1>3. QED
  BY <1>2, TypesAre DEF Steady

LEMMA SendPartSteady == ASSUME Steady, SendPart PROVE Steady'
<1>0. disk' \in DiskType /\ past' \in PastType /\ past'.trouble >= past.trouble
  BY SameParts DEF SendPart
<1>1. page.status = "sending" /\ page.sending = 0 /\ page.upload # 0 /\ page.file # None
  BY DEF SendPart, Steady, PageKnows
<1>2. PICK n \in NextOf(Missing) :
        IF Own(page.upload)
        THEN /\ page' = [page EXCEPT !.sending = n]
             /\ server' = [server EXCEPT !.puts = @ \cup
                  {[upload |-> page.upload, part |-> n, stored |-> FALSE, awaited |-> TRUE]}]
        ELSE page' = PageFails(page, "preview") /\ UNCHANGED server
  BY DEF SendPart
<1>3. n \in Parts
  BY DEF NextOf, Missing
<1>4. CASE Own(page.upload)
  <2> DEFINE q == [upload |-> page.upload, part |-> n, stored |-> FALSE, awaited |-> TRUE]
  <2>1. page.upload \in Uploads
    BY <1>1, SameParts, ImportBounds DEF Pages, Uploads
  <2>2. q \in Puts
    BY <1>3, <2>1 DEF Puts
  <2>3. server' \in ServerType /\ server'.puts = server.puts \cup {q}
    <3>1. server' = [server EXCEPT !.puts = server.puts \cup {q}]
      BY <1>2, <1>4
    <3> HIDE DEF q
    <3>2. server \in ServerType
      BY SameParts
    <3>3. QED
      BY <2>2, <3>1, <3>2 DEF ServerType
  <2>4. \A r \in server.puts : ~r.awaited
    BY <1>1, NobodyAwaits
  <2>5. n \in 0..PartCount /\ n # 0
    BY <1>3, ImportBounds DEF Parts
  <2>6. page' = [page EXCEPT !.sending = n]
    BY <1>2, <1>4
  <2>7. page' \in Pages
    <3>1. \A z \in 0..PartCount : [page EXCEPT !.sending = z] \in Pages
      BY SameParts DEF Pages
    <3>2. QED
      BY <2>5, <2>6, <3>1
  <2>8. page'.no = page.no /\ page'.status = page.status /\ page'.file = page.file /\ page'.call = page.call
        /\ page'.after = page.after /\ page'.sending = n /\ page'.wish = page.wish /\ page'.upload = page.upload
    BY <2>6, SameParts DEF Pages
  <2>9. past' = past
    BY DEF SendPart
  <2>10. PageKnows'
    BY <1>1, <2>8, <2>9 DEF Steady, PageKnows
  <2>11. OneAwaited'
    BY <2>3, <2>4, <2>5, <2>8 DEF OneAwaited
  <2>12. QED
    BY <1>0, <2>3, <2>7, <2>10, <2>11, SteadyParts
<1>5. CASE ~Own(page.upload)
  <2>1. page' = PageFails(page, "preview") /\ server' = server
    BY <1>2, <1>5
  <2>2. page' \in Pages /\ PageKnows' /\ page'.sending = 0
    BY <1>0, <1>1, <2>1, FailureKnows
  <2>3. OneAwaited'
    BY <1>1, <2>1, <2>2, FewerPuts
  <2>4. QED
    BY <1>0, <2>1, <2>2, <2>3, SameParts, SteadyParts
<1>6. QED
  BY <1>4, <1>5

LEMMA PartStoredSteady == ASSUME Steady, NEW q \in server.puts, PartStored(q) PROVE Steady'
<1>1. past' \in PastType /\ past'.trouble >= past.trouble /\ page' = page
  BY SameParts DEF PartStored
<1>2. page' \in Pages /\ PageKnows'
  BY <1>1, SameKnows
<1>3. q \in Puts
  BY SameParts DEF ServerType
<1>4. disk' \in DiskType
  BY <1>3, PutTypes, SameParts DEF PartStored, DiskType
<1>5. server' \in ServerType /\ server'.puts = (server.puts \ {q}) \cup {[q EXCEPT !.stored = TRUE]}
  BY <1>3, PutTypes, SameParts DEF PartStored, ServerType
<1>6. [q EXCEPT !.stored = TRUE].awaited = q.awaited
  BY <1>3 DEF Puts
<1>7. OneAwaited'
  BY <1>1, <1>5, <1>6 DEF Steady, OneAwaited
<1>8. QED
  BY <1>1, <1>2, <1>4, <1>5, <1>7, SteadyParts

LEMMA PartRecordedSteady == ASSUME Steady, NEW q \in server.puts, PartRecorded(q) PROVE Steady'
<1>1. past' \in PastType /\ past'.trouble >= past.trouble
  BY SameParts DEF PartRecorded
<1>2. q \in Puts
  BY SameParts DEF ServerType
<1>3. q.awaited => page.sending # 0 /\ page.status = "sending" /\ page.file # None
  BY DEF Steady, OneAwaited, PageKnows
<1>4. CASE disk.row # None /\ disk.row.id = q.upload
  <2>1. disk.row \in Rows
    BY <1>4, SameParts DEF DiskType
  <2>2. q.part \in Parts
    BY <1>2 DEF Puts
  <2>3. [disk.row EXCEPT !.recorded = @ \cup {q.part}, !.expired = FALSE] \in Rows
    BY <2>1, <2>2 DEF Rows
  <2>4. disk' = [disk EXCEPT !.row = [disk.row EXCEPT !.recorded = @ \cup {q.part}, !.expired = FALSE]]
    BY <1>4, SameParts DEF PartRecorded, DiskType
  <2>5. disk' \in DiskType
    BY <2>3, <2>4, SameParts DEF DiskType
  <2>6. server' \in ServerType /\ server'.puts = server.puts \ {q}
    BY <1>4, SameParts DEF PartRecorded, ServerType
  <2>7. CASE q.awaited
    <3>1. page' = [page EXCEPT !.held = page.held \cup {q.part}, !.sending = 0]
      BY <1>4, <2>7 DEF PartRecorded
    <3>2. page.held \cup {q.part} \in SUBSET Parts
      BY <2>2, SameParts DEF Pages
    <3>3. page' \in Pages /\ PageKnows'
      BY <1>1, <1>3, <2>7, <3>1, <3>2, AgainKnows
    <3>4. QED
      BY <1>1, <2>5, <2>6, <2>7, <3>3, OthersAwaited, SteadyParts
  <2>8. CASE ~q.awaited
    <3>1. page' = page
      BY <1>4, <2>8 DEF PartRecorded
    <3>2. page' \in Pages /\ PageKnows'
      BY <1>1, <3>1, SameKnows
    <3>3. QED
      BY <1>1, <2>5, <2>6, <3>1, <3>2, OthersAwaited, SteadyParts
  <2>9. QED
    BY <2>7, <2>8
<1>5. CASE ~(disk.row # None /\ disk.row.id = q.upload)
  <2>1. server' \in ServerType /\ server'.puts = server.puts \ {q} /\ disk' \in DiskType
    BY <1>2, <1>5, PutTypes, SameParts DEF PartRecorded, ServerType
  <2>2. CASE q.awaited
    <3>1. page' = PageFails(page, "preview")
      BY <1>5, <2>2 DEF PartRecorded
    <3>2. page' \in Pages /\ PageKnows'
      BY <1>1, <1>3, <2>2, <3>1, FailureKnows
    <3>3. QED
      BY <1>1, <2>1, <2>2, <3>2, OthersAwaited, SteadyParts
  <2>3. CASE ~q.awaited
    <3>1. page' = page
      BY <1>5, <2>3 DEF PartRecorded
    <3>2. page' \in Pages /\ PageKnows'
      BY <1>1, <3>1, SameKnows
    <3>3. QED
      BY <1>1, <2>1, <3>1, <3>2, OthersAwaited, SteadyParts
  <2>4. QED
    BY <2>2, <2>3
<1>6. QED
  BY <1>4, <1>5

LEMMA PartFailsSteady == ASSUME Steady, NEW q \in server.puts, PartFails(q) PROVE Steady'
<1>1. q \in Puts
  BY SameParts DEF ServerType
<1>2. past' \in PastType /\ past'.trouble = past.trouble + 1
  <2>1. PICK lost \in SUBSET Keys : Forsakes(lost)
    BY <1>1, PutTypes DEF PartFails
  <2>2. QED
    BY <2>1, SameParts, ForsakenType
<1>3. past'.trouble >= past.trouble
  BY <1>2, SameParts, ImportBounds DEF PastType
<1>4. server' \in ServerType /\ server'.puts = server.puts \ {q} /\ disk' \in DiskType
  BY SameParts DEF PartFails, ServerType
<1>5. CASE q.awaited
  <2>1. page.sending # 0 /\ SendsAgain
    BY <1>5 DEF PartFails, Steady, OneAwaited
  <2>2. page' \in Pages /\ PageKnows'
    BY <1>2, <1>3, <2>1, SendsAgainKnows
  <2>3. QED
    BY <1>2, <1>4, <1>5, <2>2, OthersAwaited, SteadyParts
<1>6. CASE ~q.awaited
  <2>1. page' = page
    BY <1>6 DEF PartFails
  <2>2. page' \in Pages /\ PageKnows'
    BY <1>2, <1>3, <2>1, SameKnows
  <2>3. QED
    BY <1>2, <1>4, <2>1, <2>2, OthersAwaited, SteadyParts
<1>7. QED
  BY <1>5, <1>6

LEMMA PartAnswerLostSteady == ASSUME Steady, NEW q \in server.puts, PartAnswerLost(q) PROVE Steady'
<1>1. q \in Puts
  BY SameParts DEF ServerType
<1>2. past' \in PastType /\ past'.trouble >= past.trouble
  BY SameOrTrouble, SameParts DEF PartAnswerLost
<1>3. server' \in ServerType /\ server'.puts = (server.puts \ {q}) \cup {[q EXCEPT !.awaited = FALSE]}
  BY <1>1, PutTypes, SameParts DEF PartAnswerLost, ServerType
<1>4. [q EXCEPT !.awaited = FALSE].awaited = FALSE
  BY <1>1 DEF Puts
<1>5. page.sending # 0
  BY DEF PartAnswerLost, Steady, OneAwaited
<1>6. page' \in Pages /\ PageKnows'
  BY <1>2, <1>5, SendsAgainKnows DEF PartAnswerLost
<1>7. \A r \in server'.puts : ~r.awaited
  BY <1>3, <1>4 DEF PartAnswerLost, Steady, OneAwaited
<1>8. QED
  BY <1>2, <1>3, <1>6, <1>7, NoneAwaited, SameParts, SteadyParts DEF PartAnswerLost

LEMMA PartUnansweredSteady == ASSUME Steady, PartUnanswered PROVE Steady'
<1>1. past' \in PastType /\ past'.trouble >= past.trouble
  BY SameParts DEF PartUnanswered
<1>2. page' \in Pages /\ PageKnows'
  BY <1>1, SendsAgainKnows DEF PartUnanswered
<1>3. \A r \in server'.puts : ~r.awaited
  BY DEF PartUnanswered
<1>4. QED
  BY <1>1, <1>2, <1>3, NoneAwaited, SameParts, SteadyParts DEF PartUnanswered

LEMMA ReadPackageSteady == ASSUME Steady, ReadPackage PROVE Steady'
<1>1. past' \in PastType /\ past'.trouble >= past.trouble
  BY SameOrTrouble, SameParts DEF ReadPackage
<1>2. page.status = "sending" /\ page.sending = 0 /\ page.upload # 0 /\ page.file # None
  BY DEF ReadPackage, Steady, PageKnows
<1>3. page' \in Pages /\ PageKnows' /\ page'.sending = 0
  <2>1. CASE page' = PageFails(page, "preview")
    BY <1>1, <1>2, <2>1, FailureKnows
  <2>2. ASSUME NEW st \in {"preview", "choose", "refused"}, Shows(st)
        PROVE  page' \in Pages /\ PageKnows' /\ page'.sending = 0
    <3>1. page' \in Pages
      BY <2>2, SameParts DEF Shows, Pages
    <3>2. page'.no = page.no /\ page'.status = st /\ page'.file = page.file /\ page'.call = page.call
          /\ page'.after = page.after /\ page'.sending = page.sending /\ page'.wish = page.wish
          /\ page'.upload = page.upload
      BY <2>2, SameParts DEF Shows, Pages
    <3>3. page.no <= past'.trouble + 1
      BY <1>1, SameParts, ImportBounds DEF PageKnows, Pages, PastType, Openings
    <3>4. page.call = 0
      BY <1>2 DEF Steady, PageKnows
    <3>5. QED
      BY <1>2, <3>1, <3>2, <3>3, <3>4 DEF Steady, PageKnows
  <2>3. PartsRead \in {"preview", "choose", "refused"}
    BY DEF PartsRead
  <2>4. QED
    BY <2>1, <2>2, <2>3 DEF ReadPackage
<1>4. OneAwaited'
  BY <1>2, <1>3, FewerPuts DEF ReadPackage
<1>5. QED
  BY <1>1, <1>3, <1>4, SameParts, SteadyParts DEF ReadPackage

------------------------------------------------------------------------------
(* The creation. *)

LEMMA CreateSteady ==
    ASSUME Steady, NEW wish \in Calls, Create(wish),
           page.upload # 0, page.file # None, page.sending = 0
    PROVE  Steady'
<1> DEFINE n == past.creates + 1
<1> DEFINE c == [id |-> n, key |-> KeyFor(page), of |-> page.upload, wish |-> wish, stage |-> "look", wrote |-> {}]
<1>1. past.creates < MaxCreates /\ past' = [past EXCEPT !.creates = n]
      /\ page' = [page EXCEPT !.status = "creating", !.held = {}, !.call = n, !.wish = wish]
      /\ server' = [server EXCEPT !.calls = @ \cup {c}] /\ disk' = disk
  BY DEF Create
<1>2. n \in Calls /\ n \in 0..MaxCreates /\ wish \in Calls /\ wish \in 0..MaxCreates
  BY <1>1, SameParts, ImportBounds DEF PastType, Calls
<1>3. past' \in PastType /\ past'.trouble = past.trouble
  BY <1>1, <1>2, SameParts DEF PastType
<1>4. page.upload \in Uploads /\ page.no \in Openings
  BY SameParts, ImportBounds DEF Pages, Uploads
<1>5. c \in Creations
  BY <1>2, <1>4 DEF Creations, CreateKeys, KeyFor
<1>6. server' \in ServerType /\ server'.puts = server.puts
  BY <1>1, <1>5, SameParts DEF ServerType
<1>7. page' \in Pages
  <2>1. \A m, w \in 0..MaxCreates :
          [page EXCEPT !.status = "creating", !.held = {}, !.call = m, !.wish = w] \in Pages
    BY SameParts DEF Pages
  <2>2. QED
    BY <1>1, <1>2, <2>1
<1>8. page'.no = page.no /\ page'.status = "creating" /\ page'.file = page.file /\ page'.call = n
      /\ page'.sending = 0 /\ page'.wish = wish /\ page'.upload = page.upload
  BY <1>1, SameParts DEF Pages
<1>9. PageKnows'
  BY <1>2, <1>3, <1>8, ImportBounds DEF Steady, PageKnows, Calls
<1>10. OneAwaited'
  BY <1>6, <1>8, FewerPuts
<1>11. QED
  BY <1>1, <1>3, <1>6, <1>7, <1>9, <1>10, SameParts, SteadyParts

LEMMA CreationTypes ==
    ASSUME NEW c \in Creations
    PROVE  /\ \A s \in {"look", "check", "stage", "drop"} : [c EXCEPT !.stage = s] \in Creations
           /\ \A n \in Parts : [c EXCEPT !.wrote = @ \cup {n}] \in Creations
           /\ Written(c) \subseteq Keys /\ PartsOf(c.of) \subseteq Keys
<1>1. \A s \in {"look", "check", "stage", "drop"} : [c EXCEPT !.stage = s] \in Creations
  BY DEF Creations
<1>2. \A n \in Parts : [c EXCEPT !.wrote = @ \cup {n}] \in Creations
  BY DEF Creations
<1>3. Written(c) \subseteq Keys /\ PartsOf(c.of) \subseteq Keys
  BY KeysIn DEF Creations, Written
<1>4. QED
  BY <1>1, <1>2, <1>3

(* A call that moves on, and one that ends. *)
LEMMA MovesTypes ==
    ASSUME Steady, NEW c \in server.calls, NEW e \in Creations, Moves(c, e)
    PROVE  server' \in ServerType /\ server'.puts = server.puts
  BY SameParts DEF Moves, ServerType

LEMMA EndsTypes ==
    ASSUME Steady, NEW c \in server.calls, NEW keys \in SUBSET Keys, Ends(c, keys)
    PROVE  server' \in ServerType /\ server'.puts = server.puts
  BY SameParts DEF Ends, ServerType

LEMMA SavedType == ASSUME Steady, NEW c \in Creations, NEW known \in BOOLEAN PROVE Saved(c, known) \in DiskType
<1>1. [id |-> c.id, key |-> c.key, of |-> c.of, wish |-> c.wish, known |-> known] \in Campaigns
  BY DEF Creations, Campaigns
<1>2. QED
  BY <1>1, SameParts DEF Saved, DiskType

LEMMA CallSteady ==
    ASSUME Steady, NEW c \in server.calls,
           \/ LookForCreated(c) \/ CheckUpload(c) \/ StageImage(c) \/ Apply(c) \/ DropUpload(c)
           \/ ApplyUnknown(c) \/ CreationFails(c) \/ DropFails(c)
    PROVE  Steady'
<1>0. disk \in DiskType /\ past \in PastType /\ page \in Pages /\ PageKnows
  BY SameParts
<1>1. c \in Creations
  BY SameParts DEF ServerType
<1>2. past' \in PastType /\ past'.trouble >= past.trouble
  <2>1. CASE Trouble \/ UNCHANGED past
    BY <1>0, <2>1, SameOrTrouble
  <2>2. CASE Forsakes(LeftBy(c.of))
    <3>1. c.of \in Uploads
      BY <1>1 DEF Creations
    <3>2. past' \in PastType /\ past'.trouble = past.trouble + 1
      BY <1>0, <2>2, <3>1, LeftByType, ForsakenType
    <3>3. QED
      BY <1>0, <3>2, ImportBounds DEF PastType
  <2>3. QED
    BY <2>1, <2>2
       DEF LookForCreated, CheckUpload, StageImage, Apply, DropUpload, ApplyUnknown, CreationFails, DropFails
<1>3. ASSUME page' \in {page, Made(c), Failed(c), Refused(c)}
      PROVE  page' \in Pages /\ PageKnows' /\ page'.sending = page.sending
  BY <1>1, <1>2, <1>3, AnswerKnows
<1>4. page' \in {page, Made(c), Failed(c), Refused(c)}
  BY DEF LookForCreated, CheckUpload, StageImage, Apply, DropUpload, ApplyUnknown, CreationFails, DropFails
<1>5. ASSUME disk' \in DiskType, server' \in ServerType, server'.puts = server.puts PROVE Steady'
  <2>1. OneAwaited'
    BY <1>3, <1>4, <1>5, FewerPuts
  <2>2. QED
    BY <1>2, <1>3, <1>4, <1>5, <2>1, SteadyParts
<1>6. \A s \in {"look", "check", "stage", "drop"} : [c EXCEPT !.stage = s] \in Creations
  BY <1>1, CreationTypes
<1>7. {} \in SUBSET Keys /\ Written(c) \in SUBSET Keys /\ PartsOf(c.of) \in SUBSET Keys
  BY <1>1, CreationTypes
<1>8. CASE LookForCreated(c)
  BY <1>0, <1>5, <1>6, <1>7, <1>8, MovesTypes, EndsTypes DEF LookForCreated
<1>9. CASE CheckUpload(c)
  BY <1>0, <1>5, <1>6, <1>7, <1>9, MovesTypes, EndsTypes DEF CheckUpload
<1>10. CASE StageImage(c)
  <2>1. PICK n \in NextOf(Parts \ c.wrote) :
       IF PartKey(c.of, n) \in disk.stored
       THEN /\ disk' = [disk EXCEPT !.stored = @ \cup {ImageKey(c.id, n)}]
            /\ Moves(c, [c EXCEPT !.wrote = @ \cup {n}])
       ELSE Ends(c, Written(c)) /\ UNCHANGED disk
    BY <1>10 DEF StageImage
  <2>2. n \in Parts
    BY DEF NextOf
  <2>3. ImageKey(c.id, n) \in Keys
    BY <1>1, <2>2, KeysIn DEF Creations
  <2>4. [c EXCEPT !.wrote = @ \cup {n}] \in Creations
    BY <1>1, <2>2, CreationTypes
  <2>5. disk' \in DiskType
    BY <1>0, <2>1, <2>3 DEF DiskType
  <2>6. server' \in ServerType /\ server'.puts = server.puts
    BY <1>7, <2>1, <2>4, MovesTypes, EndsTypes
  <2>7. QED
    BY <1>5, <2>5, <2>6
<1>11. CASE Apply(c)
  <2> DEFINE e == [c EXCEPT !.stage = "drop"]
  <2>1. e \in Creations
    BY <1>6
  <2>2. CASE Taken(c.key)
    <3>1. server' = [server EXCEPT !.calls = (@ \ {c}) \cup {e}, !.doomed = @ \cup Written(c)] /\ disk' = disk
      BY <1>11, <2>2 DEF Apply
    <3> HIDE DEF e
    <3>2. server' \in ServerType /\ server'.puts = server.puts
      BY <1>7, <2>1, <3>1, SameParts DEF ServerType
    <3>3. QED
      BY <1>0, <1>5, <3>1, <3>2
  <2>3. CASE ~Taken(c.key)
    <3>1. disk' = Saved(c, TRUE) /\ Moves(c, e)
      BY <1>11, <2>3 DEF Apply
    <3> HIDE DEF e
    <3>2. QED
      BY <1>1, <1>5, <2>1, <3>1, MovesTypes, SavedType
  <2>4. QED
    BY <2>2, <2>3
<1>12. CASE DropUpload(c)
  BY <1>0, <1>5, <1>7, <1>12, EndsTypes, DroppedType DEF DropUpload
<1>13. CASE ApplyUnknown(c)
  BY <1>1, <1>5, <1>7, <1>13, EndsTypes, SavedType DEF ApplyUnknown
<1>14. CASE CreationFails(c)
  BY <1>0, <1>5, <1>7, <1>14, EndsTypes DEF CreationFails
<1>15. CASE DropFails(c)
  BY <1>0, <1>5, <1>7, <1>15, EndsTypes, DroppedType DEF DropFails
<1>16. QED
  BY <1>8, <1>9, <1>10, <1>11, <1>12, <1>13, <1>14, <1>15

LEMMA CreateUnansweredSteady == ASSUME Steady, CreateUnanswered PROVE Steady'
<1>1. past' \in PastType /\ past'.trouble >= past.trouble
  BY SameOrTrouble, SameParts DEF CreateUnanswered
<1>2. page.status = "creating" /\ page.sending = 0 /\ page.file # None /\ page.wish # 0
  BY DEF CreateUnanswered, Steady, PageKnows
<1>3. page' \in Pages /\ PageKnows' /\ page'.sending = 0
  BY <1>1, <1>2, FailureKnows DEF CreateUnanswered
<1>4. OneAwaited'
  BY <1>2, <1>3, FewerPuts DEF CreateUnanswered
<1>5. QED
  BY <1>1, <1>3, <1>4, SameParts, SteadyParts DEF CreateUnanswered

------------------------------------------------------------------------------
(* The person gives up, or leaves. *)

LEMMA NewPageKnows ==
    ASSUME Steady, past' \in PastType, past'.trouble >= past.trouble,
           NEW no \in Openings, no <= past'.trouble + 1, page' = NewPage(no)
    PROVE  page' \in Pages /\ PageKnows' /\ page'.sending = 0
<1>1. page' \in Pages
  BY ZeroIn DEF NewPage, Pages
<1>2. PageKnows' /\ page'.sending = 0
  BY DEF NewPage, PageKnows
<1>3. QED
  BY <1>1, <1>2

LEMMA SameNo ==
    ASSUME Steady, past' \in PastType, past'.trouble >= past.trouble
    PROVE  page.no \in Openings /\ page.no <= past'.trouble + 1
  BY SameParts, ImportBounds DEF PageKnows, Pages, PastType, Openings

LEMMA NobodyWaitsType ==
    ASSUME Steady
    PROVE  NobodyWaits(server.puts) \subseteq Puts /\ \A q \in NobodyWaits(server.puts) : ~q.awaited
<1>1. server.puts \subseteq Puts
  BY SameParts DEF ServerType
<1>2. \A q \in server.puts : [q EXCEPT !.awaited = FALSE] \in Puts /\ ~[q EXCEPT !.awaited = FALSE].awaited
  BY <1>1, PutTypes DEF Puts
<1>3. QED
  BY <1>2 DEF NobodyWaits

LEMMA EndedType ==
    ASSUME past \in PastType, past.ended < MaxEnded, past' = [past EXCEPT !.ended = @ + 1]
    PROVE  past' \in PastType /\ past'.trouble = past.trouble
<1>1. past.ended + 1 \in 0..MaxEnded
  BY ImportBounds DEF PastType
<1>2. QED
  BY <1>1 DEF PastType

LEMMA CancelSteady == ASSUME Steady, Cancel PROVE Steady'
<1>1. past' \in PastType /\ past'.trouble >= past.trouble
  BY SameParts, EndedType DEF Cancel
<1>2. page.upload \in Uploads
  BY SameParts, ImportBounds DEF Cancel, PageKnows, Pages, Uploads
<1>3. page' = [NewPage(page.no) EXCEPT !.status = "canceling", !.upload = page.upload]
  BY DEF Cancel
<1>4. page' \in Pages /\ PageKnows'
  <2>1. page.no \in Openings /\ page.no <= past'.trouble + 1 /\ page.upload \in 0..MaxUploads
    BY <1>1, SameNo, SameParts DEF Pages
  <2>2. page' \in Pages
    BY <1>3, <2>1, ZeroIn DEF NewPage, Pages
  <2>3. page'.no = page.no /\ page'.status = "canceling" /\ page'.call = 0 /\ page'.after = "preview"
        /\ page'.sending = 0
    BY <1>3 DEF NewPage
  <2>4. QED
    BY <2>1, <2>2, <2>3 DEF PageKnows
<1>5. PICK puts \in {NobodyWaits(server.puts), Aborted(server.puts)} :
          server' = [server EXCEPT !.puts = puts, !.cancels = @ \cup {page.upload}]
  BY DEF Cancel
<1>6. puts \in SUBSET Puts /\ \A q \in puts : ~q.awaited
  BY NobodyWaitsType, SameParts DEF Aborted, ServerType
<1>7. server' \in ServerType /\ server'.puts = puts
  BY <1>2, <1>5, <1>6, SameParts DEF ServerType
<1>8. disk' = disk
  BY DEF Cancel
<1>9. QED
  BY <1>1, <1>4, <1>6, <1>7, <1>8, NoneAwaited, SameParts, SteadyParts

LEMMA CancelAnsweredSteady == ASSUME Steady, CancelAnswered PROVE Steady'
<1>1. past' \in PastType /\ past'.trouble >= past.trouble
  BY SameOrTrouble, SameParts DEF CancelAnswered
<1>2. page' \in Pages /\ PageKnows' /\ page'.sending = 0
  BY <1>1, SameNo, NewPageKnows DEF CancelAnswered
<1>3. page.sending = 0
  BY DEF CancelAnswered, Steady, PageKnows
<1>4. OneAwaited'
  BY <1>2, <1>3, FewerPuts DEF CancelAnswered
<1>5. QED
  BY <1>1, <1>2, <1>4, SameParts, SteadyParts DEF CancelAnswered

LEMMA CloseSteady == ASSUME Steady, Close PROVE Steady'
<1>1. page' \in Pages /\ PageKnows' /\ past' \in PastType
  <2>1. past' \in PastType /\ past'.trouble = past.trouble + 1 /\ past'.trouble <= MaxTrouble
    BY SameParts, TroubleType, ImportBounds DEF Close, Trouble, PastType
  <2>2. past'.trouble >= past.trouble /\ page.no + 1 \in Openings /\ page.no + 1 <= past'.trouble + 1
    BY <2>1, SameParts, ImportBounds DEF PageKnows, Pages, PastType, Openings
  <2>3. QED
    BY <2>1, <2>2, NewPageKnows DEF Close
<1>2. server' = [server EXCEPT !.puts = NobodyWaits(server.puts)] /\ disk' = disk
  BY DEF Close
<1>3. server' \in ServerType /\ server'.puts = NobodyWaits(server.puts)
  BY <1>2, NobodyWaitsType, SameParts DEF ServerType
<1>4. QED
  BY <1>1, <1>2, <1>3, NobodyWaitsType, NoneAwaited, SameParts, SteadyParts

------------------------------------------------------------------------------
(* Time, the deletions, the sweep and the crash: the page and the PUTs that *)
(* are left stay as they were.                                             *)

LEMMA StaysSteady ==
    ASSUME Steady, disk' \in DiskType, server' \in ServerType, past' \in PastType,
           past'.trouble >= past.trouble, server'.puts \subseteq server.puts, page' = page
    PROVE  Steady'
  BY SameKnows, FewerPuts, SteadyParts

(* A cancel that reaches the server, or that does not. *)
LEMMA CancelStepsSteady ==
    ASSUME Steady, NEW u \in server.cancels, CancelDrops(u) \/ CancelFails(u) PROVE Steady'
<1>1. u \in Uploads /\ page' = page
  BY SameParts DEF ServerType, CancelDrops, CancelFails
<1>2. disk' \in DiskType
  BY SameParts, DroppedType DEF CancelDrops, CancelFails
<1>3. server' \in ServerType /\ server'.puts = server.puts
  BY <1>1, KeysIn, SameParts DEF CancelDrops, CancelFails, ServerType
<1>4. past' \in PastType /\ past'.trouble >= past.trouble
  <2>1. CASE Trouble \/ UNCHANGED past
    BY <2>1, SameParts, SameOrTrouble
  <2>2. CASE Forsakes(LeftBy(u))
    <3>1. past' \in PastType /\ past'.trouble = past.trouble + 1
      BY <1>1, <2>2, SameParts, LeftByType, ForsakenType
    <3>2. QED
      BY <3>1, SameParts, ImportBounds DEF PastType
  <2>3. QED
    BY <2>1, <2>2 DEF CancelDrops, CancelFails
<1>5. QED
  BY <1>1, <1>2, <1>3, <1>4, StaysSteady

LEMMA DeletedTypes ==
    ASSUME Steady, NEW k, Deleted(k)
    PROVE  disk' \in DiskType /\ past' \in PastType /\ past'.trouble >= past.trouble
<1>1. past' \in PastType /\ past'.trouble = past.trouble
  BY SameParts DEF Deleted, PastType
<1>2. disk' \in DiskType
  BY SameParts DEF Deleted, DiskType
<1>3. QED
  BY <1>1, <1>2, SameParts

LEMMA DeleteSteady == ASSUME Steady, NEW k, Delete(k) PROVE Steady'
<1>1. k \in Keys /\ server' = [server EXCEPT !.doomed = @ \ {k}] /\ page' = page
  BY SameParts DEF Delete, ServerType
<1>2. disk' \in DiskType /\ past' \in PastType /\ past'.trouble >= past.trouble
  <2>1. CASE Forsakes({k}) /\ UNCHANGED disk
    <3>1. past' \in PastType /\ past'.trouble = past.trouble + 1
      BY <1>1, <2>1, SameParts, ForsakenType
    <3>2. QED
      BY <2>1, <3>1, SameParts, ImportBounds DEF PastType
  <2>2. QED
    BY <2>1, DeletedTypes DEF Delete
<1>3. server' \in ServerType /\ server'.puts = server.puts
  BY <1>1, SameParts DEF ServerType
<1>4. QED
  BY <1>1, <1>2, <1>3, StaysSteady

LEMMA ExpireSteady == ASSUME Steady, Expire PROVE Steady'
<1>1. disk.row \in Rows /\ past.ended < MaxEnded /\ past' = [past EXCEPT !.ended = @ + 1]
      /\ disk' = [disk EXCEPT !.row = [disk.row EXCEPT !.expired = TRUE]] /\ server' = server /\ page' = page
  BY SameParts DEF Expire, DiskType
<1>2. [disk.row EXCEPT !.expired = TRUE] \in Rows
  BY <1>1 DEF Rows
<1>3. disk' \in DiskType
  BY <1>1, <1>2, SameParts DEF DiskType
<1>4. past' \in PastType /\ past'.trouble = past.trouble
  BY <1>1, EndedType, SameParts
<1>5. QED
  BY <1>1, <1>3, <1>4, SameParts, StaysSteady

LEMMA SweepSteady == ASSUME Steady, Sweeps1 PROVE Steady'
<1>1. CASE SweepStarts
  <2>1. disk.row \in Rows /\ disk' = disk /\ page' = page
        /\ server' = [server EXCEPT !.sweep = [id |-> disk.row.id, left |-> Parts]]
        /\ past' = [past EXCEPT !.swept = disk.row.id]
    BY <1>1, SameParts DEF SweepStarts, DiskType
  <2>2. disk.row.id \in Uploads /\ disk.row.id \in 0..MaxUploads
    BY <2>1, ImportBounds DEF Rows, Uploads
  <2>3. [id |-> disk.row.id, left |-> Parts] \in Sweeps
    BY <2>2 DEF Sweeps, Passes
  <2>4. server' \in ServerType /\ server'.puts = server.puts
    BY <2>1, <2>3, SameParts DEF ServerType
  <2>5. past' \in PastType /\ past'.trouble = past.trouble
    BY <2>1, <2>2, SameParts DEF PastType
  <2>6. QED
    BY <2>1, <2>4, <2>5, SameParts, StaysSteady
<1>2. CASE SweepPart
  <2>1. server.sweep \in [id : Uploads, left : SUBSET Parts]
    BY <1>2, SameParts DEF SweepPart, ServerType, Sweeps, Passes
  <2>2. PICK n \in NextOf(server.sweep.left) :
          /\ server' = [server EXCEPT !.sweep.left = @ \ {n}]
          /\ Deleted(PartKey(server.sweep.id, n)) \/ (Trouble /\ UNCHANGED disk)
    BY <1>2 DEF SweepPart
  <2>3. disk' \in DiskType /\ past' \in PastType /\ past'.trouble >= past.trouble
    BY <2>2, DeletedTypes, SameOrTrouble, SameParts
  <2>5. [server.sweep EXCEPT !.left = @ \ {n}] \in Sweeps
    BY <2>1 DEF Sweeps, Passes
  <2>6. server' = [server EXCEPT !.sweep = [server.sweep EXCEPT !.left = @ \ {n}]]
    BY <2>2, SameParts DEF ServerType
  <2>7. server' \in ServerType /\ server'.puts = server.puts
    BY <2>5, <2>6, SameParts DEF ServerType
  <2>8. QED
    BY <1>2, <2>3, <2>7, StaysSteady DEF SweepPart
<1>3. CASE SweepRow
  <2>1. server.sweep \in [id : Uploads, left : SUBSET Parts]
    BY <1>3, SameParts DEF SweepRow, ServerType, Sweeps, Passes
  <2>2. disk' \in DiskType
    BY <1>3, DroppedType, SameParts DEF SweepRow
  <2>3. past' \in PastType /\ past'.trouble >= past.trouble
    <3>1. CASE Trouble
      BY <3>1, SameOrTrouble, SameParts
    <3>2. CASE past' = [past EXCEPT !.unswept = @ \cup LeftBy(server.sweep.id)]
      <4>1. LeftBy(server.sweep.id) \in SUBSET Keys
        BY <2>1, LeftByType, SameParts
      <4>2. past' \in PastType /\ past'.trouble = past.trouble
        BY <3>2, <4>1, SameParts DEF PastType
      <4>3. QED
        BY <4>2, SameParts
    <3>3. QED
      BY <1>3, <3>1, <3>2 DEF SweepRow
  <2>4. server' = [server EXCEPT !.sweep = None] /\ page' = page
    BY <1>3 DEF SweepRow
  <2>5. server' \in ServerType /\ server'.puts = server.puts
    BY <2>4, SameParts DEF ServerType, Sweeps
  <2>6. QED
    BY <2>2, <2>3, <2>4, <2>5, StaysSteady
<1>4. QED
  BY <1>1, <1>2, <1>3 DEF Sweeps1

LEMMA CrashSteady == ASSUME Steady, Crash PROVE Steady'
<1>1. {k \in disk.stored : InHand(k)} \in SUBSET Keys
  BY SameParts DEF DiskType
<1>2. past' \in PastType /\ past'.trouble = past.trouble + 1
  BY <1>1, ForsakenType, SameParts DEF Crash
<1>3. past'.trouble >= past.trouble
  BY <1>2, SameParts, ImportBounds DEF PastType
<1>4. server' \in ServerType /\ server'.puts \subseteq server.puts
  BY DEF Crash, ServerType, Sweeps
<1>5. QED
  BY <1>2, <1>3, <1>4, SameParts, StaysSteady DEF Crash

------------------------------------------------------------------------------
LEMMA SteadyStep == Steady /\ [Next]_vars => Steady'
<1> SUFFICES ASSUME Steady, [Next]_vars PROVE Steady'
  OBVIOUS
<1>1. ASSUME NEW f \in Files, Choose(f) PROVE Steady'
  BY <1>1, SendSteady DEF Choose
<1>2. CASE Retry
  <2>1. page.status = "failed" /\ Send(page.file, page.after) /\ page.file \in Files
        /\ page.after \in {"preview", "create"} /\ (page.after = "create" => page.wish # 0)
    BY <1>2, SameParts DEF Retry, PageKnows, Pages
  <2>2. QED
    BY <2>1, SendSteady
<1>3. CASE Tap
  <2>1. page.upload # 0 /\ page.file # None /\ page.sending = 0
    BY <1>3, SameParts DEF Tap, PageKnows
  <2>2. past.creates + 1 \in Calls
    BY <1>3, SameParts, ImportBounds DEF Tap, Create, PastType, Calls
  <2>3. QED
    BY <1>3, <2>1, <2>2, CreateSteady DEF Tap
<1>4. CASE CreateAgain
  <2>1. page.upload # 0 /\ page.file # None /\ page.sending = 0
    BY <1>4, SameParts DEF CreateAgain, PageKnows
  <2>2. page.wish \in Calls
    BY <1>4, SameParts, ImportBounds DEF CreateAgain, PageKnows, Pages, Calls
  <2>3. QED
    BY <1>4, <2>1, <2>2, CreateSteady DEF CreateAgain
<1>5. CASE Cancel \/ Close \/ CancelAnswered
  BY <1>5, CancelSteady, CloseSteady, CancelAnsweredSteady
<1>6. CASE SendPart \/ PartUnanswered \/ ReadPackage \/ CreateUnanswered
  BY <1>6, SendPartSteady, PartUnansweredSteady, ReadPackageSteady, CreateUnansweredSteady
<1>7. ASSUME NEW q \in server.puts, PartStored(q) \/ PartRecorded(q) \/ PartFails(q) \/ PartAnswerLost(q)
      PROVE  Steady'
  BY <1>7, PartStoredSteady, PartRecordedSteady, PartFailsSteady, PartAnswerLostSteady
<1>8. ASSUME NEW c \in server.calls,
             \/ LookForCreated(c) \/ CheckUpload(c) \/ StageImage(c) \/ Apply(c) \/ DropUpload(c)
             \/ ApplyUnknown(c) \/ CreationFails(c) \/ DropFails(c)
      PROVE  Steady'
  BY <1>8, CallSteady
<1>9. ASSUME NEW k \in server.doomed, Delete(k) PROVE Steady'
  BY <1>9, DeleteSteady
<1>10. CASE Expire \/ Sweeps1 \/ Crash
  BY <1>10, ExpireSteady, SweepSteady, CrashSteady
<1>11. ASSUME NEW u \in server.cancels, CancelDrops(u) \/ CancelFails(u) PROVE Steady'
  BY <1>11, CancelStepsSteady
<1>12. CASE UNCHANGED vars
  BY <1>12 DEF vars, Steady, TypeOK, PageKnows, OneAwaited
<1>13. QED
  BY <1>1, <1>2, <1>3, <1>4, <1>5, <1>6, <1>7, <1>8, <1>9, <1>10, <1>11, <1>12
     DEF Next, PageSteps, PartSteps, CreationSteps, CancelSteps

------------------------------------------------------------------------------
(* The files of the campaigns. *)

(* A step that takes no image and dooms none. *)
ImagesStay == \A i \in Calls, n \in Parts :
    /\ ImageKey(i, n) \in server'.doomed => ImageKey(i, n) \in server.doomed
    /\ ImageKey(i, n) \in disk.stored \ server.doomed => ImageKey(i, n) \in disk'.stored

LEMMA KnownMeans ==
    KnownHasItsFiles <=> \A m \in disk.campaigns : m.known =>
        \A n \in Parts : ImageKey(m.id, n) \in disk.stored /\ ImageKey(m.id, n) \notin server.doomed
  BY DEF KnownHasItsFiles, ImagesOf

LEMMA KnownMeansNext ==
    KnownHasItsFiles' <=> \A m \in disk'.campaigns : m.known =>
        \A n \in Parts : ImageKey(m.id, n) \in disk'.stored /\ ImageKey(m.id, n) \notin server'.doomed
  BY DEF KnownHasItsFiles, ImagesOf

LEMMA NumbersAre ==
    ASSUME Steady
    PROVE  /\ past.creates \in 0..MaxCreates
           /\ \A c \in server.calls : c \in Creations /\ c.id \in Calls /\ c.wish \in Calls /\ c.wrote \subseteq Parts
           /\ \A m \in disk.campaigns : m \in Campaigns /\ m.id \in Calls /\ m.wish \in Calls
<1>1. server.calls \subseteq Creations /\ disk.campaigns \subseteq Campaigns
  BY SameParts DEF ServerType, DiskType
<1>2. \A c \in server.calls : c.id \in Calls /\ c.wish \in Calls /\ c.wrote \subseteq Parts
  BY <1>1 DEF Creations
<1>3. \A m \in disk.campaigns : m.id \in Calls /\ m.wish \in Calls
  BY <1>1 DEF Campaigns
<1>4. QED
  BY <1>1, <1>2, <1>3, SameParts DEF PastType

LEMMA QuietFiles ==
    ASSUME Steady, FilesKept, ImagesStay, server'.calls \subseteq server.calls,
           disk'.campaigns = disk.campaigns, past'.creates = past.creates
    PROVE  FilesKept'
<1>1. CallsApart'
  BY NumbersAre DEF FilesKept, CallsApart, ImagesStay
<1>2. CallsHaveTheirs'
  <2> SUFFICES ASSUME NEW c \in server'.calls, c.stage # "drop"
               PROVE  /\ \A n \in Parts : ImageKey(c.id, n) \notin server'.doomed
                      /\ \A m \in disk'.campaigns : m.id # c.id
                      /\ \A n \in c.wrote : ImageKey(c.id, n) \in disk'.stored
    BY DEF CallsHaveTheirs
  <2>1. c \in server.calls /\ c.id \in Calls /\ c.wrote \subseteq Parts
    BY NumbersAre
  <2>2. QED
    BY <2>1 DEF FilesKept, CallsHaveTheirs, ImagesStay
<1>3. KnownHasItsFiles'
  BY NumbersAre, KnownMeans, KnownMeansNext DEF FilesKept, ImagesStay
<1>4. QED
  BY <1>1, <1>2, <1>3 DEF FilesKept

(* The keys of parts are none of these. *)
LEMMA PartsOnly ==
    ASSUME NEW u
    PROVE  \A i \in Calls, n \in Parts : ImageKey(i, n) \notin PartsOf(u)
  BY KeysApart DEF PartsOf

LEMMA CreateFiles ==
    ASSUME Steady, FilesKept, NEW wish, Create(wish) PROVE FilesKept'
<1> DEFINE n == past.creates + 1
<1> DEFINE c == [id |-> n, key |-> KeyFor(page), of |-> page.upload, wish |-> wish, stage |-> "look", wrote |-> {}]
<1>1. past'.creates = n /\ server'.calls = server.calls \cup {c} /\ server'.doomed = server.doomed
      /\ disk' = disk
  BY SameParts DEF Create, ServerType, PastType
<1>2. c.id = n /\ c.wrote = {} /\ c.stage = "look"
  OBVIOUS
<1>3. n \in Calls /\ past.creates \in Nat
  BY NumbersAre, ImportBounds DEF Create, Calls
<1>4. /\ \A d \in server.calls : d.id \in Nat /\ d.id <= past.creates
      /\ \A m \in disk.campaigns : m.id \in Nat /\ m.id <= past.creates
      /\ \A i \in Calls : i \in Nat
  BY NumbersAre, ImportBounds DEF FilesKept, CallsApart, Calls
<1> HIDE DEF c
<1>5. CallsApart'
  BY <1>1, <1>2, <1>3, <1>4 DEF FilesKept, CallsApart
<1>6. \A i \in Parts : ImageKey(n, i) \notin server.doomed
  BY <1>3 DEF FilesKept, CallsApart
<1>7. \A m \in disk.campaigns : m.id # n
  BY <1>3, <1>4
<1>8. CallsHaveTheirs'
  BY <1>1, <1>2, <1>6, <1>7 DEF FilesKept, CallsHaveTheirs
<1>9. KnownHasItsFiles'
  BY <1>1, KnownMeans, KnownMeansNext DEF FilesKept
<1>10. QED
  BY <1>5, <1>8, <1>9 DEF FilesKept

(* A call takes its next step: other calls keep their files. *)
LEMMA MovedApart ==
    ASSUME Steady, FilesKept, NEW c \in server.calls, NEW e, e.id = c.id,
           server'.calls \subseteq (server.calls \ {c}) \cup {e},
           \A m \in disk'.campaigns : m \in disk.campaigns \/ m.id = c.id,
           past'.creates = past.creates,
           \A i \in Calls, n \in Parts :
               ImageKey(i, n) \in server'.doomed => ImageKey(i, n) \in server.doomed \/ i = c.id
    PROVE  CallsApart'
  BY NumbersAre DEF FilesKept, CallsApart

(* A call ends, and what it wrote is deleted. *)
LEMMA EndedFiles ==
    ASSUME Steady, FilesKept, NEW c \in server.calls, c.stage # "drop",
           NEW e, e.id = c.id, e.stage = "drop",
           server'.calls \subseteq (server.calls \ {c}) \cup {e},
           server'.doomed = server.doomed \cup Written(c), disk'.stored = disk.stored,
           \A m \in disk'.campaigns : m \in disk.campaigns \/ (m.id = c.id /\ ~m.known),
           past'.creates = past.creates
    PROVE  FilesKept'
<1>1. \A i \in Calls, n \in Parts :
         ImageKey(i, n) \in server'.doomed => ImageKey(i, n) \in server.doomed \/ i = c.id
  BY KeysApart DEF Written
<1>2. CallsApart'
  BY <1>1, MovedApart
<1>3. \A d \in server'.calls : d.stage # "drop" => d \in server.calls /\ d.id # c.id
  BY DEF FilesKept, CallsApart
<1>4. CallsHaveTheirs'
  <2> SUFFICES ASSUME NEW d \in server'.calls, d.stage # "drop"
               PROVE  /\ \A n \in Parts : ImageKey(d.id, n) \notin server'.doomed
                      /\ \A m \in disk'.campaigns : m.id # d.id
                      /\ \A n \in d.wrote : ImageKey(d.id, n) \in disk'.stored
    BY DEF CallsHaveTheirs
  <2>1. d \in server.calls /\ d.id # c.id /\ d.id \in Calls
    BY <1>3, NumbersAre
  <2>2. QED
    BY <1>1, <2>1 DEF FilesKept, CallsHaveTheirs
<1>5. \A m \in disk.campaigns : m.id # c.id
  BY DEF FilesKept, CallsHaveTheirs
<1>6. KnownHasItsFiles'
  BY <1>1, <1>5, NumbersAre, KnownMeans, KnownMeansNext DEF FilesKept
<1>7. QED
  BY <1>2, <1>4, <1>6 DEF FilesKept

(* A call moves on, with what it wrote in the store. *)
LEMMA MovedFiles ==
    ASSUME Steady, FilesKept, NEW c \in server.calls, c.stage # "drop", NEW e, e.id = c.id,
           server'.calls = (server.calls \ {c}) \cup {e}, server'.doomed = server.doomed,
           disk.stored \subseteq disk'.stored, disk'.campaigns = disk.campaigns,
           \A n \in e.wrote : ImageKey(c.id, n) \in disk'.stored, past'.creates = past.creates
    PROVE  FilesKept'
<1>1. CallsApart'
  BY MovedApart
<1>2. CallsHaveTheirs'
  BY DEF FilesKept, CallsHaveTheirs
<1>3. KnownHasItsFiles'
  BY KnownMeans, KnownMeansNext DEF FilesKept
<1>4. QED
  BY <1>1, <1>2, <1>3 DEF FilesKept

(* A call makes its campaign, with all of its files. *)
LEMMA SavedFiles ==
    ASSUME Steady, FilesKept, NEW c \in server.calls, c.stage # "drop", c.wrote = Parts,
           NEW e, e.id = c.id, e.stage = "drop",
           server'.calls = (server.calls \ {c}) \cup {e}, server'.doomed = server.doomed,
           disk'.stored = disk.stored, past'.creates = past.creates,
           \A m \in disk'.campaigns : m \in disk.campaigns \/ m.id = c.id
    PROVE  FilesKept'
<1>1. CallsApart'
  BY MovedApart
<1>2. \A d \in server'.calls : d.stage # "drop" => d \in server.calls /\ d.id # c.id
  BY DEF FilesKept, CallsApart
<1>3. CallsHaveTheirs'
  BY <1>2 DEF FilesKept, CallsHaveTheirs
<1>4. \A n \in Parts : ImageKey(c.id, n) \in disk.stored /\ ImageKey(c.id, n) \notin server.doomed
  BY DEF FilesKept, CallsHaveTheirs
<1>5. KnownHasItsFiles'
  BY <1>4, KnownMeans, KnownMeansNext DEF FilesKept
<1>6. QED
  BY <1>1, <1>3, <1>5 DEF FilesKept

LEMMA CallFiles ==
    ASSUME Steady, FilesKept, NEW c \in server.calls,
           \/ LookForCreated(c) \/ CheckUpload(c) \/ StageImage(c) \/ Apply(c) \/ DropUpload(c)
           \/ ApplyUnknown(c) \/ CreationFails(c) \/ DropFails(c)
    PROVE  FilesKept'
<1>0. disk \in DiskType /\ server \in ServerType /\ past \in PastType /\ c \in Creations
  BY SameParts DEF ServerType
<1>1. past'.creates = past.creates
  BY <1>0 DEF PastType, Trouble, Forsakes,
     LookForCreated, CheckUpload, StageImage, Apply, DropUpload, ApplyUnknown, CreationFails, DropFails
<1>2. ASSUME NEW keys, Ends(c, keys)
      PROVE  server'.calls = server.calls \ {c} /\ server'.doomed = server.doomed \cup keys
  BY <1>0, <1>2 DEF Ends, ServerType
<1>3. ASSUME NEW e, Moves(c, e)
      PROVE  server'.calls = (server.calls \ {c}) \cup {e} /\ server'.doomed = server.doomed
  BY <1>0, <1>3 DEF Moves, ServerType
<1>4. \A s \in {"check", "stage", "drop"} : /\ [c EXCEPT !.stage = s].id = c.id
                                          /\ [c EXCEPT !.stage = s].wrote = c.wrote
                                          /\ [c EXCEPT !.stage = s].stage = s
  BY <1>0 DEF Creations
<1>5. c.stage # "drop" => \A n \in c.wrote : ImageKey(c.id, n) \in disk.stored
  BY DEF FilesKept, CallsHaveTheirs
<1>6. ASSUME c.stage # "drop", Ends(c, Written(c)), disk'.stored = disk.stored,
             \A m \in disk'.campaigns : m \in disk.campaigns \/ (m.id = c.id /\ ~m.known)
      PROVE  FilesKept'
  <2> DEFINE e == [c EXCEPT !.stage = "drop"]
  <2>1. server'.calls \subseteq (server.calls \ {c}) \cup {e} /\ server'.doomed = server.doomed \cup Written(c)
    BY <1>2, <1>6
  <2>2. e.id = c.id /\ e.stage = "drop"
    BY <1>4
  <2> HIDE DEF e
  <2>3. QED
    BY <1>1, <1>6, <2>1, <2>2, EndedFiles
<1>7. ASSUME NEW keys, Ends(c, keys), \A i \in Calls, n \in Parts : ImageKey(i, n) \notin keys,
             disk'.stored = disk.stored, disk'.campaigns = disk.campaigns
      PROVE  FilesKept'
  <2>1. ImagesStay
    BY <1>2, <1>7 DEF ImagesStay
  <2>2. QED
    BY <1>1, <1>2, <1>7, <2>1, QuietFiles
<1>8. ASSUME NEW s \in {"check", "stage"}, c.stage # "drop", Moves(c, [c EXCEPT !.stage = s]), disk' = disk
      PROVE  FilesKept'
  BY <1>1, <1>3, <1>4, <1>5, <1>8, MovedFiles
<1>9. CASE LookForCreated(c)
  BY <1>7, <1>8, <1>9 DEF LookForCreated
<1>10. CASE CheckUpload(c)
  BY <1>7, <1>8, <1>10 DEF CheckUpload
<1>11. CASE StageImage(c)
  <2>1. PICK n \in NextOf(Parts \ c.wrote) :
       IF PartKey(c.of, n) \in disk.stored
       THEN /\ disk' = [disk EXCEPT !.stored = @ \cup {ImageKey(c.id, n)}]
            /\ Moves(c, [c EXCEPT !.wrote = @ \cup {n}])
       ELSE Ends(c, Written(c)) /\ UNCHANGED disk
    BY <1>11 DEF StageImage
  <2>2. CASE PartKey(c.of, n) \in disk.stored
    <3> DEFINE e == [c EXCEPT !.wrote = @ \cup {n}]
    <3>1. e.id = c.id /\ e.wrote = c.wrote \cup {n}
      BY <1>0 DEF Creations
    <3>2. disk'.stored = disk.stored \cup {ImageKey(c.id, n)} /\ disk'.campaigns = disk.campaigns
      BY <1>0, <2>1, <2>2 DEF DiskType
    <3>3. server'.calls = (server.calls \ {c}) \cup {e} /\ server'.doomed = server.doomed
      BY <1>3, <2>1, <2>2
    <3>4. c.stage # "drop"
      BY <1>11 DEF StageImage
    <3> HIDE DEF e
    <3>5. \A i \in e.wrote : ImageKey(c.id, i) \in disk'.stored
      BY <1>5, <3>1, <3>2, <3>4
    <3>6. QED
      BY <1>1, <3>1, <3>2, <3>3, <3>4, <3>5, MovedFiles
  <2>3. CASE PartKey(c.of, n) \notin disk.stored
    BY <1>6, <1>11, <2>1, <2>3 DEF StageImage
  <2>4. QED
    BY <2>2, <2>3
<1>12. CASE Apply(c)
  <2> DEFINE e == [c EXCEPT !.stage = "drop"]
  <2>1. e.id = c.id /\ e.stage = "drop" /\ c.stage # "drop" /\ c.wrote = Parts
    BY <1>4, <1>12 DEF Apply
  <2>2. CASE Taken(c.key)
    <3>1. server' = [server EXCEPT !.calls = (@ \ {c}) \cup {e}, !.doomed = @ \cup Written(c)] /\ disk' = disk
      BY <1>12, <2>2 DEF Apply
    <3>2. server'.calls = (server.calls \ {c}) \cup {e} /\ server'.doomed = server.doomed \cup Written(c)
      BY <1>0, <3>1 DEF ServerType
    <3> HIDE DEF e
    <3>3. QED
      BY <1>1, <2>1, <3>1, <3>2, EndedFiles
  <2>3. CASE ~Taken(c.key)
    <3>1. disk' = Saved(c, TRUE) /\ Moves(c, e)
      BY <1>12, <2>3 DEF Apply
    <3>2. disk'.stored = disk.stored /\ \A m \in disk'.campaigns : m \in disk.campaigns \/ m.id = c.id
      BY <1>0, <3>1 DEF Saved, DiskType
    <3>3. server'.calls = (server.calls \ {c}) \cup {e} /\ server'.doomed = server.doomed
      BY <1>3, <3>1
    <3> HIDE DEF e
    <3>4. QED
      BY <1>1, <2>1, <3>2, <3>3, SavedFiles
  <2>4. QED
    BY <2>2, <2>3
<1>13. CASE DropUpload(c)
  <2>1. disk'.stored = disk.stored /\ disk'.campaigns = disk.campaigns
    BY <1>0, <1>13 DEF DropUpload, RowDropped, DiskType
  <2>2. QED
    BY <1>7, <1>13, <2>1, PartsOnly DEF DropUpload
<1>14. CASE ApplyUnknown(c)
  <2>1. disk'.stored = disk.stored
        /\ \A m \in disk'.campaigns : m \in disk.campaigns \/ (m.id = c.id /\ ~m.known)
    BY <1>0, <1>14 DEF ApplyUnknown, Saved, DiskType
  <2>2. QED
    BY <1>6, <1>14, <2>1 DEF ApplyUnknown
<1>15. CASE CreationFails(c)
  BY <1>6, <1>15 DEF CreationFails
<1>16. CASE DropFails(c)
  <2>1. disk'.stored = disk.stored /\ disk'.campaigns = disk.campaigns
    BY <1>0, <1>16 DEF DropFails, RowDropped, DiskType
  <2>2. QED
    BY <1>7, <1>16, <2>1 DEF DropFails
<1>17. QED
  BY <1>9, <1>10, <1>11, <1>12, <1>13, <1>14, <1>15, <1>16

LEMMA FilesStep == Inv /\ [Next]_vars => FilesKept'
<1> SUFFICES ASSUME Inv, [Next]_vars PROVE FilesKept'
  OBVIOUS
<1>0. /\ disk \in DiskType /\ server \in ServerType /\ past \in PastType
      /\ Steady /\ FilesKept
  BY SameParts DEF Inv
<1>1. ASSUME disk'.stored = disk.stored, disk'.campaigns = disk.campaigns, server'.calls \subseteq server.calls,
             past'.creates = past.creates,
             \A i \in Calls, n \in Parts : ImageKey(i, n) \in server'.doomed => ImageKey(i, n) \in server.doomed
      PROVE  FilesKept'
  <2>1. ImagesStay
    BY <1>1 DEF ImagesStay
  <2>2. QED
    BY <1>0, <1>1, <2>1, QuietFiles
<1>2. ASSUME NEW k, disk'.campaigns = disk.campaigns, server'.calls = server.calls,
             past'.creates = past.creates, server'.doomed \subseteq server.doomed,
             k \in server.doomed \/ \A i \in Calls, n \in Parts : ImageKey(i, n) # k,
             disk'.stored \in {disk.stored, disk.stored \ {k}}
      PROVE  FilesKept'
  <2>1. ImagesStay
    BY <1>2 DEF ImagesStay
  <2>2. QED
    BY <1>0, <1>2, <2>1, QuietFiles
<1>3. ASSUME NEW f, NEW after, Send(f, after) PROVE FilesKept'
  <2>1. past'.creates = past.creates
    BY <1>0, <1>3 DEF Send, BeginUnknown, Trouble, Forsakes, PastType
  <2>2. CASE BeginImport(f)
    <3>1. disk'.stored = disk.stored /\ disk'.campaigns = disk.campaigns /\ server'.calls = server.calls
      BY <1>0, <2>2 DEF BeginImport, Resume, Replace, TakesThePlace, DiskType, ServerType
    <3>2. server'.doomed = server.doomed
          \/ server'.doomed = server.doomed \cup (IF disk.row = None THEN {} ELSE PartsOf(disk.row.id))
      BY <1>0, <2>2 DEF BeginImport, Resume, Replace, ServerType
    <3>3. QED
      BY <1>1, <2>1, <3>1, <3>2, PartsOnly
  <2>3. CASE UNCHANGED <<disk, server>>
    BY <1>1, <2>1, <2>3
  <2>4. CASE BeginUnknown(f)
    <3>1. disk'.stored = disk.stored /\ disk'.campaigns = disk.campaigns /\ server' = server
      BY <1>0, <2>4 DEF BeginUnknown, TakesThePlace, DiskType
    <3>2. QED
      BY <1>1, <2>1, <3>1
  <2>5. QED
    BY <1>3, <2>2, <2>3, <2>4 DEF Send
<1>4. CASE Tap \/ CreateAgain
  BY <1>0, <1>4, CreateFiles DEF Tap, CreateAgain
<1>5. ASSUME NEW u \in server.cancels, CancelDrops(u) \/ CancelFails(u) PROVE FilesKept'
  <2>1. disk'.stored = disk.stored /\ disk'.campaigns = disk.campaigns
    BY <1>0, <1>5 DEF CancelDrops, CancelFails, RowDropped, DiskType
  <2>2. past'.creates = past.creates
    BY <1>0, <1>5 DEF CancelDrops, CancelFails, Trouble, Forsakes, PastType
  <2>3. server'.calls = server.calls
        /\ server'.doomed \in {server.doomed, server.doomed \cup PartsOf(u)}
    BY <1>0, <1>5 DEF CancelDrops, CancelFails, ServerType
  <2>4. QED
    BY <1>1, <2>1, <2>2, <2>3, PartsOnly
<1>6. CASE \/ Cancel \/ CancelAnswered \/ Close
           \/ SendPart \/ PartUnanswered \/ ReadPackage \/ CreateUnanswered
  <2>1. disk' = disk /\ server'.calls = server.calls /\ server'.doomed = server.doomed
    BY <1>0, <1>6 DEF Cancel, CancelAnswered, Close, SendPart, PartUnanswered, ReadPackage, CreateUnanswered,
       ServerType
  <2>2. past'.creates = past.creates
    BY <1>0, <1>6 DEF Cancel, CancelAnswered, Close, SendPart, PartUnanswered, ReadPackage, CreateUnanswered,
       Trouble, PastType
  <2>3. QED
    BY <1>1, <2>1, <2>2
<1>7. ASSUME NEW q \in server.puts, PartStored(q) \/ PartRecorded(q) \/ PartFails(q) \/ PartAnswerLost(q)
      PROVE  FilesKept'
  <2>1. disk.stored \subseteq disk'.stored /\ disk'.campaigns = disk.campaigns
    BY <1>0, <1>7 DEF PartStored, PartRecorded, PartFails, PartAnswerLost, DiskType
  <2>2. past'.creates = past.creates
    BY <1>0, <1>7 DEF PartStored, PartRecorded, PartFails, PartAnswerLost, Trouble, Forsakes, PastType
  <2>3. server'.calls = server.calls
        /\ server'.doomed \in {server.doomed, server.doomed \cup {PartKey(q.upload, q.part)}}
    BY <1>0, <1>7 DEF PartStored, PartRecorded, PartFails, PartAnswerLost, ServerType
  <2>4. ImagesStay
    BY <2>1, <2>3, KeysApart DEF ImagesStay
  <2>5. QED
    BY <1>0, <2>1, <2>2, <2>3, <2>4, QuietFiles
<1>8. ASSUME NEW c \in server.calls,
             \/ LookForCreated(c) \/ CheckUpload(c) \/ StageImage(c) \/ Apply(c) \/ DropUpload(c)
             \/ ApplyUnknown(c) \/ CreationFails(c) \/ DropFails(c)
      PROVE  FilesKept'
  BY <1>0, <1>8, CallFiles
<1>9. ASSUME NEW k \in server.doomed, Delete(k) PROVE FilesKept'
  <2>1. disk'.stored \in {disk.stored, disk.stored \ {k}} /\ disk'.campaigns = disk.campaigns
    BY <1>0, <1>9 DEF Delete, Deleted, DiskType
  <2>2. past'.creates = past.creates
    BY <1>0, <1>9 DEF Delete, Deleted, Forsakes, PastType
  <2>3. server'.calls = server.calls /\ server'.doomed \subseteq server.doomed
    BY <1>0, <1>9 DEF Delete, ServerType
  <2>4. QED
    BY <1>2, <2>1, <2>2, <2>3
<1>10. CASE Expire \/ SweepStarts \/ SweepRow
  <2>1. disk'.stored = disk.stored /\ disk'.campaigns = disk.campaigns
    BY <1>0, <1>10 DEF Expire, SweepStarts, SweepRow, RowDropped, DiskType
  <2>2. past'.creates = past.creates
    BY <1>0, <1>10 DEF Expire, SweepStarts, SweepRow, Trouble, Forsakes, PastType
  <2>3. server'.calls = server.calls /\ server'.doomed = server.doomed
    BY <1>0, <1>10 DEF Expire, SweepStarts, SweepRow, ServerType
  <2>4. QED
    BY <1>1, <2>1, <2>2, <2>3
<1>11. CASE SweepPart
  <2>1. PICK n : /\ server' = [server EXCEPT !.sweep.left = @ \ {n}]
                 /\ Deleted(PartKey(server.sweep.id, n)) \/ (Trouble /\ UNCHANGED disk)
    BY <1>11 DEF SweepPart
  <2> DEFINE k == PartKey(server.sweep.id, n)
  <2>2. \A i \in Calls, j \in Parts : ImageKey(i, j) # k
    BY KeysApart
  <2>3. disk'.stored \in {disk.stored, disk.stored \ {k}} /\ disk'.campaigns = disk.campaigns
    BY <1>0, <2>1 DEF Deleted, DiskType
  <2>4. past'.creates = past.creates
    BY <1>0, <2>1 DEF Deleted, Trouble, PastType
  <2>5. server'.calls = server.calls /\ server'.doomed = server.doomed
    BY <1>0, <2>1 DEF ServerType
  <2> HIDE DEF k
  <2>6. QED
    BY <1>2, <2>2, <2>3, <2>4, <2>5
<1>12. CASE Crash
  BY <1>0, <1>1, <1>12 DEF Crash, Forsakes, PastType
<1>13. CASE UNCHANGED vars
  BY <1>1, <1>13 DEF vars
<1>14. QED
  BY <1>3, <1>4, <1>5, <1>6, <1>7, <1>8, <1>9, <1>10, <1>11, <1>12, <1>13
     DEF Next, Choose, Retry, PageSteps, PartSteps, CreationSteps, CancelSteps, Sweeps1

------------------------------------------------------------------------------
(* The wishes. *)

(* A step that asks for nothing new. *)
LEMMA QuietWishes ==
    ASSUME Inv, AllAsked' \subseteq AllAsked, past'.creates = past.creates,
           \/ page'.wish = page.wish /\ page'.no = page.no
           \/ page'.wish = 0,
           \A a, b \in disk'.campaigns : a.key = b.key => a = b
    PROVE  WishesApart'
<1>1. /\ \A x \in AllAsked : x.wish \in Calls
      /\ past.creates \in Nat /\ 0 \notin Calls
  BY NumbersAre, ImportBounds DEF Inv, AllAsked, Asked, Calls
<1>2. page.wish \in Nat /\ page.wish <= past.creates
  BY SameParts, ImportBounds DEF Inv, WishesApart, Pages
<1>3. QED
  BY <1>1, <1>2 DEF Inv, WishesApart

(* A wish: new, or the one the page retries. *)
LEMMA CreateWishes ==
    ASSUME Inv, NEW wish \in {past.creates + 1, page.wish}, Create(wish), page.wish # 0 \/ wish # page.wish
    PROVE  WishesApart'
<1> DEFINE n == past.creates + 1
<1> DEFINE c == [id |-> n, key |-> KeyFor(page), of |-> page.upload, wish |-> wish, stage |-> "look", wrote |-> {}]
<1>0. Steady /\ server \in ServerType /\ page \in Pages /\ past \in PastType
  BY SameParts DEF Inv
<1>1. past'.creates = n /\ server'.calls = server.calls \cup {c} /\ disk' = disk
      /\ page'.wish = wish /\ page'.no = page.no
  BY <1>0 DEF Create, ServerType, PastType, Pages
<1>2. Asked(c) = [key |-> <<page.no, page.upload>>, of |-> page.upload, wish |-> wish]
  BY DEF Asked, KeyFor
<1> DEFINE x0 == Asked(c)
<1>3. x0.key[1] = page.no /\ x0.key[2] = x0.of /\ x0.wish = wish
  BY <1>2
<1> HIDE DEF c
<1>4. AllAsked' = AllAsked \cup {x0}
  BY <1>1 DEF AllAsked
<1>5. /\ \A x \in AllAsked : x.wish \in Nat /\ x.wish <= past.creates
      /\ past.creates \in Nat /\ page.wish \in Nat /\ page.wish <= past.creates
  BY <1>0, NumbersAre, ImportBounds DEF Inv, WishesApart, AllAsked, Asked, Calls, Pages
<1>6. \A x \in AllAsked : x.wish = wish => x.key[1] = page.no
  BY <1>5 DEF Inv, WishesApart
<1> HIDE DEF x0
<1>7. QED
  BY <1>1, <1>3, <1>4, <1>5, <1>6 DEF Inv, WishesApart

(* A call that goes on, or ends, or makes its campaign. *)
LEMMA CallWishes ==
    ASSUME Inv, NEW c \in server.calls,
           \/ LookForCreated(c) \/ CheckUpload(c) \/ StageImage(c) \/ Apply(c) \/ DropUpload(c)
           \/ ApplyUnknown(c) \/ CreationFails(c) \/ DropFails(c)
    PROVE  WishesApart'
<1>0. /\ disk \in DiskType /\ server \in ServerType /\ page \in Pages /\ past \in PastType
      /\ c \in Creations
  BY SameParts DEF Inv, ServerType
<1>1. past'.creates = past.creates
  BY <1>0 DEF PastType, Trouble, Forsakes,
     LookForCreated, CheckUpload, StageImage, Apply, DropUpload, ApplyUnknown, CreationFails, DropFails
<1>2. page'.wish = page.wish /\ page'.no = page.no
  <2>1. page' \in {page, Made(c), Failed(c), Refused(c)}
    BY DEF LookForCreated, CheckUpload, StageImage, Apply, DropUpload, ApplyUnknown, CreationFails, DropFails
  <2>2. QED
    BY <1>0, <2>1 DEF Made, Failed, Refused, PageFails, Pages
<1>3. \A s, w : Asked([c EXCEPT !.stage = s]) = Asked(c) /\ Asked([c EXCEPT !.wrote = w]) = Asked(c)
  BY <1>0 DEF Asked, Creations
<1>4. \A d \in server'.calls : d \in server.calls \/ Asked(d) = Asked(c)
  <2>1. ASSUME NEW e, Moves(c, e), Asked(e) = Asked(c)
        PROVE  \A d \in server'.calls : d \in server.calls \/ Asked(d) = Asked(c)
    BY <1>0, <2>1 DEF Moves, ServerType
  <2>2. ASSUME NEW keys, Ends(c, keys) PROVE server'.calls \subseteq server.calls
    BY <1>0, <2>2 DEF Ends, ServerType
  <2>3. CASE LookForCreated(c) \/ CheckUpload(c)
    BY <1>3, <2>1, <2>2, <2>3 DEF LookForCreated, CheckUpload
  <2>4. CASE StageImage(c)
    <3>1. \/ Ends(c, Written(c))
          \/ \E n : Moves(c, [c EXCEPT !.wrote = c.wrote \cup {n}])
      BY <2>4 DEF StageImage
    <3>2. QED
      BY <1>3, <2>1, <2>2, <3>1
  <2>5. CASE Apply(c)
    <3>1. server'.calls = (server.calls \ {c}) \cup {[c EXCEPT !.stage = "drop"]}
      BY <1>0, <2>5 DEF Apply, Moves, ServerType
    <3>2. QED
      BY <1>3, <3>1
  <2>6. CASE DropUpload(c) \/ ApplyUnknown(c) \/ CreationFails(c) \/ DropFails(c)
    BY <2>2, <2>6 DEF DropUpload, ApplyUnknown, CreationFails, DropFails
  <2>7. QED
    BY <2>3, <2>4, <2>5, <2>6
<1>5. \/ disk'.campaigns = disk.campaigns
      \/ ~Taken(c.key) /\ \E known \in BOOLEAN : disk' = Saved(c, known)
  BY <1>0 DEF LookForCreated, CheckUpload, StageImage, Apply, DropUpload, ApplyUnknown, CreationFails, DropFails,
     RowDropped, DiskType
<1>6. /\ \A m \in disk'.campaigns : m \in disk.campaigns \/ Asked(m) = Asked(c)
      /\ \A a, b \in disk'.campaigns : a.key = b.key => a = b
  <2>1. CASE disk'.campaigns = disk.campaigns
    BY <2>1 DEF Inv, WishesApart
  <2>2. ASSUME ~Taken(c.key), NEW known \in BOOLEAN, disk' = Saved(c, known)
        PROVE  /\ \A m \in disk'.campaigns : m \in disk.campaigns \/ Asked(m) = Asked(c)
               /\ \A a, b \in disk'.campaigns : a.key = b.key => a = b
    <3> DEFINE new == [id |-> c.id, key |-> c.key, of |-> c.of, wish |-> c.wish, known |-> known]
    <3>1. disk'.campaigns = disk.campaigns \cup {new}
      BY <1>0, <2>2 DEF Saved, DiskType
    <3>2. Asked(new) = Asked(c) /\ new.key = c.key
      BY DEF Asked
    <3> HIDE DEF new
    <3>3. QED
      BY <2>2, <3>1, <3>2 DEF Inv, WishesApart, Taken
  <2>3. QED
    BY <1>5, <2>1, <2>2
<1>7. AllAsked' \subseteq AllAsked
  BY <1>4, <1>6 DEF AllAsked
<1>8. QED
  BY <1>1, <1>2, <1>6, <1>7, QuietWishes

LEMMA WishStep == Inv /\ [Next]_vars => WishesApart'
<1> SUFFICES ASSUME Inv, [Next]_vars PROVE WishesApart'
  OBVIOUS
<1>0. disk \in DiskType /\ server \in ServerType /\ page \in Pages /\ past \in PastType /\ PageKnows
  BY SameParts DEF Inv
<1>1. ASSUME disk'.campaigns = disk.campaigns, server'.calls \subseteq server.calls, past'.creates = past.creates,
             \/ page'.wish = page.wish /\ page'.no = page.no
             \/ page'.wish = 0
      PROVE  WishesApart'
  <2>1. AllAsked' \subseteq AllAsked
    BY <1>1 DEF AllAsked
  <2>2. QED
    BY <1>1, <2>1, QuietWishes DEF Inv, WishesApart
<1>2. ASSUME NEW f, NEW after, Send(f, after) PROVE WishesApart'
  <2>1. past'.creates = past.creates
    BY <1>0, <1>2 DEF Send, BeginUnknown, Trouble, Forsakes, PastType
  <2>2. page'.wish = page.wish /\ page'.no = page.no
    BY <1>0, <1>2 DEF Send, Begun, NotBegun, Pages
  <2>3. disk'.campaigns = disk.campaigns /\ server'.calls = server.calls
    BY <1>0, <1>2 DEF Send, BeginImport, Resume, Replace, TakesThePlace, BeginUnknown, DiskType, ServerType
  <2>4. QED
    BY <1>1, <2>1, <2>2, <2>3
<1>3. CASE Tap
  <2>1. past.creates + 1 # page.wish
    BY <1>0, ImportBounds DEF Inv, WishesApart, PastType, Pages
  <2>2. QED
    BY <1>3, <2>1, CreateWishes DEF Tap
<1>4. CASE CreateAgain
  <2>1. page.wish # 0
    BY <1>0, <1>4 DEF CreateAgain, PageKnows
  <2>2. QED
    BY <1>4, <2>1, CreateWishes DEF CreateAgain
<1>5. CASE Cancel \/ CancelAnswered \/ Close
  <2>1. disk' = disk /\ server'.calls = server.calls
    BY <1>0, <1>5 DEF Cancel, CancelAnswered, Close, ServerType
  <2>2. page'.wish = 0
    <3>1. page' \in {NewPage(page.no), NewPage(page.no + 1),
                    [NewPage(page.no) EXCEPT !.status = "canceling", !.upload = page.upload]}
      BY <1>5 DEF Cancel, CancelAnswered, Close
    <3>2. NewPage(page.no).wish = 0 /\ NewPage(page.no + 1).wish = 0
      BY DEF NewPage
    <3>3. [NewPage(page.no) EXCEPT !.status = "canceling", !.upload = page.upload].wish = 0
      BY DEF NewPage
    <3>4. QED
      BY <3>1, <3>2, <3>3
  <2>3. past'.creates = past.creates
    BY <1>0, <1>5 DEF Cancel, CancelAnswered, Close, Trouble, PastType
  <2>4. QED
    BY <1>1, <2>1, <2>2, <2>3
<1>6. CASE SendPart \/ PartUnanswered \/ ReadPackage \/ CreateUnanswered
  <2>1. disk' = disk /\ server'.calls = server.calls
    BY <1>0, <1>6 DEF SendPart, PartUnanswered, ReadPackage, CreateUnanswered, ServerType
  <2>2. past'.creates = past.creates
    BY <1>0, <1>6 DEF SendPart, PartUnanswered, ReadPackage, CreateUnanswered, Trouble, Forsakes, PastType
  <2>3. page'.wish = page.wish /\ page'.no = page.no
    BY <1>0, <1>6 DEF SendPart, PartUnanswered, ReadPackage, CreateUnanswered, SendsAgain, PageFails,
       Shows, Pages
  <2>4. QED
    BY <1>1, <2>1, <2>2, <2>3
<1>7. ASSUME NEW q \in server.puts, PartStored(q) \/ PartRecorded(q) \/ PartFails(q) \/ PartAnswerLost(q)
      PROVE  WishesApart'
  <2>1. disk'.campaigns = disk.campaigns
    BY <1>0, <1>7 DEF PartStored, PartRecorded, PartFails, PartAnswerLost, DiskType
  <2>2. past'.creates = past.creates
    BY <1>0, <1>7 DEF PartStored, PartRecorded, PartFails, PartAnswerLost, Trouble, Forsakes, PastType
  <2>3. server'.calls = server.calls
    BY <1>0, <1>7 DEF PartStored, PartRecorded, PartFails, PartAnswerLost, ServerType
  <2>4. page'.wish = page.wish /\ page'.no = page.no
    BY <1>0, <1>7 DEF PartStored, PartRecorded, PartFails, PartAnswerLost, SendsAgain, PageFails, Pages
  <2>5. QED
    BY <1>1, <2>1, <2>2, <2>3, <2>4
<1>8. ASSUME NEW c \in server.calls,
             \/ LookForCreated(c) \/ CheckUpload(c) \/ StageImage(c) \/ Apply(c) \/ DropUpload(c)
             \/ ApplyUnknown(c) \/ CreationFails(c) \/ DropFails(c)
      PROVE  WishesApart'
  BY <1>8, CallWishes
<1>9. ASSUME NEW k \in server.doomed, Delete(k) PROVE WishesApart'
  <2>1. disk'.campaigns = disk.campaigns /\ past'.creates = past.creates
    BY <1>0, <1>9 DEF Delete, Deleted, Forsakes, DiskType, PastType
  <2>2. server'.calls = server.calls /\ page' = page
    BY <1>0, <1>9 DEF Delete, ServerType
  <2>3. QED
    BY <1>1, <2>1, <2>2
<1>10. CASE Expire \/ Sweeps1
  <2>1. disk'.campaigns = disk.campaigns
    BY <1>0, <1>10 DEF Expire, Sweeps1, SweepStarts, SweepPart, SweepRow, Deleted, RowDropped, DiskType
  <2>2. past'.creates = past.creates
    BY <1>0, <1>10 DEF Expire, Sweeps1, SweepStarts, SweepPart, SweepRow, Deleted, Trouble, PastType
  <2>3. server'.calls = server.calls /\ page' = page
    BY <1>0, <1>10 DEF Expire, Sweeps1, SweepStarts, SweepPart, SweepRow, ServerType
  <2>4. QED
    BY <1>1, <2>1, <2>2, <2>3
<1>11. CASE Crash
  BY <1>0, <1>1, <1>11 DEF Crash, Forsakes, PastType
<1>12. ASSUME NEW u \in server.cancels, CancelDrops(u) \/ CancelFails(u) PROVE WishesApart'
  <2>1. disk'.campaigns = disk.campaigns
    BY <1>0, <1>12 DEF CancelDrops, CancelFails, RowDropped, DiskType
  <2>2. past'.creates = past.creates
    BY <1>0, <1>12 DEF CancelDrops, CancelFails, Trouble, Forsakes, PastType
  <2>3. server'.calls = server.calls /\ page' = page
    BY <1>0, <1>12 DEF CancelDrops, CancelFails, ServerType
  <2>4. QED
    BY <1>1, <2>1, <2>2, <2>3
<1>13. CASE UNCHANGED vars
  BY <1>1, <1>13 DEF vars
<1>14. QED
  BY <1>2, <1>3, <1>4, <1>5, <1>6, <1>7, <1>8, <1>9, <1>10, <1>11, <1>12, <1>13
     DEF Next, Choose, Retry, PageSteps, PartSteps, CreationSteps, CancelSteps

------------------------------------------------------------------------------
LEMMA InitInv == Init => Inv
<1> SUFFICES ASSUME Init PROVE Inv
  OBVIOUS
<1>1. Steady
  BY InitSteady
<1>2. FilesKept
  BY DEF Init, FilesKept, CallsApart, CallsHaveTheirs, KnownHasItsFiles
<1>3. WishesApart
  BY DEF Init, WishesApart, AllAsked, NewPage
<1>4. QED
  BY <1>1, <1>2, <1>3 DEF Inv

LEMMA Invariance == Spec => []Inv
<1>1. Inv /\ [Next]_vars => Inv'
  BY SteadyStep, FilesStep, WishStep DEF Inv
<1>2. QED
  BY <1>1, InitInv, PTL DEF Spec

(* Every record stays in its range, however many packages, parts, uploads, *)
(* creations and troubles there are.                                       *)
THEOREM ImportTypes == Spec => []TypeOK
<1>1. Inv => TypeOK
  BY DEF Inv, Steady
<1>2. QED
  BY <1>1, Invariance, PTL

(* A campaign whose commit was answered keeps all its files, whatever other *)
(* calls, replays, failures, sweeps and crashes do (importer.go:79-124).   *)
THEOREM FilesStay == Spec => []KnownHasItsFiles
<1>1. Inv => KnownHasItsFiles
  BY DEF Inv, FilesKept
<1>2. QED
  BY <1>1, Invariance, PTL

(* One wish makes one campaign of an upload, by the key the page derives   *)
(* from the upload (campaign-import.ts:374-377).                           *)
THEOREM OneForEach == Spec => []OncePerUpload
<1>1. Inv => OncePerUpload
  <2> SUFFICES ASSUME Inv, NEW a \in disk.campaigns, NEW b \in disk.campaigns, a.wish = b.wish, a.of = b.of
               PROVE  a = b
    BY DEF OncePerUpload
  <2>1. a.key \in CreateKeys /\ b.key \in CreateKeys
    BY NumbersAre DEF Inv, Campaigns
  <2>2. a.key = <<a.key[1], a.key[2]>> /\ b.key = <<b.key[1], b.key[2]>>
    BY <2>1 DEF CreateKeys
  <2>3. Asked(a) \in AllAsked /\ Asked(b) \in AllAsked
    BY DEF AllAsked
  <2>4. a.key[1] = b.key[1] /\ a.key[2] = a.of /\ b.key[2] = b.of
    BY <2>3 DEF Inv, WishesApart, Asked
  <2>5. a.key = b.key
    BY <2>2, <2>4
  <2>6. QED
    BY <2>5 DEF Inv, WishesApart
<1>2. QED
  BY <1>1, Invariance, PTL
------------------------------------------------------------------------------
(* The files of the store, and who answers for each.                       *)

(* A deletion, the PUT that stored the file or the creation that wrote it  *)
(* still has the file to see to. A PUT that has not stored its file        *)
(* answers for nothing: it may be aborted.                                 *)
SeenTo(k) ==
    \/ k \in server.doomed
    \/ \E q \in server.puts : q.stored /\ k = PartKey(q.upload, q.part)
    \/ \E c \in server.calls : c.stage = "stage" /\ k \in Written(c)

Answered(k) == Named(k) \/ SeenTo(k) \/ k \in past.forsaken \/ k \in past.unswept
Accounted == \A k \in disk.stored : Answered(k)

(* A step hands on every file but those of E to who answered for it.       *)
HandsOn(E) ==
    /\ disk'.stored \subseteq disk.stored \cup E
    /\ disk.row # None => \/ disk'.row # None /\ disk'.row.id = disk.row.id
                          \/ PartsOf(disk.row.id) \subseteq E
    /\ disk.campaigns \subseteq disk'.campaigns
    /\ server.doomed \subseteq server'.doomed \cup E
    /\ \A q \in server.puts : q.stored =>
          \/ PartKey(q.upload, q.part) \in E
          \/ \E r \in server'.puts : r.stored /\ r.upload = q.upload /\ r.part = q.part
    /\ \A c \in server.calls : c.stage = "stage" =>
          \/ Written(c) \subseteq E
          \/ \E d \in server'.calls : d.stage = "stage" /\ d.id = c.id /\ c.wrote \subseteq d.wrote
    /\ past.forsaken \subseteq past'.forsaken \cup E
    /\ past.unswept \subseteq past'.unswept \cup E

(* The campaign that a creation saves.                                     *)
SavedAs(c, known) == [id |-> c.id, key |-> c.key, of |-> c.of, wish |-> c.wish, known |-> known]

LEMMA RowIsNotNone == ASSUME NEW r \in Rows PROVE r # None
  BY NoneIsApart

LEMMA StillAccounted ==
    ASSUME Accounted, NEW E, HandsOn(E), \A k \in E : k \in disk'.stored => Answered(k)'
    PROVE  Accounted'
<1> SUFFICES ASSUME NEW k \in disk'.stored, k \notin E PROVE Answered(k)'
  BY DEF Accounted
<1>1. k \in disk.stored /\ Answered(k)
  BY DEF HandsOn, Accounted
<1>2. CASE Named(k)
  <2>1. Named(k)'
    BY <1>2 DEF Named, HandsOn
  <2> QED BY <2>1 DEF Answered
<1>3. CASE k \in server.doomed
  BY <1>3 DEF HandsOn, Answered, SeenTo
<1>4. ASSUME NEW q \in server.puts, q.stored, k = PartKey(q.upload, q.part) PROVE Answered(k)'
  <2>1. PICK r \in server'.puts : r.stored /\ r.upload = q.upload /\ r.part = q.part
    BY <1>4 DEF HandsOn
  <2> QED BY <1>4, <2>1 DEF Answered, SeenTo
<1>5. ASSUME NEW c \in server.calls, c.stage = "stage", k \in Written(c) PROVE Answered(k)'
  <2>1. PICK d \in server'.calls : d.stage = "stage" /\ d.id = c.id /\ c.wrote \subseteq d.wrote
    BY <1>5 DEF HandsOn
  <2>2. k \in Written(d)
    BY <1>5, <2>1 DEF Written
  <2> QED BY <2>1, <2>2 DEF Answered, SeenTo
<1>6. CASE k \in past.forsaken \/ k \in past.unswept
  BY <1>6 DEF HandsOn, Answered
<1> QED BY <1>1, <1>2, <1>3, <1>4, <1>5, <1>6 DEF Answered, SeenTo

(* A step that takes no file from anybody.                                 *)
LEMMA QuietAccounted ==
    ASSUME Accounted, disk'.stored \subseteq disk.stored,
           disk.row # None => disk'.row # None /\ disk'.row.id = disk.row.id,
           disk'.campaigns = disk.campaigns, server.doomed \subseteq server'.doomed,
           \A q \in server.puts : q.stored =>
               \E r \in server'.puts : r.stored /\ r.upload = q.upload /\ r.part = q.part,
           \A c \in server.calls : c.stage = "stage" => c \in server'.calls,
           past'.forsaken = past.forsaken, past'.unswept = past.unswept
    PROVE  Accounted'
<1>1. HandsOn({})
  BY DEF HandsOn
<1> QED BY <1>1, StillAccounted

LEMMA SendAccounted ==
    ASSUME Steady, Accounted, NEW f, NEW after, Send(f, after) PROVE Accounted'
<1>0. disk \in DiskType /\ server \in ServerType /\ past \in PastType
  BY SameParts
<1>1. BeginUnknown(f) \/ (past'.forsaken = past.forsaken /\ past'.unswept = past.unswept)
  BY <1>0 DEF Send, Trouble, PastType
<1>2. CASE BeginUnknown(f)
  <2> DEFINE gone == IF disk.row = None THEN {} ELSE PartsOf(disk.row.id)
             left == IF disk.row = None THEN {} ELSE LeftBy(disk.row.id)
  <2>1. disk'.stored = disk.stored /\ disk'.campaigns = disk.campaigns /\ server' = server
    BY <1>0, <1>2 DEF BeginUnknown, TakesThePlace, DiskType
  <2>2. Forsakes(left)
    BY <1>2 DEF BeginUnknown
  <2>3. past'.forsaken = past.forsaken \cup left /\ past'.unswept = past.unswept
    BY <1>0, <2>2 DEF Forsakes, PastType
  <2>4. left = gone \cap disk.stored
    BY DEF LeftBy
  <2> HIDE DEF left
  <2>5. HandsOn(gone)
    BY <2>1, <2>3 DEF HandsOn
  <2> HIDE DEF gone
  <2>6. \A k \in gone : k \in disk'.stored => Answered(k)'
    BY <2>1, <2>3, <2>4 DEF Answered
  <2> QED BY <2>5, <2>6, StillAccounted
<1> SUFFICES ASSUME ~BeginUnknown(f) PROVE Accounted'
  BY <1>2
<1>3. CASE UNCHANGED <<disk, server>>
  BY <1>1, <1>3, QuietAccounted
<1>4. CASE BeginImport(f) /\ Resumes(f)
  <2>1. disk.row # None /\ disk' = [disk EXCEPT !.row = [disk.row EXCEPT !.expired = FALSE]] /\ server' = server
    BY <1>4 DEF BeginImport, Resume, Resumes
  <2>2. disk.row \in Rows /\ [disk.row EXCEPT !.expired = FALSE].id = disk.row.id
        /\ [disk.row EXCEPT !.expired = FALSE] \in Rows
    BY <1>0, <2>1 DEF DiskType, Rows
  <2>3. [disk.row EXCEPT !.expired = FALSE] # None
    BY <2>2, RowIsNotNone
  <2>4. disk'.stored = disk.stored /\ disk'.campaigns = disk.campaigns
        /\ disk'.row = [disk.row EXCEPT !.expired = FALSE]
    BY <1>0, <2>1 DEF DiskType
  <2> QED BY <1>1, <2>1, <2>2, <2>3, <2>4, QuietAccounted
<1>5. CASE BeginImport(f) /\ ~Resumes(f)
  <2> DEFINE gone == IF disk.row = None THEN {} ELSE PartsOf(disk.row.id)
  <2>1. disk'.stored = disk.stored /\ disk'.campaigns = disk.campaigns
    BY <1>0, <1>5 DEF BeginImport, Replace, TakesThePlace, DiskType
  <2>2. server' = [server EXCEPT !.doomed = @ \cup gone]
    BY <1>5 DEF BeginImport, Replace
  <2>3. server'.doomed = server.doomed \cup gone /\ server'.puts = server.puts
        /\ server'.calls = server.calls /\ server'.sweep = server.sweep
    BY <1>0, <2>2 DEF ServerType
  <2>4. HandsOn(gone)
    BY <1>1, <2>1, <2>3 DEF HandsOn
  <2>5. \A k \in gone : Answered(k)'
    BY <2>3 DEF Answered, SeenTo
  <2> HIDE DEF gone
  <2> QED BY <2>4, <2>5, StillAccounted
<1> QED BY <1>3, <1>4, <1>5 DEF Send

(* What a PUT stores, records, dooms, or leaves.                           *)
LEMMA PutAccounted ==
    ASSUME Steady, Accounted, NEW q \in server.puts,
           PartStored(q) \/ PartRecorded(q) \/ PartFails(q) \/ PartAnswerLost(q)
    PROVE  Accounted'
<1>0. disk \in DiskType /\ server \in ServerType /\ past \in PastType /\ q \in Puts
  BY SameParts DEF ServerType
<1> DEFINE k == PartKey(q.upload, q.part)
<1>1. CASE PartStored(q)
  <2>1. disk'.stored = disk.stored \cup {k} /\ disk'.campaigns = disk.campaigns /\ disk'.row = disk.row
    BY <1>0, <1>1 DEF PartStored, DiskType
  <2> DEFINE r == [q EXCEPT !.stored = TRUE]
  <2>2. r.stored /\ r.upload = q.upload /\ r.part = q.part
    BY <1>0 DEF Puts
  <2> HIDE DEF r
  <2>3. server'.puts = (server.puts \ {q}) \cup {r} /\ server'.doomed = server.doomed
        /\ server'.calls = server.calls /\ server'.sweep = server.sweep
    BY <1>0, <1>1 DEF PartStored, ServerType, r
  <2>4. past' = past
    BY <1>1 DEF PartStored
  <2>5. HandsOn({k})
    BY <2>1, <2>2, <2>3, <2>4 DEF HandsOn
  <2>6. Answered(k)'
    BY <2>2, <2>3 DEF Answered, SeenTo
  <2> HIDE DEF k
  <2> QED BY <2>5, <2>6, StillAccounted
<1>2. CASE PartRecorded(q)
  <2>1. past' = past
    BY <1>2 DEF PartRecorded
  <2>2. CASE disk.row # None /\ disk.row.id = q.upload
    <3>1. disk' = [disk EXCEPT !.row.recorded = @ \cup {q.part}, !.row.expired = FALSE]
          /\ server' = [server EXCEPT !.puts = @ \ {q}]
      BY <1>2, <2>2 DEF PartRecorded
    <3>2. disk.row \in Rows /\ disk.row # None
      BY <1>0, <2>2 DEF DiskType
    <3>3. disk'.stored = disk.stored /\ disk'.campaigns = disk.campaigns
          /\ disk'.row = [disk.row EXCEPT !.recorded = @ \cup {q.part}, !.expired = FALSE]
      BY <1>0, <3>1 DEF DiskType
    <3>4. disk'.row \in Rows /\ disk'.row.id = disk.row.id
      BY <1>0, <3>2, <3>3 DEF Rows, Puts
    <3>5. disk'.row # None
      BY <3>2, <3>4, RowIsNotNone
    <3>6. server'.puts = server.puts \ {q} /\ server'.doomed = server.doomed
          /\ server'.calls = server.calls /\ server'.sweep = server.sweep
      BY <1>0, <3>1 DEF ServerType
    <3>7. HandsOn({k})
      BY <2>1, <3>3, <3>4, <3>5, <3>6 DEF HandsOn
    <3>8. q.part \in Parts
      BY <1>0 DEF Puts
    <3>9. k \in PartsOf(disk'.row.id)
      BY <2>2, <3>4, <3>8 DEF PartsOf
    <3>10. Answered(k)'
      BY <3>5, <3>9 DEF Answered, Named
    <3> HIDE DEF k
    <3> QED BY <3>7, <3>10, StillAccounted
  <2>3. CASE ~(disk.row # None /\ disk.row.id = q.upload)
    <3>1. disk' = disk /\ server' = [server EXCEPT !.puts = @ \ {q}, !.doomed = @ \cup {k}]
      BY <1>2, <2>3 DEF PartRecorded
    <3>2. server'.puts = server.puts \ {q} /\ server'.doomed = server.doomed \cup {k}
          /\ server'.calls = server.calls /\ server'.sweep = server.sweep
      BY <1>0, <3>1 DEF ServerType
    <3>3. HandsOn({k})
      BY <2>1, <3>1, <3>2 DEF HandsOn
    <3>4. Answered(k)'
      BY <3>2 DEF Answered, SeenTo
    <3> HIDE DEF k
    <3> QED BY <3>3, <3>4, StillAccounted
  <2> QED BY <2>2, <2>3
<1>3. CASE PartFails(q)
  <2>1. disk' = disk /\ server'.puts = server.puts \ {q} /\ server'.doomed = server.doomed
        /\ server'.calls = server.calls /\ server'.sweep = server.sweep
    BY <1>0, <1>3 DEF PartFails, ServerType
  <2>2. past'.forsaken = (IF q.stored /\ (disk.row = None \/ disk.row.id # q.upload)
                          THEN past.forsaken \cup {k} ELSE past.forsaken)
        /\ past'.unswept = past.unswept
    BY <1>0, <1>3 DEF PartFails, Forsakes, PastType
  <2> DEFINE E == IF q.stored THEN {k} ELSE {}
  <2>3. HandsOn(E)
    BY <2>1, <2>2 DEF HandsOn
  <2>4. ASSUME q.stored PROVE Answered(k)'
    <3>1. q.part \in Parts
      BY <1>0 DEF Puts
    <3>2. CASE disk.row = None \/ disk.row.id # q.upload
      BY <2>2, <2>4, <3>2 DEF Answered
    <3>3. CASE disk.row # None /\ disk.row.id = q.upload
      <4>1. k \in PartsOf(disk'.row.id) /\ disk'.row # None
        BY <2>1, <3>1, <3>3 DEF PartsOf
      <4> QED BY <4>1 DEF Answered, Named
    <3> QED BY <3>2, <3>3
  <2>5. \A j \in E : Answered(j)'
    BY <2>4
  <2> HIDE DEF E
  <2> QED BY <2>3, <2>5, StillAccounted
<1>4. CASE PartAnswerLost(q)
  <2> DEFINE r == [q EXCEPT !.awaited = FALSE]
  <2>1. r.stored = q.stored /\ r.upload = q.upload /\ r.part = q.part
    BY <1>0 DEF Puts
  <2> HIDE DEF r
  <2>2. disk' = disk /\ server'.puts = (server.puts \ {q}) \cup {r} /\ server'.doomed = server.doomed
        /\ server'.calls = server.calls /\ server'.sweep = server.sweep
    BY <1>0, <1>4 DEF PartAnswerLost, ServerType, r
  <2>3. past'.forsaken = past.forsaken /\ past'.unswept = past.unswept
    BY <1>0, <1>4 DEF PartAnswerLost, Trouble, PastType
  <2> QED BY <2>1, <2>2, <2>3, QuietAccounted
<1> QED BY <1>1, <1>2, <1>3, <1>4

LEMMA CallAccounted ==
    ASSUME Steady, Accounted, NEW c \in server.calls,
           \/ LookForCreated(c) \/ CheckUpload(c) \/ StageImage(c) \/ Apply(c) \/ DropUpload(c)
           \/ ApplyUnknown(c) \/ CreationFails(c) \/ DropFails(c)
    PROVE  Accounted'
<1>0. disk \in DiskType /\ server \in ServerType /\ past \in PastType /\ c \in Creations
  BY SameParts DEF ServerType
<1>1. past.forsaken \subseteq past'.forsaken /\ past'.unswept = past.unswept
  BY <1>0 DEF PastType, Trouble, Forsakes,
     LookForCreated, CheckUpload, StageImage, Apply, DropUpload, ApplyUnknown, CreationFails, DropFails
<1>2. ASSUME NEW keys, Ends(c, keys)
      PROVE  server'.calls = server.calls \ {c} /\ server'.doomed = server.doomed \cup keys
             /\ server'.puts = server.puts /\ server'.sweep = server.sweep
  BY <1>0, <1>2 DEF Ends, ServerType
<1>3. ASSUME NEW e, Moves(c, e)
      PROVE  server'.calls = (server.calls \ {c}) \cup {e} /\ server'.doomed = server.doomed
             /\ server'.puts = server.puts /\ server'.sweep = server.sweep
  BY <1>0, <1>3 DEF Moves, ServerType
<1>4. \A s \in {"check", "stage", "drop"} : /\ [c EXCEPT !.stage = s].id = c.id
                                          /\ [c EXCEPT !.stage = s].wrote = c.wrote
                                          /\ [c EXCEPT !.stage = s].stage = s
  BY <1>0 DEF Creations
<1>5. ASSUME NEW keys, Ends(c, keys), c.stage # "stage" \/ Written(c) \subseteq keys,
             disk'.stored = disk.stored, disk.campaigns \subseteq disk'.campaigns,
             disk.row # None => \/ disk'.row = disk.row
                                \/ PartsOf(disk.row.id) \subseteq keys
      PROVE  Accounted'
  <2>1. HandsOn(keys)
    BY <1>1, <1>2, <1>5 DEF HandsOn
  <2>2. \A k \in keys : Answered(k)'
    BY <1>2, <1>5 DEF Answered, SeenTo
  <2> QED BY <2>1, <2>2, StillAccounted
<1>6. ASSUME NEW e, Moves(c, e), c.stage = "stage" => e.stage = "stage" /\ e.id = c.id /\ e.wrote = c.wrote,
             disk' = disk
      PROVE  Accounted'
  <2>1. HandsOn({})
    BY <1>1, <1>3, <1>6 DEF HandsOn
  <2> QED BY <2>1, StillAccounted
<1>7. CASE LookForCreated(c)
  BY <1>5, <1>6, <1>7 DEF LookForCreated
<1>8. CASE CheckUpload(c)
  BY <1>5, <1>6, <1>8 DEF CheckUpload
<1>9. CASE StageImage(c)
  <2>1. PICK n \in NextOf(Parts \ c.wrote) :
       IF PartKey(c.of, n) \in disk.stored
       THEN /\ disk' = [disk EXCEPT !.stored = @ \cup {ImageKey(c.id, n)}]
            /\ Moves(c, [c EXCEPT !.wrote = @ \cup {n}])
       ELSE Ends(c, Written(c)) /\ UNCHANGED disk
    BY <1>9 DEF StageImage
  <2>2. CASE PartKey(c.of, n) \in disk.stored
    <3> DEFINE e == [c EXCEPT !.wrote = @ \cup {n}]
               k == ImageKey(c.id, n)
    <3>1. e.id = c.id /\ e.wrote = c.wrote \cup {n} /\ e.stage = c.stage
      BY <1>0 DEF Creations
    <3>2. disk'.stored = disk.stored \cup {k} /\ disk'.campaigns = disk.campaigns /\ disk'.row = disk.row
      BY <1>0, <2>1, <2>2 DEF DiskType
    <3>3. Moves(c, e)
      BY <2>1, <2>2
    <3>4. c.stage = "stage"
      BY <1>9 DEF StageImage
    <3> HIDE DEF e
    <3>5. HandsOn({k})
      BY <1>1, <1>3, <3>1, <3>2, <3>3 DEF HandsOn
    <3>6. k \in Written(e) /\ e \in server'.calls
      BY <1>3, <3>1, <3>3 DEF Written
    <3>7. Answered(k)'
      BY <3>1, <3>4, <3>6 DEF Answered, SeenTo
    <3> HIDE DEF k
    <3> QED BY <3>5, <3>7, StillAccounted
  <2>3. CASE PartKey(c.of, n) \notin disk.stored
    BY <1>5, <2>1, <2>3
  <2> QED BY <2>2, <2>3
<1>10. CASE Apply(c)
  <2> DEFINE e == [c EXCEPT !.stage = "drop"]
  <2>1. CASE Taken(c.key)
    <3>1. server' = [server EXCEPT !.calls = (@ \ {c}) \cup {e}, !.doomed = @ \cup Written(c)] /\ disk' = disk
      BY <1>10, <2>1 DEF Apply
    <3>2. server'.calls = (server.calls \ {c}) \cup {e} /\ server'.doomed = server.doomed \cup Written(c)
          /\ server'.puts = server.puts /\ server'.sweep = server.sweep
      BY <1>0, <3>1 DEF ServerType
    <3> HIDE DEF e
    <3>3. HandsOn(Written(c))
      BY <1>1, <3>1, <3>2 DEF HandsOn
    <3>4. \A k \in Written(c) : Answered(k)'
      BY <3>2 DEF Answered, SeenTo
    <3> QED BY <3>3, <3>4, StillAccounted
  <2>2. CASE ~Taken(c.key)
    <3>1. disk' = Saved(c, TRUE) /\ Moves(c, e) /\ c.wrote = Parts
      BY <1>10, <2>2 DEF Apply
    <3> HIDE DEF e
    <3>2. disk'.stored = disk.stored /\ disk'.row = disk.row
          /\ disk'.campaigns = disk.campaigns \cup {SavedAs(c, TRUE)}
      BY <1>0, <3>1 DEF Saved, SavedAs, DiskType
    <3>3. HandsOn(Written(c))
      BY <1>1, <1>3, <3>1, <3>2 DEF HandsOn
    <3>4. SavedAs(c, TRUE).id = c.id
      BY DEF SavedAs
    <3>5. Written(c) = ImagesOf(c.id)
      BY <3>1 DEF Written, ImagesOf
    <3>6. \A k \in Written(c) : Named(k)'
      BY <3>2, <3>4, <3>5 DEF Named
    <3>7. \A k \in Written(c) : Answered(k)'
      BY <3>6 DEF Answered
    <3> QED BY <3>3, <3>7, StillAccounted
  <2> QED BY <2>1, <2>2
<1>11. CASE DropUpload(c)
  <2>1. disk'.stored = disk.stored /\ disk'.campaigns = disk.campaigns
    BY <1>0, <1>11 DEF DropUpload, RowDropped, DiskType
  <2>2. disk'.row = disk.row \/ disk.row.id = c.of
    BY <1>0, <1>11 DEF DropUpload, RowDropped, DiskType
  <2>3. Ends(c, PartsOf(c.of)) /\ c.stage # "stage"
    BY <1>11 DEF DropUpload
  <2> QED BY <1>5, <2>1, <2>2, <2>3
<1>12. CASE ApplyUnknown(c)
  <2>1. disk'.stored = disk.stored /\ disk.campaigns \subseteq disk'.campaigns /\ disk'.row = disk.row
    BY <1>0, <1>12 DEF ApplyUnknown, Saved, DiskType
  <2> QED BY <1>5, <1>12, <2>1 DEF ApplyUnknown
<1>13. CASE CreationFails(c)
  BY <1>5, <1>13 DEF CreationFails
<1>14. CASE DropFails(c)
  <2>1. Ends(c, {}) /\ c.stage # "stage"
    BY <1>14 DEF DropFails
  <2>2. CASE UNCHANGED disk
    BY <1>5, <2>1, <2>2
  <2>3. CASE Forsakes(LeftBy(c.of)) /\ disk' = RowDropped(c.of)
    <3>1. disk'.stored = disk.stored /\ disk'.campaigns = disk.campaigns /\ (disk'.row = disk.row \/ disk.row.id = c.of)
      BY <1>0, <2>3 DEF RowDropped, DiskType
    <3>2. disk'.row # disk.row => LeftBy(c.of) = PartsOf(c.of) \cap disk.stored
      BY <1>0, <2>3 DEF LeftBy, RowDropped, DiskType
    <3>3. past'.forsaken = past.forsaken \cup LeftBy(c.of)
      BY <1>0, <2>3 DEF Forsakes, PastType
    <3> DEFINE E == IF disk'.row = disk.row THEN {} ELSE PartsOf(c.of)
    <3>4. HandsOn(E)
      BY <1>1, <1>2, <2>1, <3>1 DEF HandsOn
    <3>5. \A k \in E : k \in disk'.stored => Answered(k)'
      BY <3>1, <3>2, <3>3 DEF Answered
    <3> HIDE DEF E
    <3> QED BY <3>4, <3>5, StillAccounted
  <2> QED BY <1>14, <2>2, <2>3 DEF DropFails
<1> QED BY <1>7, <1>8, <1>9, <1>10, <1>11, <1>12, <1>13, <1>14

(* A step of the page, the time and the deletions.                         *)
LEMMA CancelAccounted == ASSUME Steady, Accounted, Cancel PROVE Accounted'
<1>0. disk \in DiskType /\ server \in ServerType /\ past \in PastType /\ server.puts \subseteq Puts
  BY SameParts DEF ServerType
<1>1. past'.forsaken = past.forsaken /\ past'.unswept = past.unswept /\ disk' = disk
  BY <1>0 DEF Cancel, PastType
<1>2. PICK puts \in {NobodyWaits(server.puts)} \cup
                    (IF \E q \in server.puts : q.awaited /\ ~q.stored THEN {Aborted(server.puts)} ELSE {}) :
          server' = [server EXCEPT !.puts = puts, !.cancels = @ \cup {page.upload}]
  BY DEF Cancel
<1>3. \A q \in server.puts : q.stored => \E r \in puts : r.stored /\ r.upload = q.upload /\ r.part = q.part
  <2> SUFFICES ASSUME NEW q \in server.puts, q.stored
               PROVE  \E r \in puts : r.stored /\ r.upload = q.upload /\ r.part = q.part
    OBVIOUS
  <2>1. CASE puts = NobodyWaits(server.puts)
    <3>1. [q EXCEPT !.awaited = FALSE] \in puts
      BY <2>1 DEF NobodyWaits
    <3>2. [q EXCEPT !.awaited = FALSE].stored /\ [q EXCEPT !.awaited = FALSE].upload = q.upload
          /\ [q EXCEPT !.awaited = FALSE].part = q.part
      BY <1>0 DEF Puts
    <3> QED BY <3>1, <3>2
  <2>2. CASE puts = Aborted(server.puts) /\ \E r \in server.puts : r.awaited /\ ~r.stored
    <3>1. ~q.awaited
      BY <2>2, SameParts DEF OneAwaited
    <3>2. q \in puts
      BY <2>2, <3>1 DEF Aborted
    <3> QED BY <3>2
  <2> QED BY <1>2, <2>1, <2>2
<1>4. server'.puts = puts /\ server'.doomed = server.doomed /\ server'.calls = server.calls
  BY <1>0, <1>2 DEF ServerType
<1> QED BY <1>1, <1>3, <1>4, QuietAccounted

(* The cancel drops the row and owes the deletion of its parts; when its   *)
(* commit is saved without an answer, they are left.                       *)
LEMMA CancelStepsAccounted ==
    ASSUME Steady, Accounted, NEW u, CancelDrops(u) \/ CancelFails(u) PROVE Accounted'
<1>0. disk \in DiskType /\ server \in ServerType /\ past \in PastType
  BY SameParts
<1>1. server'.puts = server.puts /\ server'.calls = server.calls /\ server.doomed \subseteq server'.doomed
  BY <1>0 DEF CancelDrops, CancelFails, ServerType
<1>2. CASE UNCHANGED disk
  <2>1. past.forsaken \subseteq past'.forsaken /\ past.unswept \subseteq past'.unswept
    BY <1>0 DEF CancelDrops, CancelFails, Trouble, Forsakes, PastType
  <2>2. HandsOn({})
    BY <1>1, <1>2, <2>1 DEF HandsOn
  <2> QED BY <2>2, StillAccounted
<1>3. CASE Own(u) /\ disk' = RowDropped(u)
  <2>1. disk'.stored = disk.stored /\ disk'.campaigns = disk.campaigns /\ disk.row.id = u
    BY <1>0, <1>3 DEF Own, RowDropped, DiskType
  <2>2. CASE CancelDrops(u)
    <3>1. server'.doomed = server.doomed \cup PartsOf(u) /\ past' = past
      BY <1>0, <1>3, <2>2 DEF CancelDrops, ServerType
    <3>2. HandsOn(PartsOf(u))
      BY <1>1, <2>1, <3>1 DEF HandsOn
    <3>3. \A k \in PartsOf(u) : Answered(k)'
      BY <3>1 DEF Answered, SeenTo
    <3> QED BY <3>2, <3>3, StillAccounted
  <2>3. CASE Forsakes(LeftBy(u))
    <3>1. LeftBy(u) = PartsOf(u) \cap disk.stored
      BY <1>3 DEF Own, LeftBy
    <3>2. past'.forsaken = past.forsaken \cup LeftBy(u) /\ past'.unswept = past.unswept
      BY <1>0, <2>3 DEF Forsakes, PastType
    <3>3. HandsOn(PartsOf(u))
      BY <1>1, <2>1, <3>2 DEF HandsOn
    <3>4. \A k \in PartsOf(u) : k \in disk'.stored => Answered(k)'
      BY <2>1, <3>1, <3>2 DEF Answered
    <3> QED BY <3>3, <3>4, StillAccounted
  <2>4. CASE UNCHANGED disk
    BY <1>2, <2>4
  <2> QED BY <2>2, <2>3, <2>4 DEF CancelFails
<1> QED BY <1>2, <1>3 DEF CancelDrops, CancelFails

LEMMA PageAccounted ==
    ASSUME Steady, Accounted,
           \/ \E wish : Create(wish)
           \/ CancelAnswered \/ Close \/ SendPart \/ PartUnanswered \/ ReadPackage \/ CreateUnanswered \/ Expire
    PROVE  Accounted'
<1>0. disk \in DiskType /\ server \in ServerType /\ past \in PastType /\ server.puts \subseteq Puts
  BY SameParts DEF ServerType
<1>1. past'.forsaken = past.forsaken /\ past'.unswept = past.unswept
  BY <1>0 DEF Create, CancelAnswered, Close, SendPart, PartUnanswered, ReadPackage, CreateUnanswered, Expire,
     Trouble, PastType
<1>2. server'.doomed = server.doomed /\ server.calls \subseteq server'.calls
  BY <1>0 DEF Create, CancelAnswered, Close, SendPart, PartUnanswered, ReadPackage, CreateUnanswered, Expire, ServerType
<1>3. CASE Close
  <2>1. server'.puts = NobodyWaits(server.puts) /\ disk' = disk
    BY <1>0, <1>3 DEF Close, ServerType
  <2>2. \A q \in server.puts : /\ [q EXCEPT !.awaited = FALSE] \in server'.puts
                              /\ [q EXCEPT !.awaited = FALSE].stored = q.stored
                              /\ [q EXCEPT !.awaited = FALSE].upload = q.upload
                              /\ [q EXCEPT !.awaited = FALSE].part = q.part
    BY <1>0, <2>1 DEF NobodyWaits, Puts
  <2> QED BY <1>1, <1>2, <2>1, <2>2, QuietAccounted
<1>4. CASE Expire
  <2>1. disk.row # None /\ disk' = [disk EXCEPT !.row = [disk.row EXCEPT !.expired = TRUE]] /\ server' = server
    BY <1>4 DEF Expire
  <2>2. disk.row \in Rows /\ [disk.row EXCEPT !.expired = TRUE].id = disk.row.id
        /\ [disk.row EXCEPT !.expired = TRUE] \in Rows
    BY <1>0, <2>1 DEF DiskType, Rows
  <2>3. [disk.row EXCEPT !.expired = TRUE] # None
    BY <2>2, RowIsNotNone
  <2>4. disk'.stored = disk.stored /\ disk'.campaigns = disk.campaigns
        /\ disk'.row = [disk.row EXCEPT !.expired = TRUE]
    BY <1>0, <2>1 DEF DiskType
  <2> QED BY <1>1, <2>1, <2>2, <2>3, <2>4, QuietAccounted
<1>5. CASE (\E wish : Create(wish)) \/ CancelAnswered \/ SendPart \/ PartUnanswered \/ ReadPackage \/ CreateUnanswered
  <2>1. disk' = disk /\ server.puts \subseteq server'.puts
    BY <1>0, <1>5 DEF Create, CancelAnswered, SendPart, PartUnanswered, ReadPackage, CreateUnanswered, ServerType
  <2> QED BY <1>1, <1>2, <2>1, QuietAccounted
<1> QED BY <1>3, <1>4, <1>5

(* A file deleted.                                                         *)
LEMMA DeletedFacts ==
    ASSUME Steady, NEW k, Deleted(k)
    PROVE  /\ disk'.row = disk.row /\ disk'.campaigns = disk.campaigns /\ disk'.begun = disk.begun
           /\ disk'.stored = disk.stored \ {k} /\ past'.swept = past.swept
           /\ past'.forsaken = past.forsaken \ {k} /\ past'.unswept = past.unswept \ {k}
  BY SameParts DEF Deleted, DiskType, PastType

LEMMA DeleteAccounted == ASSUME Steady, Accounted, NEW k, Delete(k) PROVE Accounted'
<1>1. server'.doomed = server.doomed \ {k} /\ server'.puts = server.puts /\ server'.calls = server.calls
  BY SameParts DEF Delete, ServerType
<1>2. CASE Deleted(k)
  <2>1. HandsOn({k}) /\ k \notin disk'.stored
    BY <1>1, <1>2, DeletedFacts DEF HandsOn
  <2> QED BY <2>1, StillAccounted
<1>3. CASE Forsakes({k}) /\ UNCHANGED disk
  <2>1. past'.forsaken = past.forsaken \cup {k} /\ past'.unswept = past.unswept
    BY <1>3, SameParts DEF Forsakes, PastType
  <2>2. HandsOn({k})
    BY <1>1, <1>3, <2>1 DEF HandsOn
  <2> QED BY <2>1, <2>2, StillAccounted DEF Answered
<1> QED BY <1>2, <1>3 DEF Delete

(* What a pass of the sweep leaves.                                        *)
LEMMA SweepPartFacts ==
    ASSUME Steady, SweepPart
    PROVE  \E n \in Parts :
             /\ Deleted(PartKey(server.sweep.id, n)) \/ (Trouble /\ UNCHANGED disk)
             /\ server'.doomed = server.doomed /\ server'.puts = server.puts /\ server'.calls = server.calls
             /\ server.sweep # None /\ server'.sweep # None /\ server'.sweep.id = server.sweep.id
             /\ server'.sweep.left = server.sweep.left \ {n}
             /\ page' = page
<1>0. server \in ServerType
  BY SameParts
<1>1. server.sweep \in Passes /\ server.sweep # None
  BY <1>0 DEF SweepPart, ServerType, Sweeps
<1>2. PICK n \in NextOf(server.sweep.left) :
        /\ server' = [server EXCEPT !.sweep.left = @ \ {n}]
        /\ Deleted(PartKey(server.sweep.id, n)) \/ (Trouble /\ UNCHANGED disk)
  BY DEF SweepPart
<1>3. n \in Parts
  BY <1>1, <1>2 DEF NextOf, Passes
<1>4. server' = [server EXCEPT !.sweep = [server.sweep EXCEPT !.left = @ \ {n}]]
  BY <1>0, <1>2 DEF ServerType
<1>5. server'.doomed = server.doomed /\ server'.puts = server.puts /\ server'.calls = server.calls
      /\ server'.sweep = [server.sweep EXCEPT !.left = @ \ {n}]
  BY <1>0, <1>4 DEF ServerType
<1>6. [server.sweep EXCEPT !.left = @ \ {n}] \in Passes
      /\ [server.sweep EXCEPT !.left = @ \ {n}].id = server.sweep.id
      /\ [server.sweep EXCEPT !.left = @ \ {n}].left = server.sweep.left \ {n}
  BY <1>1 DEF Passes
<1>7. server'.sweep # None
  BY <1>5, <1>6, NoneIsApart
<1>8. page' = page
  BY DEF SweepPart
<1> QED BY <1>1, <1>2, <1>3, <1>5, <1>6, <1>7, <1>8

LEMMA SweepAccounted == ASSUME Steady, Accounted, Sweeps1 PROVE Accounted'
<1>0. disk \in DiskType /\ server \in ServerType /\ past \in PastType
  BY SameParts
<1>1. CASE SweepStarts
  <2>1. disk' = disk /\ server.sweep = None /\ server'.puts = server.puts /\ server'.calls = server.calls
        /\ server'.doomed = server.doomed /\ past'.forsaken = past.forsaken /\ past'.unswept = past.unswept
    BY <1>0, <1>1 DEF SweepStarts, ServerType, PastType
  <2> QED BY <2>1, QuietAccounted
<1>2. CASE SweepPart
  <2>1. PICK n \in Parts :
             /\ Deleted(PartKey(server.sweep.id, n)) \/ (Trouble /\ UNCHANGED disk)
             /\ server'.doomed = server.doomed /\ server'.puts = server.puts /\ server'.calls = server.calls
             /\ server.sweep # None /\ server'.sweep # None /\ server'.sweep.id = server.sweep.id
             /\ server'.sweep.left = server.sweep.left \ {n}
    BY <1>2, SweepPartFacts
  <2> DEFINE k == PartKey(server.sweep.id, n)
  <2>2. CASE Deleted(k)
    <3>1. HandsOn({k}) /\ k \notin disk'.stored
      BY <2>1, <2>2, DeletedFacts DEF HandsOn
    <3> HIDE DEF k
    <3> QED BY <3>1, StillAccounted
  <2>3. CASE Trouble /\ UNCHANGED disk
    <3>1. past'.forsaken = past.forsaken /\ past'.unswept = past.unswept
      BY <1>0, <2>3 DEF Trouble, PastType
    <3> QED BY <2>1, <2>3, <3>1, QuietAccounted
  <2> QED BY <2>1, <2>2, <2>3
<1>3. CASE SweepRow
  <2> DEFINE u == server.sweep.id
  <2>1. server'.puts = server.puts /\ server'.calls = server.calls /\ server'.doomed = server.doomed
    BY <1>0, <1>3 DEF SweepRow, ServerType
  <2>2. CASE UNCHANGED disk /\ Trouble
    <3>1. past'.forsaken = past.forsaken /\ past'.unswept = past.unswept
      BY <1>0, <2>2 DEF Trouble, PastType
    <3> QED BY <2>1, <2>2, <3>1, QuietAccounted
  <2>3. CASE disk' = RowDropped(u) /\ past' = [past EXCEPT !.unswept = @ \cup LeftBy(u)]
    <3>1. disk'.stored = disk.stored /\ disk'.campaigns = disk.campaigns
          /\ (disk'.row = disk.row \/ disk.row.id = u)
      BY <1>0, <2>3 DEF RowDropped, DiskType
    <3>2. disk'.row # disk.row => LeftBy(u) = PartsOf(u) \cap disk.stored
      BY <1>0, <2>3 DEF LeftBy, RowDropped, DiskType
    <3>3. past'.unswept = past.unswept \cup LeftBy(u) /\ past'.forsaken = past.forsaken
      BY <1>0, <2>3 DEF PastType
    <3> DEFINE E == IF disk'.row = disk.row THEN {} ELSE PartsOf(u)
    <3>4. HandsOn(E)
      BY <2>1, <3>1, <3>3 DEF HandsOn
    <3>5. \A k \in E : k \in disk'.stored => Answered(k)'
      BY <3>1, <3>2, <3>3 DEF Answered
    <3> HIDE DEF E
    <3> QED BY <3>4, <3>5, StillAccounted
  <2> QED BY <1>3, <2>2, <2>3 DEF SweepRow
<1> QED BY <1>1, <1>2, <1>3 DEF Sweeps1

LEMMA CrashAccounted == ASSUME Steady, Accounted, Crash PROVE Accounted'
<1>1. disk' = disk /\ past'.forsaken = past.forsaken \cup {k \in disk.stored : InHand(k)}
      /\ past'.unswept = past.unswept
  BY SameParts DEF Crash, Forsakes, PastType
<1>2. \A k : SeenTo(k) => InHand(k)
  BY DEF SeenTo, InHand
<1>3. ASSUME NEW k \in disk'.stored PROVE Answered(k)'
  <2>1. Answered(k) /\ k \in disk.stored
    BY <1>1, <1>3 DEF Accounted
  <2>2. Named(k) => Named(k)'
    BY <1>1 DEF Named
  <2> QED BY <1>1, <1>2, <2>1, <2>2 DEF Answered
<1> QED BY <1>3 DEF Accounted

LEMMA AccountedStep == Steady /\ Accounted /\ [Next]_vars => Accounted'
<1> SUFFICES ASSUME Steady, Accounted, [Next]_vars PROVE Accounted'
  OBVIOUS
<1>1. ASSUME NEW f, NEW after, Send(f, after) PROVE Accounted'
  BY <1>1, SendAccounted
<1>2. CASE Tap \/ CreateAgain
  <2>1. \E wish : Create(wish)
    BY <1>2 DEF Tap, CreateAgain
  <2> QED BY <2>1, PageAccounted
<1>3. CASE \/ CancelAnswered \/ Close \/ Expire
           \/ SendPart \/ PartUnanswered \/ ReadPackage \/ CreateUnanswered
  BY <1>3, PageAccounted
<1>4. ASSUME NEW q \in server.puts, PartStored(q) \/ PartRecorded(q) \/ PartFails(q) \/ PartAnswerLost(q)
      PROVE  Accounted'
  BY <1>4, PutAccounted
<1>5. ASSUME NEW c \in server.calls,
             \/ LookForCreated(c) \/ CheckUpload(c) \/ StageImage(c) \/ Apply(c) \/ DropUpload(c)
             \/ ApplyUnknown(c) \/ CreationFails(c) \/ DropFails(c)
      PROVE  Accounted'
  BY <1>5, CallAccounted
<1>6. ASSUME NEW k, Delete(k) PROVE Accounted'
  BY <1>6, DeleteAccounted
<1>7. CASE Cancel \/ Sweeps1 \/ Crash
  BY <1>7, CancelAccounted, SweepAccounted, CrashAccounted
<1>8. ASSUME NEW u, CancelDrops(u) \/ CancelFails(u) PROVE Accounted'
  BY <1>8, CancelStepsAccounted
<1>9. CASE UNCHANGED vars
  BY <1>9, QuietAccounted DEF vars
<1> QED BY <1>1, <1>2, <1>3, <1>4, <1>5, <1>6, <1>7, <1>8, <1>9
       DEF Next, Choose, Retry, PageSteps, PartSteps, CreationSteps, CancelSteps

(* Every file of the store has somebody, whatever order uploads, creations, *)
(* sweeps, failures and crashes come in, or is in one of the two sets that *)
(* say how it was left: by a request (its deletion failed, it died, its    *)
(* commit's answer was lost, or it could not record a part whose row had   *)
(* gone), or by a sweep that took the row while the file was there         *)
(* (http.go:84-120, rpc_import.go:224-269, importer.go:108-124,            *)
(* sweep.go:76-90). There is no other way to leave one.                    *)
THEOREM FilesAreSomebodys == Spec => []NobodysFile
<1>1. Init => Accounted
  BY DEF Init, Accounted
<1>2. Accounted => NobodysFile
  <2>1. \A k : SeenTo(k) => InHand(k)
    BY DEF SeenTo, InHand
  <2> QED BY <2>1 DEF Accounted, Answered, NobodysFile
<1>3. Inv => Steady
  BY DEF Inv
<1> QED BY <1>1, <1>2, <1>3, AccountedStep, Invariance, PTL DEF Spec

------------------------------------------------------------------------------
(* What the row of the upload says is in the store.                        *)

(* Nothing is about an upload that has not begun.                          *)
UploadsSoFar ==
    /\ disk.row # None => disk.row.id <= disk.begun
    /\ page.upload <= disk.begun
    /\ \A q \in server.puts : q.upload <= disk.begun
    /\ \A c \in server.calls : c.of <= disk.begun
    /\ \A u \in Uploads, n \in Parts : PartKey(u, n) \in server.doomed => u <= disk.begun

SweepIsTheLast == server.sweep # None => server.sweep.id = past.swept

(* Nobody owes the deletion of a part of the upload that stands; and until *)
(* a sweep begins on it, what was stored for it stays.                     *)
StandsWhole ==
    disk.row # None =>
        /\ \A n \in Parts : PartKey(disk.row.id, n) \notin server.doomed
        /\ disk.row.id # past.swept =>
             /\ \A q \in server.puts : q.stored /\ q.upload = disk.row.id =>
                    PartKey(q.upload, q.part) \in disk.stored
             /\ \A n \in disk.row.recorded : PartKey(disk.row.id, n) \in disk.stored

UploadsKept == UploadsSoFar /\ SweepIsTheLast /\ StandsWhole

LEMMA UploadNumbers ==
    ASSUME Steady
    PROVE  /\ disk.begun \in Nat /\ page.upload \in Nat /\ past.swept \in Nat
           /\ disk.row # None => disk.row.id \in Uploads /\ disk.row.recorded \subseteq Parts
           /\ \A q \in server.puts : q.upload \in Uploads /\ q.part \in Parts
           /\ \A c \in server.calls : c.of \in Uploads
           /\ \A u \in Uploads : u \in Nat
<1>1. disk.begun \in Nat /\ page.upload \in Nat /\ past.swept \in Nat
  BY SameParts, ImportBounds DEF DiskType, Pages, PastType
<1>2. disk.row # None => disk.row.id \in Uploads /\ disk.row.recorded \subseteq Parts
  BY SameParts DEF DiskType, Rows
<1>3. \A q \in server.puts : q.upload \in Uploads /\ q.part \in Parts
  BY SameParts DEF ServerType, Puts
<1>4. \A c \in server.calls : c.of \in Uploads
  BY SameParts DEF ServerType, Creations
<1>5. \A u \in Uploads : u \in Nat
  BY ImportBounds DEF Uploads
<1> QED BY <1>1, <1>2, <1>3, <1>4, <1>5

(* A step that begins no upload: it may drop the row, owe the parts of one *)
(* that is not there, send, store and record parts, and ask for creations. *)
GoesOn ==
    /\ disk'.begun = disk.begun
    /\ disk'.row # None => disk.row # None /\ disk'.row.id = disk.row.id
    /\ page'.upload \in {0, page.upload} \/ (disk.row # None /\ page'.upload = disk.row.id)
    /\ \A q \in server'.puts :
          \/ q.upload = page.upload /\ ~q.stored
          \/ \E r \in server.puts : /\ q.upload = r.upload /\ q.part = r.part
                                    /\ q.stored => r.stored \/ PartKey(q.upload, q.part) \in disk'.stored
    /\ \A c \in server'.calls : c.of = page.upload \/ \E d \in server.calls : c.of = d.of
    /\ \A u \in Uploads, n \in Parts : PartKey(u, n) \in server'.doomed =>
          \/ PartKey(u, n) \in server.doomed
          \/ u <= disk.begun /\ (disk'.row # None => disk.row.id # u)
    /\ server'.sweep # None => server'.sweep.id = past'.swept
    /\ past'.swept = past.swept \/ (disk.row # None /\ past'.swept = disk.row.id)
    /\ disk'.row # None /\ disk.row.id # past'.swept =>
          /\ \A n \in Parts : PartKey(disk.row.id, n) \in disk.stored => PartKey(disk.row.id, n) \in disk'.stored
          /\ \A n \in disk'.row.recorded :
                n \in disk.row.recorded \/ PartKey(disk.row.id, n) \in disk'.stored

LEMMA KeptGoingOn == ASSUME Steady, UploadsKept, GoesOn PROVE UploadsKept'
<1>1. 0 <= disk.begun
  BY UploadNumbers
<1>2. UploadsSoFar'
  BY <1>1, UploadNumbers DEF UploadsKept, UploadsSoFar, GoesOn
<1>3. SweepIsTheLast'
  BY DEF SweepIsTheLast, GoesOn
<1>4. StandsWhole'
  <2> SUFFICES ASSUME disk'.row # None
               PROVE  /\ \A n \in Parts : PartKey(disk'.row.id, n) \notin server'.doomed
                      /\ disk'.row.id # past'.swept =>
                           /\ \A q \in server'.puts : q.stored /\ q.upload = disk'.row.id =>
                                  PartKey(q.upload, q.part) \in disk'.stored
                           /\ \A n \in disk'.row.recorded : PartKey(disk'.row.id, n) \in disk'.stored
    BY DEF StandsWhole
  <2>1. disk.row # None /\ disk'.row.id = disk.row.id /\ disk.row.id \in Uploads /\ disk.row.recorded \subseteq Parts
    BY UploadNumbers DEF GoesOn
  <2>2. \A n \in Parts : PartKey(disk.row.id, n) \notin server'.doomed
    BY <2>1 DEF GoesOn, UploadsKept, StandsWhole
  <2>3. ASSUME disk.row.id # past'.swept
        PROVE  /\ \A q \in server'.puts : q.stored /\ q.upload = disk.row.id =>
                      PartKey(q.upload, q.part) \in disk'.stored
               /\ \A n \in disk'.row.recorded : PartKey(disk.row.id, n) \in disk'.stored
    <3>1. disk.row.id # past.swept
      BY <2>1, <2>3 DEF GoesOn
    <3>2. \A n \in Parts : PartKey(disk.row.id, n) \in disk.stored => PartKey(disk.row.id, n) \in disk'.stored
      BY <2>3 DEF GoesOn
    <3>3. \A n \in disk'.row.recorded : PartKey(disk.row.id, n) \in disk'.stored
      BY <2>1, <2>3, <3>1, <3>2 DEF GoesOn, UploadsKept, StandsWhole
    <3>4. ASSUME NEW q \in server'.puts, q.stored, q.upload = disk.row.id
          PROVE  PartKey(q.upload, q.part) \in disk'.stored
      <4>1. CASE q.upload = page.upload /\ ~q.stored
        BY <3>4, <4>1
      <4>2. CASE \E r \in server.puts : /\ q.upload = r.upload /\ q.part = r.part
                                        /\ q.stored => r.stored \/ PartKey(q.upload, q.part) \in disk'.stored
        <5>1. PICK r \in server.puts : /\ q.upload = r.upload /\ q.part = r.part
                                       /\ q.stored => r.stored \/ PartKey(q.upload, q.part) \in disk'.stored
          BY <4>2
        <5>2. r.part \in Parts
          BY UploadNumbers
        <5>3. r.stored => PartKey(r.upload, r.part) \in disk.stored
          BY <2>1, <3>1, <3>4, <5>1 DEF UploadsKept, StandsWhole
        <5> QED BY <3>2, <3>4, <5>1, <5>2, <5>3
      <4> QED BY <4>1, <4>2 DEF GoesOn
    <3> QED BY <3>3, <3>4
  <2> QED BY <2>1, <2>2, <2>3
<1> QED BY <1>2, <1>3, <1>4 DEF UploadsKept

(* A step that touches none of it.                                         *)
LEMMA QuietUploads ==
    ASSUME Steady, UploadsKept, disk'.begun = disk.begun, disk.stored \subseteq disk'.stored,
           disk'.row = None \/ (disk.row # None /\ disk'.row.id = disk.row.id
                                /\ disk'.row.recorded = disk.row.recorded),
           page'.upload \in {0, page.upload} \/ (disk.row # None /\ page'.upload = disk.row.id),
           \A q \in server'.puts : \/ q.upload = page.upload /\ ~q.stored
                                   \/ \E r \in server.puts : /\ q.upload = r.upload /\ q.part = r.part
                                                             /\ q.stored => r.stored,
           \A c \in server'.calls : c.of = page.upload \/ \E d \in server.calls : c.of = d.of,
           \A u \in Uploads, n \in Parts : PartKey(u, n) \in server'.doomed =>
                \/ PartKey(u, n) \in server.doomed
                \/ u <= disk.begun /\ (disk'.row # None => disk.row.id # u),
           server'.sweep \in {None, server.sweep}, past'.swept = past.swept
    PROVE  UploadsKept'
<1>1. server'.sweep # None => server'.sweep.id = past'.swept
  BY DEF UploadsKept, SweepIsTheLast
<1>2. GoesOn
  BY <1>1 DEF GoesOn
<1> QED BY <1>2, KeptGoingOn

LEMMA PartsOfOne ==
    /\ \A u, v, n : PartKey(u, n) \in PartsOf(v) => u = v
    /\ \A u, n, v, m : PartKey(u, n) = PartKey(v, m) => u = v /\ n = m
    /\ \A c, u, n : PartKey(u, n) \notin Written(c)
  BY KeysApart DEF PartsOf, PartKey, Written

(* A new upload takes the place of the one that stood.                     *)
LEMMA ReplaceUploads ==
    ASSUME Steady, UploadsKept, NEW f, Replace(f) \/ (TakesThePlace(f) /\ UNCHANGED server),
           page'.upload \in {page.upload, disk'.row.id}, past'.swept = past.swept
    PROVE  UploadsKept'
<1>0. disk \in DiskType /\ server \in ServerType
  BY SameParts
<1> DEFINE gone == IF disk.row = None THEN {} ELSE PartsOf(disk.row.id)
           new == disk.begun + 1
<1>1. new \in Uploads /\ \A i \in Nat : i <= disk.begun => i <= new /\ i # new
  BY UploadNumbers, ImportBounds DEF Replace, TakesThePlace, Uploads
<1>2. disk' = [disk EXCEPT !.begun = @ + 1,
                  !.row = [id |-> disk.begun + 1, file |-> f, recorded |-> {}, expired |-> FALSE]]
      /\ server' \in {server, [server EXCEPT !.doomed = @ \cup gone]}
  BY DEF Replace, TakesThePlace
<1>3. disk'.begun = new /\ disk'.row.id = new /\ disk'.row.recorded = {}
  BY <1>0, <1>2 DEF DiskType
<1>4. server'.doomed \subseteq server.doomed \cup gone /\ server'.puts = server.puts
      /\ server'.calls = server.calls /\ server'.sweep = server.sweep
  BY <1>0, <1>2 DEF ServerType
<1>5. \A u, n : PartKey(u, n) \in gone => disk.row # None /\ u = disk.row.id
  BY PartsOfOne
<1> HIDE DEF gone, new
<1>6. \A u \in Uploads, n \in Parts : PartKey(u, n) \in server'.doomed => u <= disk.begun
  BY <1>4, <1>5 DEF UploadsKept, UploadsSoFar
<1>7. new <= new
  BY <1>1, UploadNumbers
<1>8. UploadsSoFar'
  BY <1>1, <1>3, <1>4, <1>6, <1>7, UploadNumbers DEF UploadsKept, UploadsSoFar
<1>9. SweepIsTheLast'
  BY <1>4 DEF UploadsKept, SweepIsTheLast
<1>10. \A n \in Parts : PartKey(new, n) \notin server'.doomed
  BY <1>1, <1>6, UploadNumbers
<1>11. \A q \in server'.puts : q.upload # new
  BY <1>1, <1>4, UploadNumbers DEF UploadsKept, UploadsSoFar
<1>12. StandsWhole'
  BY <1>3, <1>10, <1>11 DEF StandsWhole
<1> QED BY <1>8, <1>9, <1>12 DEF UploadsKept

LEMMA SendUploads ==
    ASSUME Steady, UploadsKept, NEW f, NEW after, Send(f, after) PROVE UploadsKept'
<1>0. disk \in DiskType /\ server \in ServerType /\ page \in Pages /\ past \in PastType
  BY SameParts
<1>1. past'.swept = past.swept
  BY <1>0 DEF Send, BeginUnknown, Trouble, Forsakes, PastType
<1>2. ASSUME page' = NotBegun(f) PROVE page'.upload = page.upload
  BY <1>0, <1>2 DEF NotBegun, Pages
<1>3. ASSUME page' = Begun(f, after) PROVE page'.upload = disk'.row.id
  BY <1>0, <1>3 DEF Begun, Pages
<1>4. CASE UNCHANGED <<disk, server>> /\ page' = NotBegun(f)
  BY <1>1, <1>2, <1>4, QuietUploads
<1>5. ASSUME BeginImport(f), page'.upload \in {page.upload, disk'.row.id} PROVE UploadsKept'
  <2>1. CASE Resumes(f)
    <3>1. disk.row # None /\ disk' = [disk EXCEPT !.row = [disk.row EXCEPT !.expired = FALSE]] /\ server' = server
      BY <1>5, <2>1 DEF BeginImport, Resume, Resumes
    <3>2. disk.row \in Rows /\ [disk.row EXCEPT !.expired = FALSE].id = disk.row.id
          /\ [disk.row EXCEPT !.expired = FALSE].recorded = disk.row.recorded
      BY <1>0, <3>1 DEF DiskType, Rows
    <3>3. disk'.stored = disk.stored /\ disk'.begun = disk.begun
          /\ disk'.row = [disk.row EXCEPT !.expired = FALSE]
      BY <1>0, <3>1 DEF DiskType
    <3> QED BY <1>1, <1>5, <3>1, <3>2, <3>3, QuietUploads
  <2>2. CASE ~Resumes(f)
    BY <1>1, <1>5, <2>2, ReplaceUploads DEF BeginImport
  <2> QED BY <2>1, <2>2
<1>6. CASE BeginUnknown(f) /\ page' = NotBegun(f)
  BY <1>1, <1>2, <1>6, ReplaceUploads DEF BeginUnknown
<1> QED BY <1>2, <1>3, <1>4, <1>5, <1>6 DEF Send

LEMMA PutUploads ==
    ASSUME Steady, UploadsKept, NEW q \in server.puts,
           PartStored(q) \/ PartRecorded(q) \/ PartFails(q) \/ PartAnswerLost(q)
    PROVE  UploadsKept'
<1>0. disk \in DiskType /\ server \in ServerType /\ past \in PastType /\ page \in Pages /\ q \in Puts
  BY SameParts DEF ServerType
<1> DEFINE k == PartKey(q.upload, q.part)
<1>1. \A p \in Pages : PageFails(p, "preview").upload = p.upload
  BY DEF PageFails, Pages
<1>2. page'.upload = page.upload
  BY <1>0, <1>1 DEF PartStored, PartRecorded, PartFails, PartAnswerLost, SendsAgain, Pages
<1>3. past'.swept = past.swept
  BY <1>0 DEF PartStored, PartRecorded, PartFails, PartAnswerLost, Trouble, Forsakes, PastType
<1>4. server'.calls = server.calls /\ server'.sweep = server.sweep
  BY <1>0 DEF PartStored, PartRecorded, PartFails, PartAnswerLost, ServerType
<1>5. q.upload <= disk.begun /\ q.upload \in Uploads /\ q.part \in Parts
  BY UploadNumbers DEF UploadsKept, UploadsSoFar
<1>6. server.sweep # None => server.sweep.id = past.swept
  BY DEF UploadsKept, SweepIsTheLast
<1>7. CASE PartStored(q)
  <2> DEFINE r == [q EXCEPT !.stored = TRUE]
  <2>1. disk'.stored = disk.stored \cup {k} /\ disk'.begun = disk.begun /\ disk'.row = disk.row
    BY <1>0, <1>7 DEF PartStored, DiskType
  <2>2. r.upload = q.upload /\ r.part = q.part
    BY <1>0 DEF Puts
  <2>3. server'.puts = (server.puts \ {q}) \cup {r} /\ server'.doomed = server.doomed
    BY <1>0, <1>7 DEF PartStored, ServerType
  <2> HIDE DEF r
  <2>4. PartKey(r.upload, r.part) \in disk'.stored
    BY <2>1, <2>2
  <2>5. GoesOn
    BY <1>2, <1>3, <1>4, <1>6, <2>1, <2>2, <2>3, <2>4 DEF GoesOn
  <2> QED BY <2>5, KeptGoingOn
<1>8. CASE PartRecorded(q)
  <2>1. server'.puts = server.puts \ {q}
    BY <1>0, <1>8 DEF PartRecorded, ServerType
  <2>2. CASE disk.row # None /\ disk.row.id = q.upload
    <3>1. disk' = [disk EXCEPT !.row.recorded = @ \cup {q.part}, !.row.expired = FALSE]
          /\ server' = [server EXCEPT !.puts = @ \ {q}] /\ q.stored
      BY <1>8, <2>2 DEF PartRecorded
    <3>2. disk.row \in Rows
      BY <1>0, <2>2 DEF DiskType
    <3>3. disk'.stored = disk.stored /\ disk'.begun = disk.begun
          /\ disk'.row = [disk.row EXCEPT !.recorded = @ \cup {q.part}, !.expired = FALSE]
      BY <1>0, <3>1 DEF DiskType
    <3>4. disk'.row.id = disk.row.id /\ disk'.row.recorded = disk.row.recorded \cup {q.part}
      BY <3>2, <3>3 DEF Rows
    <3>5. server'.doomed = server.doomed
      BY <1>0, <3>1 DEF ServerType
    <3>6. disk.row.id # past.swept => k \in disk.stored
      BY <2>2, <3>1 DEF UploadsKept, StandsWhole
    <3>7. GoesOn
      BY <1>2, <1>3, <1>4, <1>6, <2>1, <2>2, <3>3, <3>4, <3>5, <3>6 DEF GoesOn
    <3> QED BY <3>7, KeptGoingOn
  <2>3. CASE ~(disk.row # None /\ disk.row.id = q.upload)
    <3>1. disk' = disk /\ server' = [server EXCEPT !.puts = @ \ {q}, !.doomed = @ \cup {k}]
      BY <1>8, <2>3 DEF PartRecorded
    <3>2. server'.doomed = server.doomed \cup {k}
      BY <1>0, <3>1 DEF ServerType
    <3>3. \A u \in Uploads, n \in Parts : PartKey(u, n) \in server'.doomed =>
                \/ PartKey(u, n) \in server.doomed
                \/ u <= disk.begun /\ (disk'.row # None => disk.row.id # u)
      BY <1>5, <2>3, <3>1, <3>2, PartsOfOne
    <3>4. GoesOn
      BY <1>2, <1>3, <1>4, <1>6, <2>1, <3>1, <3>3 DEF GoesOn
    <3> QED BY <3>4, KeptGoingOn
  <2> QED BY <2>2, <2>3
<1>9. CASE PartFails(q)
  <2>1. disk' = disk /\ server'.puts = server.puts \ {q} /\ server'.doomed = server.doomed
    BY <1>0, <1>9 DEF PartFails, ServerType
  <2> QED BY <1>2, <1>3, <1>4, <2>1, QuietUploads
<1>10. CASE PartAnswerLost(q)
  <2> DEFINE r == [q EXCEPT !.awaited = FALSE]
  <2>1. r.upload = q.upload /\ r.part = q.part /\ r.stored = q.stored
    BY <1>0 DEF Puts
  <2>2. disk' = disk /\ server'.puts = (server.puts \ {q}) \cup {r} /\ server'.doomed = server.doomed
    BY <1>0, <1>10 DEF PartAnswerLost, ServerType
  <2> HIDE DEF r
  <2> QED BY <1>2, <1>3, <1>4, <2>1, <2>2, QuietUploads
<1> QED BY <1>7, <1>8, <1>9, <1>10

LEMMA AnsweredUpload ==
    ASSUME Steady, NEW c, page' \in {page, Made(c), Failed(c), Refused(c)}
    PROVE  page'.upload \in {0, page.upload}
  BY SameParts DEF Made, Failed, Refused, PageFails, Pages

LEMMA CallUploads ==
    ASSUME Steady, UploadsKept, NEW c \in server.calls,
           \/ LookForCreated(c) \/ CheckUpload(c) \/ StageImage(c) \/ Apply(c) \/ DropUpload(c)
           \/ ApplyUnknown(c) \/ CreationFails(c) \/ DropFails(c)
    PROVE  UploadsKept'
<1>0. disk \in DiskType /\ server \in ServerType /\ past \in PastType /\ c \in Creations
  BY SameParts DEF ServerType
<1>1. past'.swept = past.swept
  BY <1>0 DEF PastType, Trouble, Forsakes,
     LookForCreated, CheckUpload, StageImage, Apply, DropUpload, ApplyUnknown, CreationFails, DropFails
<1>2. page' \in {page, Made(c), Failed(c), Refused(c)}
  BY DEF LookForCreated, CheckUpload, StageImage, Apply, DropUpload, ApplyUnknown, CreationFails, DropFails
<1>3. page'.upload \in {0, page.upload}
  BY <1>2, AnsweredUpload
<1>4. disk'.begun = disk.begun /\ disk.stored \subseteq disk'.stored
  BY <1>0 DEF LookForCreated, CheckUpload, StageImage, Apply, DropUpload, ApplyUnknown, CreationFails, DropFails,
              Saved, RowDropped, DiskType
<1>5. /\ ~DropUpload(c) => disk'.row \in {None, disk.row}
      /\ DropUpload(c) => disk'.row = None \/ (disk'.row = disk.row /\ disk.row.id # c.of)
  BY <1>0 DEF LookForCreated, CheckUpload, StageImage, Apply, DropUpload, ApplyUnknown, CreationFails, DropFails,
              Saved, RowDropped, DiskType
<1>6. c.of <= disk.begun
  BY DEF UploadsKept, UploadsSoFar
<1>7. ASSUME NEW keys, Ends(c, keys),
             \A u, n : PartKey(u, n) \in keys => u = c.of /\ DropUpload(c)
      PROVE  UploadsKept'
  <2>1. server'.calls = server.calls \ {c} /\ server'.doomed = server.doomed \cup keys
        /\ server'.puts = server.puts /\ server'.sweep = server.sweep
    BY <1>0, <1>7 DEF Ends, ServerType
  <2>2. \A u \in Uploads, n \in Parts : PartKey(u, n) \in server'.doomed =>
                \/ PartKey(u, n) \in server.doomed
                \/ u <= disk.begun /\ (disk'.row # None => disk.row.id # u)
    BY <1>5, <1>6, <1>7, <2>1
  <2> QED BY <1>1, <1>3, <1>4, <1>5, <2>1, <2>2, QuietUploads
<1>8. ASSUME NEW e, e.of = c.of, server'.calls = (server.calls \ {c}) \cup {e},
             server'.doomed \in {server.doomed, server.doomed \cup Written(c)},
             server'.puts = server.puts, server'.sweep = server.sweep, ~DropUpload(c)
      PROVE  UploadsKept'
  <2>1. \A u \in Uploads, n \in Parts : PartKey(u, n) \in server'.doomed => PartKey(u, n) \in server.doomed
    BY <1>8, PartsOfOne
  <2> QED BY <1>1, <1>3, <1>4, <1>5, <1>8, <2>1, QuietUploads
<1>9. ASSUME NEW e, Moves(c, e), e.of = c.of, ~DropUpload(c) PROVE UploadsKept'
  <2>1. server'.calls = (server.calls \ {c}) \cup {e} /\ server'.doomed = server.doomed
        /\ server'.puts = server.puts /\ server'.sweep = server.sweep
    BY <1>0, <1>9 DEF Moves, ServerType
  <2> QED BY <1>8, <1>9, <2>1
<1>10. /\ \A s \in {"check", "stage", "drop"} : [c EXCEPT !.stage = s].of = c.of
       /\ \A n : [c EXCEPT !.wrote = @ \cup {n}].of = c.of
  BY <1>0 DEF Creations
<1>11. ASSUME Ends(c, Written(c)) PROVE UploadsKept'
  BY <1>7, <1>11, PartsOfOne
<1>12. ASSUME Ends(c, {}) PROVE UploadsKept'
  BY <1>7, <1>12
<1>13. CASE DropUpload(c)
  <2>1. Ends(c, PartsOf(c.of))
    BY <1>13 DEF DropUpload
  <2> QED BY <1>7, <1>13, <2>1, PartsOfOne
<1>14. CASE ~DropUpload(c) /\ (LookForCreated(c) \/ CheckUpload(c))
  BY <1>9, <1>10, <1>12, <1>14 DEF LookForCreated, CheckUpload
<1>15. CASE ~DropUpload(c) /\ StageImage(c)
  <2>1. \/ \E n : Moves(c, [c EXCEPT !.wrote = @ \cup {n}])
        \/ Ends(c, Written(c))
    BY <1>15 DEF StageImage
  <2> QED BY <1>9, <1>10, <1>11, <1>15, <2>1
<1>16. CASE ~DropUpload(c) /\ Apply(c)
  <2> DEFINE e == [c EXCEPT !.stage = "drop"]
  <2>1. e.of = c.of
    BY <1>10
  <2>2. CASE Moves(c, e)
    BY <1>9, <1>16, <2>1, <2>2
  <2>3. CASE server' = [server EXCEPT !.calls = (@ \ {c}) \cup {e}, !.doomed = @ \cup Written(c)]
    <3>1. server'.calls = (server.calls \ {c}) \cup {e} /\ server'.doomed = server.doomed \cup Written(c)
          /\ server'.puts = server.puts /\ server'.sweep = server.sweep
      BY <1>0, <2>3 DEF ServerType
    <3> HIDE DEF e
    <3> QED BY <1>8, <1>16, <2>1, <3>1
  <2> QED BY <1>16, <2>2, <2>3 DEF Apply
<1>17. CASE ~DropUpload(c) /\ (ApplyUnknown(c) \/ CreationFails(c))
  BY <1>11, <1>17 DEF ApplyUnknown, CreationFails
<1>18. CASE ~DropUpload(c) /\ DropFails(c)
  BY <1>12, <1>18 DEF DropFails
<1> QED BY <1>13, <1>14, <1>15, <1>16, <1>17, <1>18

LEMMA CancelUploads == ASSUME Steady, UploadsKept, Cancel PROVE UploadsKept'
<1>0. disk \in DiskType /\ server \in ServerType /\ past \in PastType /\ server.puts \subseteq Puts
  BY SameParts DEF ServerType
<1>1. past'.swept = past.swept /\ disk' = disk
  BY <1>0 DEF Cancel, PastType
<1>2. PICK puts \in {NobodyWaits(server.puts), Aborted(server.puts)} :
          server' = [server EXCEPT !.puts = puts, !.cancels = @ \cup {page.upload}]
  BY DEF Cancel
<1>3. \A q \in puts : \E r \in server.puts : q.upload = r.upload /\ q.part = r.part /\ (q.stored => r.stored)
  <2>1. CASE puts = NobodyWaits(server.puts)
    <3>1. \A r \in server.puts : /\ [r EXCEPT !.awaited = FALSE].upload = r.upload
                                /\ [r EXCEPT !.awaited = FALSE].part = r.part
                                /\ [r EXCEPT !.awaited = FALSE].stored = r.stored
      BY <1>0 DEF Puts
    <3> QED BY <2>1, <3>1 DEF NobodyWaits
  <2>2. CASE puts = Aborted(server.puts)
    BY <2>2 DEF Aborted
  <2> QED BY <1>2, <2>1, <2>2
<1>4. page'.upload = page.upload
  BY DEF Cancel, NewPage
<1>5. server'.puts = puts /\ server'.doomed = server.doomed
      /\ server'.calls = server.calls /\ server'.sweep = server.sweep
  BY <1>0, <1>2 DEF ServerType
<1> QED BY <1>1, <1>3, <1>4, <1>5, QuietUploads

LEMMA CancelStepsUploads ==
    ASSUME Steady, UploadsKept, NEW u \in server.cancels, CancelDrops(u) \/ CancelFails(u) PROVE UploadsKept'
<1>0. disk \in DiskType /\ server \in ServerType /\ past \in PastType
  BY SameParts
<1>1. past'.swept = past.swept /\ page' = page
  BY <1>0 DEF CancelDrops, CancelFails, Trouble, Forsakes, PastType
<1>2. server'.puts = server.puts /\ server'.calls = server.calls /\ server'.sweep = server.sweep
  BY <1>0 DEF CancelDrops, CancelFails, ServerType
<1>3. disk'.stored = disk.stored /\ disk'.begun = disk.begun /\ disk'.row \in {None, disk.row}
  BY <1>0 DEF CancelDrops, CancelFails, RowDropped, DiskType
<1>4. server'.doomed # server.doomed =>
        /\ server'.doomed = server.doomed \cup PartsOf(u)
        /\ disk.row # None /\ disk.row.id = u /\ disk'.row = None
  BY <1>0 DEF CancelDrops, CancelFails, Own, RowDropped, ServerType, DiskType
<1>5. \A v \in Uploads, n \in Parts : PartKey(v, n) \in server'.doomed =>
         \/ PartKey(v, n) \in server.doomed
         \/ v <= disk.begun /\ (disk'.row # None => disk.row.id # v)
  BY <1>4, PartsOfOne DEF UploadsKept, UploadsSoFar
<1> QED BY <1>1, <1>2, <1>3, <1>5, QuietUploads

LEMMA PageUploads ==
    ASSUME Steady, UploadsKept,
           \/ \E wish : Create(wish)
           \/ CancelAnswered \/ Close \/ SendPart \/ PartUnanswered \/ ReadPackage \/ CreateUnanswered \/ Expire
    PROVE  UploadsKept'
<1>0. disk \in DiskType /\ server \in ServerType /\ past \in PastType /\ server.puts \subseteq Puts /\ page \in Pages
  BY SameParts DEF ServerType
<1>1. past'.swept = past.swept
  BY <1>0 DEF Create, CancelAnswered, Close, SendPart, PartUnanswered, ReadPackage, CreateUnanswered, Expire,
     Trouble, PastType
<1>2. server'.doomed = server.doomed /\ server'.sweep = server.sweep
  BY <1>0 DEF Create, CancelAnswered, Close, SendPart, PartUnanswered, ReadPackage, CreateUnanswered, Expire,
     ServerType
<1>3. PageFails(page, "preview").upload = page.upload /\ PageFails(page, "create").upload = page.upload
  BY <1>0 DEF PageFails, Pages
<1>4. ASSUME NEW wish, Create(wish)
      PROVE  /\ page'.upload = page.upload /\ server'.puts = server.puts
             /\ \A c \in server'.calls : c \in server.calls \/ c.of = page.upload
  <2> DEFINE n == past.creates + 1
             c == [id |-> n, key |-> KeyFor(page), of |-> page.upload, wish |-> wish, stage |-> "look", wrote |-> {}]
  <2>1. page' = [page EXCEPT !.status = "creating", !.held = {}, !.call = n, !.wish = wish]
        /\ server' = [server EXCEPT !.calls = @ \cup {c}]
    BY <1>4 DEF Create
  <2>2. c.of = page.upload
    OBVIOUS
  <2> HIDE DEF c, n
  <2>3. page'.upload = page.upload
    BY <1>0, <2>1 DEF Pages
  <2>4. server'.puts = server.puts /\ server'.calls = server.calls \cup {c}
    BY <1>0, <2>1 DEF ServerType
  <2> QED BY <2>2, <2>3, <2>4
<1>5. ASSUME SendPart
       PROVE  /\ page'.upload = page.upload /\ server'.calls = server.calls
              /\ \A q \in server'.puts : q \in server.puts \/ (q.upload = page.upload /\ ~q.stored)
  <2>1. PICK n \in NextOf(Missing) :
       IF Own(page.upload)
       THEN /\ page' = [page EXCEPT !.sending = n]
            /\ server' = [server EXCEPT !.puts = @ \cup
                 {[upload |-> page.upload, part |-> n, stored |-> FALSE, awaited |-> TRUE]}]
       ELSE page' = PageFails(page, "preview") /\ UNCHANGED server
    BY <1>5 DEF SendPart
  <2> DEFINE q == [upload |-> page.upload, part |-> n, stored |-> FALSE, awaited |-> TRUE]
  <2>2. q.upload = page.upload /\ ~q.stored
    OBVIOUS
  <2>3. server' \in {server, [server EXCEPT !.puts = @ \cup {q}]}
    BY <2>1
  <2> HIDE DEF q
  <2>4. server'.calls = server.calls /\ server'.puts \subseteq server.puts \cup {q}
    BY <1>0, <2>3 DEF ServerType
  <2>5. page'.upload = page.upload
    BY <1>0, <1>3, <2>1 DEF Pages
  <2> QED BY <2>2, <2>4, <2>5
<1>6. ASSUME PartUnanswered \/ ReadPackage \/ CreateUnanswered \/ Expire
       PROVE  page'.upload = page.upload /\ server' = server
  <2>1. CASE PartUnanswered
    BY <1>0, <1>3, <2>1 DEF PartUnanswered, SendsAgain, Pages
  <2>2. CASE ReadPackage
    BY <1>0, <1>3, <2>2 DEF ReadPackage, Shows, Pages
  <2>3. CASE CreateUnanswered \/ Expire
    BY <1>0, <1>3, <2>3 DEF CreateUnanswered, Expire
  <2> QED BY <1>6, <2>1, <2>2, <2>3
<1>7. ASSUME Close \/ CancelAnswered
      PROVE  page'.upload = 0 /\ server'.calls = server.calls /\ (CancelAnswered => server' = server)
  BY <1>0, <1>7 DEF Close, CancelAnswered, NewPage, ServerType
<1>8. page'.upload \in {0, page.upload}
  BY <1>4, <1>5, <1>6, <1>7
<1>9. \A c \in server'.calls : c.of = page.upload \/ \E d \in server.calls : c.of = d.of
  BY <1>4, <1>5, <1>6, <1>7
<1>10. \A q \in server'.puts : \/ q.upload = page.upload /\ ~q.stored
                              \/ \E r \in server.puts : q.upload = r.upload /\ q.part = r.part /\ (q.stored => r.stored)
  <2>1. CASE Close
    <3>1. server'.puts = NobodyWaits(server.puts)
      BY <1>0, <2>1 DEF Close, ServerType
    <3>2. \A r \in server.puts : /\ [r EXCEPT !.awaited = FALSE].upload = r.upload
                                /\ [r EXCEPT !.awaited = FALSE].part = r.part
                                /\ [r EXCEPT !.awaited = FALSE].stored = r.stored
      BY <1>0 DEF Puts
    <3> QED BY <3>1, <3>2 DEF NobodyWaits
  <2>2. CASE \/ \E wish : Create(wish)
             \/ CancelAnswered \/ SendPart \/ PartUnanswered \/ ReadPackage \/ CreateUnanswered \/ Expire
    <3>1. \A q \in server'.puts : q \in server.puts \/ (q.upload = page.upload /\ ~q.stored)
      BY <2>2, <1>4, <1>5, <1>6, <1>7
    <3> QED BY <3>1
  <2> QED BY <2>1, <2>2
<1>11. CASE Expire
  <2>1. disk.row # None /\ disk' = [disk EXCEPT !.row = [disk.row EXCEPT !.expired = TRUE]]
    BY <1>11 DEF Expire
  <2>2. disk.row \in Rows /\ [disk.row EXCEPT !.expired = TRUE].id = disk.row.id
        /\ [disk.row EXCEPT !.expired = TRUE].recorded = disk.row.recorded
    BY <1>0, <2>1 DEF DiskType, Rows
  <2>3. disk'.stored = disk.stored /\ disk'.begun = disk.begun
        /\ disk'.row = [disk.row EXCEPT !.expired = TRUE]
    BY <1>0, <2>1 DEF DiskType
  <2> QED BY <1>1, <1>2, <1>8, <1>9, <1>10, <2>1, <2>2, <2>3, QuietUploads
<1>12. CASE \/ \E wish : Create(wish)
            \/ CancelAnswered \/ Close \/ SendPart \/ PartUnanswered \/ ReadPackage \/ CreateUnanswered
  <2>1. disk' = disk
    BY <1>12 DEF Create, CancelAnswered, Close, SendPart, PartUnanswered, ReadPackage, CreateUnanswered
  <2> QED BY <1>1, <1>2, <1>8, <1>9, <1>10, <2>1, QuietUploads
<1> QED BY <1>11, <1>12

LEMMA DeleteUploads == ASSUME Steady, UploadsKept, NEW k, Delete(k) PROVE UploadsKept'
<1>1. server'.doomed = server.doomed \ {k} /\ server'.puts = server.puts /\ k \in server.doomed
      /\ server'.calls = server.calls /\ server'.sweep = server.sweep /\ page' = page
  BY SameParts DEF Delete, ServerType
<1>2. /\ disk'.row = disk.row /\ disk'.begun = disk.begun
      /\ disk.stored \subseteq disk'.stored \cup {k} /\ past'.swept = past.swept
  BY DeletedFacts, SameParts DEF Delete, Forsakes, PastType
<1>3. disk.row # None => \A n \in Parts : PartKey(disk.row.id, n) # k
  BY <1>1 DEF UploadsKept, StandsWhole
<1>4. server'.sweep # None => server'.sweep.id = past'.swept
  BY <1>1, <1>2 DEF UploadsKept, SweepIsTheLast
<1>5. GoesOn
  BY <1>1, <1>2, <1>3, <1>4 DEF GoesOn
<1> QED BY <1>5, KeptGoingOn

LEMMA SweepUploads == ASSUME Steady, UploadsKept, Sweeps1 PROVE UploadsKept'
<1>0. disk \in DiskType /\ server \in ServerType /\ past \in PastType
  BY SameParts
<1>1. CASE SweepStarts
  <2>1. disk' = disk /\ page' = page /\ server'.puts = server.puts /\ server'.calls = server.calls
        /\ server'.doomed = server.doomed /\ server'.sweep = [id |-> disk.row.id, left |-> Parts]
        /\ disk.row # None /\ past'.swept = disk.row.id
    BY <1>0, <1>1 DEF SweepStarts, ServerType, PastType
  <2>2. server'.sweep.id = past'.swept
    BY <2>1
  <2>3. GoesOn
    BY <2>1, <2>2 DEF GoesOn
  <2> QED BY <2>3, KeptGoingOn
<1>2. CASE SweepPart
  <2>1. PICK n \in Parts :
             /\ Deleted(PartKey(server.sweep.id, n)) \/ (Trouble /\ UNCHANGED disk)
             /\ server'.doomed = server.doomed /\ server'.puts = server.puts /\ server'.calls = server.calls
             /\ server.sweep # None /\ server'.sweep # None /\ server'.sweep.id = server.sweep.id
             /\ page' = page
    BY <1>2, SweepPartFacts
  <2> DEFINE k == PartKey(server.sweep.id, n)
  <2>2. /\ disk'.row = disk.row /\ disk'.begun = disk.begun
        /\ disk.stored \subseteq disk'.stored \cup {k} /\ past'.swept = past.swept
    BY <1>0, <2>1, DeletedFacts DEF Trouble, PastType
  <2>3. server.sweep.id = past.swept
    BY <2>1 DEF UploadsKept, SweepIsTheLast
  <2>4. disk.row.id # past.swept => \A j \in Parts : PartKey(disk.row.id, j) # k
    BY <2>3, PartsOfOne
  <2> HIDE DEF k
  <2>5. GoesOn
    BY <2>1, <2>2, <2>3, <2>4 DEF GoesOn
  <2> QED BY <2>5, KeptGoingOn
<1>3. CASE SweepRow
  <2>1. server'.puts = server.puts /\ server'.calls = server.calls /\ page' = page
        /\ server'.doomed = server.doomed /\ server'.sweep = None
    BY <1>0, <1>3 DEF SweepRow, ServerType
  <2>2. disk'.stored = disk.stored /\ disk'.begun = disk.begun /\ (disk'.row = None \/ disk'.row = disk.row)
    BY <1>0, <1>3 DEF SweepRow, RowDropped, DiskType
  <2>3. past'.swept = past.swept
    BY <1>0, <1>3 DEF SweepRow, Trouble, PastType
  <2> QED BY <2>1, <2>2, <2>3, QuietUploads
<1> QED BY <1>1, <1>2, <1>3 DEF Sweeps1

LEMMA CrashUploads == ASSUME Steady, UploadsKept, Crash PROVE UploadsKept'
<1>1. disk' = disk /\ page' = page /\ past'.swept = past.swept
      /\ server' = [puts |-> {}, calls |-> {}, cancels |-> {}, doomed |-> {}, sweep |-> None]
  BY SameParts DEF Crash, Forsakes, PastType
<1>2. server'.puts = {} /\ server'.calls = {} /\ server'.doomed = {} /\ server'.sweep = None
  BY <1>1
<1> QED BY <1>1, <1>2, QuietUploads

LEMMA UploadsStep == Steady /\ UploadsKept /\ [Next]_vars => UploadsKept'
<1> SUFFICES ASSUME Steady, UploadsKept, [Next]_vars PROVE UploadsKept'
  OBVIOUS
<1>1. ASSUME NEW f, NEW after, Send(f, after) PROVE UploadsKept'
  BY <1>1, SendUploads
<1>2. CASE Tap \/ CreateAgain
  <2>1. \E wish : Create(wish)
    BY <1>2 DEF Tap, CreateAgain
  <2> QED BY <2>1, PageUploads
<1>3. CASE \/ CancelAnswered \/ Close \/ Expire
           \/ SendPart \/ PartUnanswered \/ ReadPackage \/ CreateUnanswered
  BY <1>3, PageUploads
<1>4. ASSUME NEW q \in server.puts, PartStored(q) \/ PartRecorded(q) \/ PartFails(q) \/ PartAnswerLost(q)
      PROVE  UploadsKept'
  BY <1>4, PutUploads
<1>5. ASSUME NEW c \in server.calls,
             \/ LookForCreated(c) \/ CheckUpload(c) \/ StageImage(c) \/ Apply(c) \/ DropUpload(c)
             \/ ApplyUnknown(c) \/ CreationFails(c) \/ DropFails(c)
      PROVE  UploadsKept'
  BY <1>5, CallUploads
<1>6. ASSUME NEW k, Delete(k) PROVE UploadsKept'
  BY <1>6, DeleteUploads
<1>7. CASE Cancel \/ Sweeps1 \/ Crash
  BY <1>7, CancelUploads, SweepUploads, CrashUploads
<1>8. ASSUME NEW u \in server.cancels, CancelDrops(u) \/ CancelFails(u) PROVE UploadsKept'
  BY <1>8, CancelStepsUploads
<1>9. CASE UNCHANGED vars
  BY <1>9 DEF vars, UploadsKept, UploadsSoFar, SweepIsTheLast, StandsWhole
<1> QED BY <1>1, <1>2, <1>3, <1>4, <1>5, <1>6, <1>7, <1>8, <1>9
       DEF Next, Choose, Retry, PageSteps, PartSteps, CreationSteps, CancelSteps

(* While no sweep has begun on the upload that stands, every part its row  *)
(* records is in the store and nobody owes its deletion (rpc_import.go:    *)
(* 131-162, 248-269, http.go:84-120): the page that skips the recorded     *)
(* parts sends a whole package.                                            *)
THEOREM RecordedStays == Spec => []RecordedIsStored
<1>1. Init => UploadsKept
  <2>1. 0 <= 0
    OBVIOUS
  <2> QED BY <2>1 DEF Init, NewPage, UploadsKept, UploadsSoFar, SweepIsTheLast, StandsWhole
<1>2. Steady /\ UploadsKept => RecordedIsStored
  BY UploadNumbers DEF UploadsKept, StandsWhole, RecordedIsStored
<1>3. Inv => Steady
  BY DEF Inv
<1> QED BY <1>1, <1>2, <1>3, UploadsStep, Invariance, PTL DEF Spec
=============================================================================
