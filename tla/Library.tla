------------------------------- MODULE Library -------------------------------
(***************************************************************************)
(* What a photographer keeps in an event: the tree of folders              *)
(* (services/folder_service.py), the photos filed in it (photo_service.py, *)
(* upload_service.py) and the counter of the bytes they take, which is     *)
(* checked against the quota (photographer_service.py).  The event may be  *)
(* deleted (archival_service.py); the counter is also about the photos of  *)
(* another event.                                                          *)
(*                                                                         *)
(* Requests overlap.  Each has a session of its own: authentication loads  *)
(* the photographer with the events, folders and photos (lazy="selectin"), *)
(* db.get later answers from those copies, and get_db commits at the end   *)
(* of the request.  So a request begins with copies and ends with a write; *)
(* between the two the other requests go on.  A photo takes one unit for   *)
(* its original, one for its proxy and one for its smaller renditions.     *)
(***************************************************************************)
EXTENDS Integers, FiniteSets

CONSTANTS
    Folder, Photo,      \* rows that may exist, of one photographer
    Request,            \* requests, each of which is made once
    MaxDepth,           \* MAX_FOLDER_DEPTH
    Limit,              \* storage_limit_bytes
    Root,               \* folder_id or parent_id NULL
    Other,              \* the place of photos of the other event
    None,               \* no row
    Gone                \* a row that was deleted; its id is not used again

ASSUME LibraryAssumption ==
    /\ MaxDepth \in Nat \ {0} /\ Limit \in Nat
    /\ IsFiniteSet(Photo) /\ IsFiniteSet(Folder)
    /\ Root \notin {Other, None, Gone} /\ Other \notin {None, Gone} /\ None # Gone
    /\ {Root, Other, None, Gone} \cap (Folder \cup Photo) = {}

VARIABLES
    event,      \* whether the event exists
    parent,     \* folders.parent_id
    place,      \* photos.folder_id
    proxied,    \* photos whose proxy_file_size_bytes is set
    full,       \* photos whose derivative_file_size_bytes is set
    used,       \* photographers.storage_used_bytes
    sent,       \* uploads that tusd has admitted, with the folder asked for
    told,       \* uploads that were answered "accepted"
    call,       \* what each request is at, with its copies
    tangled,    \* history: a folder was placed by a check of outdated copies
    carried,    \* history: folders that moved along below another
    kept,       \* history: photos that had a row
    debt,       \* history: rendition bytes recorded, less those that archivals
                \* dropped, since the counter was last set right
    owed,       \* history: bytes of deleted rows that are still to be subtracted
    raced,      \* history: the counter was written from outdated values
    grew        \* history: admitted uploads during which the counter grew

sizes    == <<proxied, full>>
tree     == <<event, parent, place, sizes>>
uploads  == <<sent, told>>
checks   == <<tangled, carried>>
counter  == <<used, debt, owed, raced, grew>>
vars     == <<tree, uploads, call, checks, kept, counter>>

Where == Folder \cup {Root}
Trees == [Folder -> Where \cup {None, Gone}]

Calls ==
    [step : {"off", "done", "hung"}]
    \cup [step : {"create", "update"}, folder : Folder, to : Where, copy : Trees]
    \cup [step : {"empty"}, folder : Folder, inside : SUBSET Photo]
    \cup [step : {"rows", "last"}, folder : Folder \cup {None}, inside : SUBSET Photo,
          ids : SUBSET Photo, bytes : Nat]
    \cup [step : {"finish"}, photo : Photo, seen : Int]
    \cup [step : {"direct"}, photo : Photo, to : Where \cup {Other}, seen : Int]
    \cup [step : {"report"}, seen : Int]
    \cup [step : {"write"}, seen : Int, sum : Nat]
    \cup [step : {"erase"}]
    \cup [step : {"sum", "set"}, bytes : Nat, sum : Nat]

TreeOK == /\ event \in BOOLEAN /\ parent \in Trees
          /\ place \in [Photo -> Where \cup {Other, None}]
          /\ full \subseteq proxied /\ proxied \subseteq {p \in Photo : place[p] # None}

UploadsOK == sent \in [Photo -> Where \cup {Other, None}] /\ told \subseteq Photo

ChecksOK == tangled \in BOOLEAN /\ carried \subseteq Folder /\ kept \subseteq Photo

CounterOK == /\ used \in Int /\ debt \in Int /\ owed \in Int
             /\ raced \in BOOLEAN /\ grew \subseteq Photo

TypeOK == TreeOK /\ UploadsOK /\ call \in [Request -> Calls] /\ ChecksOK /\ CounterOK

------------------------------------------------------------------------------
(* The tree *)

Live == {f \in Folder : parent[f] \in Where}

(* Where a new row may refer to: the foreign keys. *)
Valid == {Other} \cup (IF event THEN Live \cup {Root} ELSE {})

(* The folders that a walk up from f visits, f included: the least set that is closed. *)
Above(par, f) ==
    LET Closed == {S \in SUBSET Folder : f \in S /\ \A h \in S : par[h] \in Folder => par[h] \in S}
    IN  {h \in Folder : \A S \in Closed : h \in S}

(* A walk up from f ends: at the root, or at a row that is not there. *)
Ends(par, f) == \E h \in Above(par, f) : par[h] \notin Folder

Depth(par, f) == Cardinality(Above(par, f))

Below(f) == {h \in Live : f \in Above(parent, h)}

(* db.get: the copy of a folder that the session holds, or else its row. *)
Held(copy) == [f \in Folder |-> IF copy[f] \in Where THEN copy[f] ELSE parent[f]]

(* Another request has moved a folder since the copies were loaded. *)
Outdated(copy) == \E f \in Live : copy[f] # None /\ copy[f] # parent[f]

------------------------------------------------------------------------------
(* The counter *)

Rows == {p \in Photo : place[p] # None}

(* stored_bytes_expression, summed over photos. *)
BytesOf(ids) ==
    Cardinality(ids \cap Rows) + Cardinality(ids \cap proxied) + Cardinality(ids \cap full)

Stored == BytesOf(Photo)

Forgets(ids) == proxied' = proxied \ ids /\ full' = full \ ids

Admitted == {p \in Photo : sent[p] # None}

Grown == IF used' > used THEN grew \cup Admitted ELSE grew
------------------------------------------------------------------------------
(* The event as earlier requests have left it: with a forest of folders that is  *)
(* not too deep, or with folders that two moves have put below one another, and  *)
(* a counter that is right.                                                      *)
Init ==
    /\ event = TRUE
    /\ parent \in [Folder -> Where \cup {None}]
    /\ \A f \in Live : parent[f] \in Live \cup {Root}
    /\ tangled = (\E f \in Live : ~Ends(parent, f))
    /\ tangled \/ \A f \in Live : Depth(parent, f) <= MaxDepth
    /\ place \in [Photo -> Live \cup {Root, Other, None}]
    /\ proxied \in SUBSET Rows /\ full \in SUBSET proxied
    /\ used = Stored
    /\ sent = [p \in Photo |-> None] /\ told = {}
    /\ call = [r \in Request |-> [step |-> "off"]]
    /\ carried = {} /\ kept = Rows
    /\ debt = 0 /\ owed = 0 /\ raced = FALSE /\ grew = {}

------------------------------------------------------------------------------
(* Requests *)

Begins(r, c) == call[r].step = "off" /\ call' = [call EXCEPT ![r] = c]

Becomes(r, c) == call' = [call EXCEPT ![r] = c]

Answers(r) == Becomes(r, [step |-> "done"])

(* A request is refused, a call of it fails, or its process dies: what it has *)
(* not committed is rolled back. *)
Fails(r) ==
    /\ call[r].step \notin {"off", "done", "hung"}
    /\ LET due == call[r].step \in {"last", "sum", "set"}
       IN  /\ raced' = (raced \/ (due /\ call[r].bytes # 0))
           /\ owed' = IF due THEN owed - call[r].bytes ELSE owed
    /\ Answers(r)
    /\ UNCHANGED <<tree, uploads, checks, kept, used, debt, grew>>

------------------------------------------------------------------------------
(* Folders *)

CreateBegins(r, f, g) ==
    /\ event /\ parent[f] = None /\ g \in Live \cup {Root}
    /\ Begins(r, [step |-> "create", folder |-> f, to |-> g, copy |-> parent])
    /\ UNCHANGED <<tree, uploads, checks, kept, counter>>

(* update_folder with another parent_id. *)
UpdateBegins(r, f, g) ==
    /\ f \in Live /\ g \in (Live \ {f}) \cup {Root}
    /\ Begins(r, [step |-> "update", folder |-> f, to |-> g, copy |-> parent])
    /\ UNCHANGED <<tree, uploads, checks, kept, counter>>

(* _depth of the parent, plus one. *)
FitsUnder(par, g) == g = Root \/ Depth(par, g) < MaxDepth

(* _ensure_not_descendant. *)
Foreign(par, f, g) == g = Root \/ (f \notin Above(par, g) /\ Ends(par, g))

Placed(f, g) == /\ parent' = [parent EXCEPT ![f] = g]
                /\ event /\ g \in Live \cup {Root}     \* the foreign keys

CreateCommits(r) ==
    /\ call[r].step = "create"
    /\ LET f == call[r].folder
           g == call[r].to
           par == Held(call[r].copy)
       IN  /\ parent[f] = None /\ FitsUnder(par, g)
           /\ Placed(f, g)
           /\ tangled' = (tangled \/ (g # Root /\ Outdated(call[r].copy)))
    /\ Answers(r)
    /\ UNCHANGED <<event, place, sizes, uploads, carried, kept, counter>>

UpdateCommits(r) ==
    /\ call[r].step = "update"
    /\ LET f == call[r].folder
           g == call[r].to
           par == Held(call[r].copy)
       IN  /\ f \in Live /\ Foreign(par, f, g) /\ FitsUnder(par, g)
           /\ Placed(f, g)
           /\ tangled' = (tangled \/ (g # Root /\ Outdated(call[r].copy)))
           /\ carried' = (carried \ {f}) \cup (Below(f) \ {f})
    /\ Answers(r)
    /\ UNCHANGED <<event, place, sizes, uploads, kept, counter>>

(* The walk up from the new parent has no end. *)
UpdateHangs(r) ==
    /\ call[r].step = "update"
    /\ LET g == call[r].to
           par == Held(call[r].copy)
       IN  g # Root /\ call[r].folder \notin Above(par, g) /\ ~Ends(par, g)
    /\ Becomes(r, [step |-> "hung"])
    /\ UNCHANGED <<tree, uploads, checks, kept, counter>>

PhotosIn(S) == {p \in Photo : place[p] \in S}

(* delete_folder: the folder was loaded with its photos. *)
DropBegins(r, f) ==
    /\ f \in Live
    /\ Begins(r, [step |-> "last", folder |-> f, inside |-> PhotosIn({f}),
                  ids |-> {}, bytes |-> 0])
    /\ UNCHANGED <<tree, uploads, checks, kept, counter>>

(* delete_folder with delete_photos. *)
EmptyBegins(r, f) ==
    /\ f \in Live
    /\ Begins(r, [step |-> "empty", folder |-> f, inside |-> PhotosIn({f})])
    /\ UNCHANGED <<tree, uploads, checks, kept, counter>>

(* The recursive query over the folders below. *)
Found(f) == PhotosIn(Below(f))

EmptyFinds(r) ==
    /\ call[r].step = "empty"
    /\ LET f == call[r].folder
       IN  Becomes(r, [step |-> IF Found(f) = {} THEN "last" ELSE "rows",
                       folder |-> f, inside |-> call[r].inside,
                       ids |-> Found(f), bytes |-> BytesOf(Found(f))])
    /\ UNCHANGED <<tree, uploads, checks, kept, counter>>

------------------------------------------------------------------------------
(* Deleting photos *)

DeleteBegins(r, p) ==
    /\ p \in Rows
    /\ Begins(r, [step |-> "rows", folder |-> None, inside |-> {},
                  ids |-> {p}, bytes |-> BytesOf({p})])
    /\ UNCHANGED <<tree, uploads, checks, kept, counter>>

(* The rows go, and update_event_processing_status commits. *)
DeleteRows(r) ==
    /\ call[r].step = "rows"
    /\ LET ids == call[r].ids
       IN  /\ place' = [p \in Photo |-> IF p \in ids THEN None ELSE place[p]]
           /\ Forgets(ids)
           /\ raced' = (raced \/ BytesOf(ids) # call[r].bytes)
    /\ owed' = owed + call[r].bytes
    /\ call' = [call EXCEPT ![r].step = "last"]
    /\ UNCHANGED <<event, parent, uploads, checks, kept, used, debt, grew>>

(* Mutant: without ON DELETE CASCADE. *)
DoomedAlone(f) == IF f = None THEN {} ELSE {f} \cap Live

Doomed(f) == IF f = None THEN {} ELSE Below(f)

(* Photos whose folder_id the session sets to NULL: those it loaded with the folder. *)
Unfiled(c) == c.inside \ c.ids

(* Mutant: the counter is not lowered. *)
LastForgetsCounter(r) ==
    /\ call[r].step = "last"
    /\ LET c == call[r]
           doomed == Doomed(c.folder)
       IN  /\ Unfiled(c) \subseteq Rows
           /\ owed' = owed - c.bytes
           /\ parent' = [f \in Folder |-> IF f \in doomed THEN Gone ELSE parent[f]]
           /\ place' = [p \in Photo |-> IF place[p] \in doomed \/ p \in Unfiled(c)
                                        THEN Root ELSE place[p]]
           /\ carried' = carried \ doomed
    /\ Answers(r)
    /\ UNCHANGED <<event, sizes, uploads, used, tangled, kept, debt, raced, grew>>

(* The subtraction, and with a folder its deletion: the foreign keys delete the *)
(* folders below and take the photos out.  A photo that was loaded with the     *)
(* folder and has been deleted since makes the request fail.                    *)
LastCommits(r) ==
    /\ call[r].step = "last"
    /\ LET c == call[r]
           doomed == Doomed(c.folder)
       IN  /\ Unfiled(c) \subseteq Rows
           /\ used' = used - c.bytes
           /\ owed' = owed - c.bytes
           /\ parent' = [f \in Folder |-> IF f \in doomed THEN Gone ELSE parent[f]]
           /\ place' = [p \in Photo |-> IF place[p] \in doomed \/ p \in Unfiled(c)
                                        THEN Root ELSE place[p]]
           /\ carried' = carried \ doomed
    /\ Answers(r)
    /\ UNCHANGED <<event, sizes, uploads, tangled, kept, debt, raced, grew>>

------------------------------------------------------------------------------
(* Moving and adding photos *)

Move(r, p, g) ==
    /\ p \in Rows /\ place[p] # Other /\ g \in Live \cup {Root}
    /\ Begins(r, [step |-> "done"])
    /\ place' = [place EXCEPT ![p] = g]
    /\ UNCHANGED <<event, parent, sizes, uploads, checks, kept, counter>>

(* Mutant: the size of the upload is left out. *)
FitsAlready(n) == n <= Limit

Fits(n) == n + 1 <= Limit

(* handle_pre_create: tusd asks before the first chunk.  The folder is not checked. *)
PreCreate(p, g) ==
    /\ sent[p] = None /\ p \notin kept
    /\ g = Other \/ (event /\ g \in {f \in Folder : parent[f] # None} \cup {Root})
    /\ Fits(used)
    /\ \A r \in Request : call[r].step = "direct" => call[r].photo # p
    /\ sent' = [sent EXCEPT ![p] = g]
    /\ UNCHANGED <<tree, told, call, checks, kept, counter>>

(* Mutant: an upload that is known is taken for served. *)
FinishTrustsAdmission(r, p) ==
    /\ sent[p] # None
    /\ Begins(r, [step |-> "done"])
    /\ told' = told \cup {p}
    /\ UNCHANGED <<tree, sent, checks, kept, counter>>

(* handle_post_finish: the hook, which tusd calls again when it had no answer. *)
FinishBegins(r, p) ==
    /\ sent[p] # None
    /\ \/ /\ place[p] = None /\ (event \/ sent[p] = Other)
          /\ Begins(r, [step |-> "finish", photo |-> p, seen |-> used])
          /\ told' = told
       \/ /\ place[p] # None
          /\ Begins(r, [step |-> "done"])
          /\ told' = told \cup {p}
    /\ UNCHANGED <<tree, sent, checks, kept, counter>>

Inserts(p, g, seen) ==
    /\ place[p] = None /\ g \in Valid
    /\ place' = [place EXCEPT ![p] = g]
    /\ kept' = kept \cup {p}
    /\ used' = seen + 1
    /\ raced' = (raced \/ seen # used)

FinishCommits(r) ==
    /\ call[r].step = "finish"
    /\ LET p == call[r].photo
       IN  /\ Inserts(p, sent[p], call[r].seen)
           /\ told' = told \cup {p}
           /\ grew' = Grown
    /\ Answers(r)
    /\ UNCHANGED <<event, parent, sizes, sent, checks, debt, owed>>

(* An IntegrityError is taken for a hook that was served before: the row is *)
(* there, or the folder is not.  Without the event its update finds no row, *)
(* which is another error.                                                  *)
FinishAnswers(r) ==
    /\ call[r].step = "finish"
    /\ LET p == call[r].photo
       IN  /\ place[p] # None \/ (event /\ sent[p] \notin Valid)
           /\ told' = told \cup {p}
    /\ Answers(r)
    /\ UNCHANGED <<tree, sent, checks, kept, counter>>

(* ingest_direct_upload. *)
DirectBegins(r, p, g) ==
    /\ p \notin kept /\ sent[p] = None /\ g \in Valid
    /\ \A q \in Request : call[q].step = "direct" => call[q].photo # p
    /\ Fits(used)
    /\ Begins(r, [step |-> "direct", photo |-> p, to |-> g, seen |-> used])
    /\ UNCHANGED <<tree, uploads, checks, kept, counter>>

DirectCommits(r) ==
    /\ call[r].step = "direct"
    /\ Inserts(call[r].photo, call[r].to, call[r].seen)
    /\ grew' = Grown
    /\ Answers(r)
    /\ UNCHANGED <<event, parent, sizes, uploads, checks, debt, owed>>

(* The photo task and the backfill record the sizes of the renditions, not the counter. *)
Renders(p) ==
    /\ p \in Rows \ full
    /\ proxied' = proxied \cup {p} /\ full' = full \cup {p}
    /\ debt' = debt + (IF p \in proxied THEN 1 ELSE 2)
    /\ UNCHANGED <<event, parent, place, uploads, call, checks, kept, used, owed, raced, grew>>

(* archive_event sets the derivative sizes to 0, but neither the proxy sizes nor the *)
(* counter, in rows of one event: those it has loaded, with what has been recorded   *)
(* then (EventArchive has the whole task).                                           *)
Archives(ids) ==
    /\ ids # {} /\ ids \subseteq full
    /\ ids \subseteq PhotosIn({Other}) \/ ids \subseteq PhotosIn(Where)
    /\ full' = full \ ids
    /\ debt' = debt - Cardinality(ids)
    /\ UNCHANGED <<event, parent, place, proxied, uploads, call, checks, kept, used, owed, raced,
                   grew>>

------------------------------------------------------------------------------
(* get_storage_info sets the counter right. *)

ReportBegins(r) ==
    /\ Begins(r, [step |-> "report", seen |-> used])
    /\ UNCHANGED <<tree, uploads, checks, kept, counter>>

ReportSums(r) ==
    /\ call[r].step = "report"
    /\ Becomes(r, [step |-> "write", seen |-> call[r].seen, sum |-> Stored])
    /\ UNCHANGED <<tree, uploads, checks, kept, counter>>

(* The session writes the sum only when it differs from the copy it holds. *)
ReportWrites(r) ==
    /\ call[r].step = "write"
    /\ LET c == call[r]
       IN  /\ used' = IF c.sum # c.seen THEN c.sum ELSE used
           /\ raced' = (c.seen # used \/ c.sum # Stored \/ owed # 0)
           /\ debt' = 0
    /\ grew' = Grown
    /\ Answers(r)
    /\ UNCHANGED <<tree, uploads, checks, kept, owed>>

------------------------------------------------------------------------------
(* delete_event_permanently, beside which the objects of the photos it has loaded *)
(* are deleted.                                                                   *)

EraseBegins(r) ==
    /\ event
    /\ Begins(r, [step |-> "erase"])
    /\ UNCHANGED <<tree, uploads, checks, kept, counter>>

(* The rows of the event go with it, those included that have come meanwhile; another *)
(* deletion may have been faster.                                                     *)
EraseCommits(r) ==
    /\ call[r].step = "erase"
    /\ LET ids == PhotosIn(Where)
       IN  /\ event' = FALSE
           /\ parent' = [f \in Folder |-> IF parent[f] = None THEN None ELSE Gone]
           /\ place' = [p \in Photo |-> IF p \in ids THEN None ELSE place[p]]
           /\ Forgets(ids)
           /\ carried' = {}
           /\ owed' = owed + BytesOf(ids)
           /\ Becomes(r, [step |-> "sum", bytes |-> BytesOf(ids), sum |-> 0])
    /\ UNCHANGED <<uploads, tangled, kept, used, debt, raced, grew>>

(* recalculate_photographer_storage, in a transaction of its own. *)
EraseSums(r) ==
    /\ call[r].step = "sum"
    /\ Becomes(r, [step |-> "set", bytes |-> call[r].bytes, sum |-> Stored])
    /\ UNCHANGED <<tree, uploads, checks, kept, counter>>

(* Unlike the report it writes the sum whatever the counter was. *)
EraseSets(r) ==
    /\ call[r].step = "set"
    /\ LET c == call[r]
       IN  /\ used' = c.sum /\ debt' = 0
           /\ owed' = owed - c.bytes
           /\ raced' = (c.sum # Stored \/ owed' # 0)
    /\ grew' = Grown
    /\ Answers(r)
    /\ UNCHANGED <<tree, uploads, checks, kept>>

EraseStep(r) == EraseBegins(r) \/ EraseCommits(r) \/ EraseSums(r) \/ EraseSets(r)

------------------------------------------------------------------------------
FolderStep(r) ==
    \/ \E f \in Folder, g \in Where : CreateBegins(r, f, g) \/ UpdateBegins(r, f, g)
    \/ CreateCommits(r) \/ UpdateCommits(r) \/ UpdateHangs(r)
    \/ \E f \in Folder : DropBegins(r, f) \/ EmptyBegins(r, f)
    \/ EmptyFinds(r)

PhotoStep(r) ==
    \/ \E p \in Photo : DeleteBegins(r, p) \/ FinishBegins(r, p)
    \/ DeleteRows(r) \/ LastCommits(r)
    \/ \E p \in Photo, g \in Where : Move(r, p, g)
    \/ \E p \in Photo, g \in Where \cup {Other} : DirectBegins(r, p, g)
    \/ FinishCommits(r) \/ FinishAnswers(r) \/ DirectCommits(r)

ReportStep(r) == ReportBegins(r) \/ ReportSums(r) \/ ReportWrites(r)

Next ==
    \/ \E r \in Request :
          FolderStep(r) \/ PhotoStep(r) \/ ReportStep(r) \/ EraseStep(r) \/ Fails(r)
    \/ \E p \in Photo : Renders(p) \/ \E g \in Where \cup {Other} : PreCreate(p, g)
    \/ \E ids \in SUBSET Photo : Archives(ids)

Spec == Init /\ [][Next]_vars

------------------------------------------------------------------------------
(* Properties *)

(* Unless a folder was placed after a check of copies that another move had        *)
(* outdated (folder_service.py:104): every folder is reached from the root, so that *)
(* list_tree shows it, no walk up the tree runs for ever, and a folder lies deeper  *)
(* than MAX_FOLDER_DEPTH only when it came along with a folder above it, whose      *)
(* depth alone is checked (:106).                                                   *)
RootedUnlessTangled ==
    \/ tangled
    \/ /\ \A f \in Live : Ends(parent, f) /\ parent[f] \in Live \cup {Root}
       /\ \A r \in Request : call[r].step # "hung"
       /\ \A f \in Live \ carried : Depth(parent, f) <= MaxDepth

(* What the counter says: the bytes that the rows record, but for the renditions *)
(* recorded and those dropped by an archival since it was last set right (the    *)
(* photo task and archive_event leave the counter alone), and with those of the  *)
(* deleted rows that are still to be subtracted; unless it was written from      *)
(* outdated values, or a deletion failed half way.  A report that overlaps       *)
(* nothing heals it.                                                             *)
CounterExplained == raced \/ used + debt = Stored + owed

(* An upload that was answered "accepted" is, or was, a photo, or else the folder *)
(* it was meant for is gone (upload_service.py:132).                              *)
AcceptedIsKept == \A p \in told : p \in kept \/ sent[p] \notin Live \cup {Root, Other}

(* An upload takes the counter past the limit only when the counter has grown     *)
(* since the upload was admitted (upload_service.py:65).                          *)
WithinLimitUnlessGrown ==
    [][\A p \in Photo \ grew : place[p] = None /\ place'[p] # None => used' <= Limit]_vars
=============================================================================
