------------------------------ MODULE Renditions ------------------------------
(***************************************************************************)
(* How the renditions of a photo are made (tasks/photo_tasks.py,           *)
(* services/image_processing_service.py, services/watermark_service.py,    *)
(* api/v1/profile.py): a task makes a proxy from the original, burns the   *)
(* photographer's watermark into both, derives the two thumbnails from the *)
(* proxy and saves the keys; a backfill derives thumbnails for proxies     *)
(* that have none, a batch at a time.                                      *)
(*                                                                         *)
(* The watermark is an object of its own, which requests of the            *)
(* photographer replace while tasks are at work; a change of the profile   *)
(* writes any string into the row in its place, or none.                   *)
(* A storage error gives the task another try.  Messages are acknowledged  *)
(* when they are taken, so a worker that dies loses its own.  Photos are   *)
(* numbered in the order of their creation; a proxy has a number, and the  *)
(* two thumbnails, which are made together, have that of their proxy.      *)
(* Archiving, restoring and deleting are one step each: EventArchive and   *)
(* Library have their detail.                                              *)
(***************************************************************************)
EXTENDS Integers, FiniteSets

CONSTANTS
    NumPhotos,
    Worker,
    Request,        \* requests of the photographer
    MaxTries,       \* max_retries (photo_tasks.py:200)
    BatchSize,
    MaxKeys,        \* bound: proxies of a photo
    MaxEdits,       \* bound: changes of the watermark
    MaxFaults       \* bound: failing calls and dying processes

Photo == 1..NumPhotos

ASSUME RenditionsAssumption ==
    /\ NumPhotos \in Nat /\ MaxEdits \in Nat
    /\ MaxTries \in Nat /\ BatchSize \in Nat \ {0} /\ MaxKeys \in Nat \ {0}
    /\ MaxFaults \in Nat

VARIABLES
    photos,     \* the photo rows
    status,     \* their processing_status
    proxy,      \* their proxy_s3_key; 0 is NULL
    thumb,      \* their thumb_s3_key: the proxy it was derived from; 0 is NULL
    made,       \* proxies made of each photo
    spoiled,    \* photos whose first proxy cannot be decoded
    deleted,    \* proxies an archival has deleted: <<photo, key>>
    marks,      \* watermarks burned into each proxy
    original,   \* watermarks burned into each original
    queue,      \* waiting messages: <<photo, tries so far>>
    task,       \* the photo task of each worker
    backfill,   \* the backfill task
    watermark,  \* watermark_url of the photographer; 0 is NULL
    assets,     \* watermarks in the assets bucket
    edits,      \* changes of the watermark begun so far
    upload,     \* the request of each client of the profile
    shelf,      \* whether the event is, or has been, archived
    redone,     \* history: photos processed again after their original was overwritten
    crossed,    \* history: photos archived while a backfill had their old proxy
    plain,      \* history: proxies made while there was no watermark: <<photo, key>>
    lost,       \* history: watermarks deleted by a request that has then failed
    named,      \* history: what a change of the profile has written into the row
    faults      \* history: faults

rows    == <<photos, status, proxy, thumb>>
objects == <<made, spoiled, deleted, marks, original>>
profile == <<watermark, assets, edits, upload, lost, named>>
ghosts  == <<redone, crossed, plain>>
vars    == <<rows, objects, queue, task, backfill, profile, shelf, ghosts, faults>>

Key    == 1..MaxKeys
OrNone == 0..MaxKeys
Logo   == 0..(MaxEdits + 2)
Marks  == Nat

\* A string that no upload makes: a mistaken key, or that of another object of the bucket.
Foreign == MaxEdits + 2

Steps == {"make", "mark", "read", "write", "save", "cool"}
Idle  == [at |-> "idle"]
Runs  == [at : Steps, photo : Photo, tries : 0..MaxTries, new : OrNone, copy : Marks, logo : Logo]
Tasks == {Idle} \cup Runs

\* A backfill has a batch: photos that it has yet to take, and the proxies of those that
\* it has made thumbnails for.  hit is history: a storage error, or a photo deleted meanwhile.
Batches == UNION {[D -> Key] : D \in SUBSET Photo}
None    == [p \in {} |-> 0]
Resting == [at |-> "idle", todo |-> None, got |-> None, hit |-> FALSE]
Backfills == [at : {"idle", "queued", "deriving", "counting"}, todo : Batches, got : Batches,
              hit : BOOLEAN]

RowsOK ==
    /\ photos \subseteq Photo /\ status \in [Photo -> {"pending", "completed", "failed"}]
    /\ proxy \in [Photo -> OrNone] /\ thumb \in [Photo -> OrNone]
    /\ crossed \subseteq Photo /\ shelf \in {"never", "now", "before"}

ObjectsOK ==
    /\ made \in [Photo -> OrNone] /\ spoiled \subseteq Photo /\ deleted \subseteq Photo \X Key
    /\ marks \in [Photo \X Key -> Marks] /\ original \in [Photo -> Marks]
    /\ redone \subseteq Photo /\ plain \subseteq Photo \X Key

TasksOK ==
    /\ queue \subseteq Photo \X (0..MaxTries) /\ task \in [Worker -> Tasks]
    /\ faults \in 0..MaxFaults

\* A watermark has the number of the change that has brought it.
Names == 0..(edits + 1) \cup {Foreign}

ProfileOK ==
    /\ edits \in 0..MaxEdits
    /\ watermark \in Names /\ assets \subseteq Names \ {0}
    /\ lost \subseteq Names \ {0} /\ named \subseteq Names \ {0}
    /\ upload \in [Request -> {Idle} \cup [at : {"drop", "save"}, old : Names, new : Names]]

TypeOK == RowsOK /\ ObjectsOK /\ TasksOK /\ backfill \in Backfills /\ ProfileOK

(* A photo has just been uploaded, or it was processed before there were thumbnails. *)
Init ==
    \E old \in SUBSET Photo :
        /\ spoiled \in SUBSET old
        /\ photos = Photo /\ thumb = [p \in Photo |-> 0]
        /\ status = [p \in Photo |-> IF p \in old THEN "completed" ELSE "pending"]
        /\ proxy = [p \in Photo |-> IF p \in old THEN 1 ELSE 0] /\ made = proxy
        /\ watermark \in {0, 1} /\ edits = 0
        /\ assets \in {{watermark} \ {0}, {watermark, Foreign} \ {0}}
        /\ upload = [r \in Request |-> Idle] /\ lost = {} /\ named = {}
        /\ plain = (IF watermark = 0 THEN old \X {1} ELSE {})
        /\ original = [p \in Photo |-> IF p \in old THEN watermark ELSE 0]
        /\ marks = [x \in Photo \X Key |-> IF x[2] = 1 THEN original[x[1]] ELSE 0]
        /\ queue = {<<p, 0>> : p \in Photo \ old}
        /\ deleted = {} /\ task = [w \in Worker |-> Idle] /\ backfill = Resting
        /\ shelf = "never" /\ redone = {} /\ crossed = {} /\ faults = 0

------------------------------------------------------------------------------
(* process_uploaded_photo *)

At(w, step)  == task[w].at = step
Goes(w, at)  == task' = [task EXCEPT ![w].at = at]
Rests(w)     == task' = [task EXCEPT ![w] = Idle]
Fault        == faults < MaxFaults /\ faults' = faults + 1

TaskLoads(w, p, n) ==
    /\ At(w, "idle") /\ <<p, n>> \in queue
    /\ queue' = queue \ {<<p, n>>}
    /\ task' = IF p \in photos
               THEN [task EXCEPT ![w] = [at |-> "make", photo |-> p, tries |-> n,
                                         new |-> 0, copy |-> 0, logo |-> 0]]
               ELSE task
    /\ UNCHANGED <<rows, objects, backfill, profile, shelf, ghosts, faults>>

(* The proxy shows the original as it is now; then the photographer is loaded. *)
TaskMakes(w) ==
    /\ At(w, "make")
    /\ LET p == task[w].photo
       IN  /\ made[p] < MaxKeys
           /\ made' = [made EXCEPT ![p] = @ + 1]
           /\ marks' = [marks EXCEPT ![<<p, made[p] + 1>>] = original[p]]
           /\ plain' = {x \in plain : x[1] # p \/ x[2] = proxy[p]}
                      \cup (IF watermark = 0 THEN {<<p, made'[p]>>} ELSE {})
           /\ task' = [task EXCEPT ![w].new = made[p] + 1, ![w].logo = watermark,
                                   ![w].at = IF watermark = 0 THEN "save" ELSE "mark"]
    /\ UNCHANGED <<rows, spoiled, deleted, original, queue, backfill, profile, shelf, redone,
                   crossed, faults>>

(* The watermark the task has loaded is still there. *)
HasLogo(w) == task[w].logo \in assets

TaskMarks(w) ==
    /\ At(w, "mark") /\ HasLogo(w)
    /\ marks' = [marks EXCEPT ![<<task[w].photo, task[w].new>>] = @ + 1]
    /\ Goes(w, "read")
    /\ UNCHANGED <<rows, made, spoiled, deleted, original, queue, backfill, profile, shelf,
                   ghosts, faults>>

(* The original is read, marked and written back under its own key. *)
TaskReads(w) ==
    /\ At(w, "read") /\ HasLogo(w)
    /\ task' = [task EXCEPT ![w].at = "write", ![w].copy = original[task[w].photo]]
    /\ UNCHANGED <<rows, objects, queue, backfill, profile, shelf, ghosts, faults>>

Overwrites(w) == original' = [original EXCEPT ![task[w].photo] = task[w].copy + 1]

TaskWrites(w) ==
    /\ At(w, "write")
    /\ Overwrites(w)
    /\ Goes(w, "save")
    /\ UNCHANGED <<rows, made, spoiled, deleted, marks, queue, backfill, profile, shelf,
                   ghosts, faults>>

(* Both thumbnails are made from the proxy of this try. *)
TaskDerives(w) == thumb' = [thumb EXCEPT ![task[w].photo] = task[w].new]

(* Mutant: thumbnails that are there are kept. *)
TaskSavesMissing(w) ==
    /\ At(w, "save")
    /\ LET p == task[w].photo
       IN  IF p \in photos
           THEN /\ status' = [status EXCEPT ![p] = "completed"]
                /\ proxy' = [proxy EXCEPT ![p] = task[w].new]
                /\ thumb' = [thumb EXCEPT ![p] = IF @ = 0 THEN task[w].new ELSE @]
                /\ Goes(w, "cool")
           ELSE Rests(w) /\ UNCHANGED <<status, proxy, thumb>>
    /\ UNCHANGED <<photos, objects, queue, backfill, profile, shelf, ghosts, faults>>

(* A row that is gone cannot be saved, and neither can the error: the task ends. *)
TaskSaves(w) ==
    /\ At(w, "save")
    /\ LET p == task[w].photo
       IN  IF p \in photos
           THEN /\ status' = [status EXCEPT ![p] = "completed"]
                /\ proxy' = [proxy EXCEPT ![p] = task[w].new]
                /\ TaskDerives(w)
                /\ Goes(w, "cool")
           ELSE Rests(w) /\ UNCHANGED <<status, proxy, thumb>>
    /\ UNCHANGED <<photos, objects, queue, backfill, profile, shelf, ghosts, faults>>

TaskCools(w) ==
    /\ At(w, "cool")
    /\ Rests(w)
    /\ UNCHANGED <<rows, objects, queue, backfill, profile, shelf, ghosts, faults>>

(* Whether the original has been, or may have been, overwritten by this try. *)
Overwritten(w) == task[w].logo # 0 /\ task[w].at \in {"write", "save", "cool"}

(* A StorageError, of the storage or for a watermark that is gone: another try,  *)
(* unless it was the last.  A write that failed may have been made all the same. *)
TaskRetries(w) ==
    /\ task[w].at # "idle"
    /\ Fault \/ (task[w].at \in {"mark", "read"} /\ ~HasLogo(w) /\ faults' = faults)
    /\ LET p == task[w].photo
           again == task[w].tries < MaxTries
       IN  /\ queue' = IF again THEN queue \cup {<<p, task[w].tries + 1>>} ELSE queue
           /\ redone' = IF again /\ Overwritten(w) THEN redone \cup {p} ELSE redone
    /\ (At(w, "write") /\ Overwrites(w)) \/ original' = original
    /\ Rests(w)
    /\ UNCHANGED <<rows, made, spoiled, deleted, marks, backfill, profile, shelf, crossed,
                   plain>>

(* Mutant: any other error is tried again. *)
TaskFailsAgain(w) ==
    /\ Fault /\ task[w].at # "idle"
    /\ queue' = IF task[w].tries < MaxTries
                THEN queue \cup {<<task[w].photo, task[w].tries + 1>>} ELSE queue
    /\ Rests(w)
    /\ UNCHANGED <<rows, objects, backfill, profile, shelf, ghosts>>

(* Any other error is written to the row and not tried again. *)
TaskFails(w) ==
    /\ Fault /\ task[w].at # "idle"
    /\ status' = IF task[w].photo \in photos
                 THEN [status EXCEPT ![task[w].photo] = "failed"] ELSE status
    /\ Rests(w)
    /\ UNCHANGED <<photos, proxy, thumb, objects, queue, backfill, profile, shelf, ghosts>>

TaskDies(w) ==
    /\ Fault /\ task[w].at # "idle"
    /\ Rests(w)
    /\ UNCHANGED <<rows, objects, queue, backfill, profile, shelf, ghosts>>

------------------------------------------------------------------------------
(* backfill_event_derivatives *)

Missing == {p \in photos : proxy[p] # 0 /\ thumb[p] = 0}

Newer(p, S) == {q \in S : q > p}

Batch == {p \in Missing : Cardinality(Newer(p, Missing)) < BatchSize}

(* An operator asks for it, or the last batch has queued the next. *)
BackfillCalled ==
    /\ backfill.at = "idle"
    /\ backfill' = [Resting EXCEPT !.at = "queued"]
    /\ UNCHANGED <<rows, objects, queue, task, profile, shelf, ghosts, faults>>

BackfillLoads ==
    /\ backfill.at = "queued"
    /\ backfill' = [backfill EXCEPT !.at = "deriving", !.todo = [p \in Batch |-> proxy[p]],
                                    !.got = None]
    /\ UNCHANGED <<rows, objects, queue, task, profile, shelf, ghosts, faults>>

Readable(p, k) == <<p, k>> \notin deleted /\ ~(p \in spoiled /\ k = 1)

Without(batch, p) == [q \in DOMAIN batch \ {p} |-> batch[q]]
With(batch, p, k) == [q \in DOMAIN batch \cup {p} |-> IF q = p THEN k ELSE batch[q]]

(* The newest photo that is left of the batch. *)
Turn(p) == p \in DOMAIN backfill.todo /\ Newer(p, DOMAIN backfill.todo) = {}

BackfillDerives(p) ==
    /\ backfill.at = "deriving" /\ Turn(p)
    /\ LET k == backfill.todo[p]
       IN  backfill' = [backfill EXCEPT !.todo = Without(@, p),
                                        !.got = IF Readable(p, k) THEN With(@, p, k) ELSE @]
    /\ UNCHANGED <<rows, objects, queue, task, profile, shelf, ghosts, faults>>

(* A storage error leaves the photo out and the batch goes on. *)
BackfillSkips(p) ==
    /\ Fault /\ backfill.at = "deriving" /\ Turn(p)
    /\ backfill' = [backfill EXCEPT !.todo = Without(@, p), !.hit = TRUE]
    /\ UNCHANGED <<rows, objects, queue, task, profile, shelf, ghosts>>

(* All thumbnails of the batch are committed, or none if one of the photos is gone. *)
BackfillCommits ==
    /\ backfill.at = "deriving" /\ backfill.todo = None
    /\ DOMAIN backfill.got \subseteq photos
    /\ thumb' = [p \in Photo |-> IF p \in DOMAIN backfill.got THEN backfill.got[p]
                                 ELSE thumb[p]]
    /\ backfill' = [backfill EXCEPT !.at = "counting"]
    /\ UNCHANGED <<photos, status, proxy, objects, queue, task, profile, shelf, ghosts,
                   faults>>

BackfillBreaks ==
    /\ backfill.at = "deriving" /\ backfill.todo = None
    /\ ~(DOMAIN backfill.got \subseteq photos)
    /\ backfill' = Resting
    /\ UNCHANGED <<rows, objects, queue, task, profile, shelf, ghosts, faults>>

ContinuesWhileMany == Cardinality(Missing) > 1 /\ backfill.got # None

Continues == Missing # {} /\ backfill.got # None

(* The next batch is queued while photos are left, if this one made progress. *)
BackfillCounts ==
    /\ backfill.at = "counting"
    /\ backfill' = IF Continues THEN [backfill EXCEPT !.at = "queued"] ELSE Resting
    /\ UNCHANGED <<rows, objects, queue, task, profile, shelf, ghosts, faults>>

BackfillDies ==
    /\ Fault /\ backfill.at # "idle"
    /\ backfill' = Resting
    /\ UNCHANGED <<rows, objects, queue, task, profile, shelf, ghosts>>

------------------------------------------------------------------------------
(* upload_watermark and update_profile.  upload_logo does the same to logo_url, *)
(* which no task reads.                                                         *)

Edits == edits < MaxEdits /\ edits' = edits + 1

Puts(r, key) ==
    /\ upload[r] = Idle /\ Edits
    /\ assets' = assets \cup {key}
    /\ upload' = [upload EXCEPT ![r] = [at |-> IF watermark = 0 THEN "save" ELSE "drop",
                                        old |-> watermark, new |-> key]]
    /\ UNCHANGED <<rows, objects, queue, task, backfill, watermark, lost, named, shelf,
                   ghosts, faults>>

(* Mutant: the key has no random part. *)
UploadPutsSameKey(r) == Puts(r, 1)

(* The old key is the one loaded when the request was authenticated; the new is fresh. *)
UploadPuts(r) == Puts(r, edits + 2)

(* The object that the row still names is deleted before the row is written. *)
UploadDrops(r) ==
    /\ upload[r].at = "drop"
    /\ assets' = assets \ {upload[r].old}
    /\ upload' = [upload EXCEPT ![r].at = "save"]
    /\ UNCHANGED <<rows, objects, queue, task, backfill, watermark, edits, lost, named,
                   shelf, ghosts, faults>>

UploadSaves(r) ==
    /\ upload[r].at = "save"
    /\ watermark' = upload[r].new
    /\ upload' = [upload EXCEPT ![r] = Idle]
    /\ UNCHANGED <<rows, objects, queue, task, backfill, assets, edits, lost, named, shelf,
                   ghosts, faults>>

(* A call fails, though the storage may have done what it was asked, or the process dies. *)
UploadFails(r) ==
    /\ Fault /\ upload[r].at \in {"drop", "save"}
    /\ LET old == upload[r].old
       IN  \/ /\ upload[r].at = "drop" /\ UNCHANGED <<assets, lost>>
           \/ /\ assets' = assets \ {old}
              /\ lost' = lost \cup ({old} \ {0})
    /\ upload' = [upload EXCEPT ![r] = Idle]
    /\ UNCHANGED <<rows, objects, queue, task, backfill, watermark, edits, named, shelf,
                   ghosts>>

(* The client writes what it likes: NULL, a key of this or an earlier watermark, or *)
(* another string.  The objects stay; what the row has already is not written.      *)
ProfileNames(name) ==
    /\ name \in Names \ {watermark} /\ Edits
    /\ watermark' = name /\ named' = named \cup ({name} \ {0})
    /\ UNCHANGED <<rows, objects, queue, task, backfill, assets, upload, lost, shelf,
                   ghosts, faults>>

Uploads(r) == UploadPuts(r) \/ UploadDrops(r) \/ UploadSaves(r)

------------------------------------------------------------------------------
(* What else happens to the photos *)

(* The API deletes the row and leaves the objects (photo_service.py:94).  Nothing is *)
(* said of a photo that is gone, so its history is dropped.                          *)
Deletes(p) ==
    /\ p \in photos
    /\ photos' = photos \ {p}
    /\ status' = [status EXCEPT ![p] = "pending"]
    /\ proxy' = [proxy EXCEPT ![p] = 0] /\ thumb' = [thumb EXCEPT ![p] = 0]
    /\ backfill' = IF backfill.at = "idle" THEN backfill ELSE [backfill EXCEPT !.hit = TRUE]
    /\ redone' = redone \ {p} /\ crossed' = crossed \ {p}
    /\ plain' = {x \in plain : x[1] # p}
    /\ UNCHANGED <<objects, queue, task, profile, shelf, faults>>

(* The archival deletes the proxies and clears their keys. *)
Archives ==
    /\ shelf = "never" /\ shelf' = "now"
    /\ deleted' = deleted \cup {<<p, proxy[p]>> : p \in {q \in photos : proxy[q] # 0}}
    /\ status' = [p \in Photo |-> "pending"]
    /\ proxy' = [p \in Photo |-> 0] /\ thumb' = proxy'
    /\ crossed' = crossed \cup DOMAIN backfill.todo \cup DOMAIN backfill.got
    /\ UNCHANGED <<photos, made, spoiled, marks, original, queue, task, backfill, profile,
                   redone, plain, faults>>

(* Every photo is processed again, its original as the archival found it. *)
Restores ==
    /\ shelf = "now" /\ shelf' = "before"
    /\ queue' = queue \cup {<<p, 0>> : p \in photos}
    /\ redone' = redone \cup photos
    /\ UNCHANGED <<rows, objects, task, backfill, profile, crossed, plain, faults>>
------------------------------------------------------------------------------
(* What a gallery serves (services/gallery_url_service.py): the first key that is there. *)
(* Photos that still have a key of the former preview size are left out.                 *)

Variant == {"micro_thumb", "thumb", "full"}

Candidates(p, variant) ==
    IF variant = "full" THEN <<proxy[p], thumb[p]>> ELSE <<thumb[p], proxy[p]>>

Resolve(p, variant) ==
    LET keys == Candidates(p, variant) IN IF keys[1] # 0 THEN keys[1] ELSE keys[2]

Urls(p) == {Resolve(p, variant) : variant \in Variant}

------------------------------------------------------------------------------
TaskStep(w) ==
    \/ \E p \in Photo, n \in 0..MaxTries : TaskLoads(w, p, n)
    \/ TaskMakes(w) \/ TaskMarks(w) \/ TaskReads(w) \/ TaskWrites(w)
    \/ TaskSaves(w) \/ TaskCools(w)

BackfillStep ==
    \/ BackfillLoads \/ (\E p \in Photo : BackfillDerives(p))
    \/ BackfillCommits \/ BackfillBreaks \/ BackfillCounts

Breaks ==
    \/ \E w \in Worker : TaskRetries(w) \/ TaskFails(w) \/ TaskDies(w)
    \/ (\E p \in Photo : BackfillSkips(p)) \/ BackfillDies
    \/ \E r \in Request : UploadFails(r)

Next ==
    \/ \E w \in Worker : TaskStep(w)
    \/ BackfillCalled \/ BackfillStep \/ Breaks
    \/ (\E r \in Request : Uploads(r)) \/ (\E name \in Logo : ProfileNames(name))
    \/ (\E p \in Photo : Deletes(p)) \/ Archives \/ Restores

Spec == Init /\ [][Next]_vars

------------------------------------------------------------------------------
(* Properties *)

(* A photo is shown with the watermark burned in once, or not at all if there was none *)
(* when its proxy was made, unless it was processed again after its original had been  *)
(* overwritten (photo_tasks.py:116).                                                   *)
MarkedOnce ==
    \A p \in photos \ redone :
        proxy[p] # 0 => marks[<<p, proxy[p]>>] = (IF <<p, proxy[p]>> \in plain THEN 0 ELSE 1)

(* The watermark of a photographer is there to be read, unless a change of the profile *)
(* has named it, but between the deletion of the old one and the commit of the new, or *)
(* after a failure between the two: requests that overlap do not delete what one of    *)
(* them has brought (profile.py:163).                                                  *)
WatermarkServes ==
    watermark \in {0} \cup assets \cup lost \cup named
                 \cup {upload[r].old : r \in {q \in Request : upload[q].at = "save"}}

(* Every size of a photo that a gallery is given shows its present proxy, unless the   *)
(* photo was archived between the backfill's query and its commit (photo_tasks.py:269).*)
RenditionsAgree == \A p \in photos \ crossed : Urls(p) = {proxy[p]}

(* A backfill that meets no error and no deletion has served every photo whose proxy  *)
(* can be read, but those older than a batch of photos whose proxies cannot (:241).   *)
Unreadable == {p \in Missing : ~Readable(p, proxy[p])}

BackfillReachesAll ==
    [][backfill.at = "counting" /\ backfill'.at = "idle" /\ ~backfill.hit
       /\ faults' = faults =>
          \A p \in Missing \ Unreadable :
              Cardinality(Newer(p, Unreadable)) >= BatchSize]_vars

=============================================================================
