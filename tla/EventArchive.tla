---------------------------- MODULE EventArchive -----------------------------
(***************************************************************************)
(* Archiving an event and restoring it (services/archival_service.py),     *)
(* beside everything that may still be at work on its photos: proxy tasks, *)
(* uploads, a face run, the reconciler, and other archive tasks.  There is *)
(* no lock between them.  A task works with the rows it loaded when it     *)
(* began, and its commit writes the columns that it changed and no others. *)
(*                                                                         *)
(* A photo's proxy and its two renditions share one fate and are one       *)
(* object here, which is gone as soon as one of them is; every proxy task  *)
(* puts it under a fresh key.  Proxies are deleted by requests of up to    *)
(* 1000 keys each.  One face run at a time; FaceJobs has the races between *)
(* several of them.                                                        *)
(***************************************************************************)
EXTENDS Naturals

CONSTANTS
    Photo,
    NoPhoto,
    Worker,         \* the Celery workers that run photo tasks
    Archiver,       \* those that run archive tasks
    Click,          \* concurrent archive and restore requests
    MaxKeys,        \* bound: proxies ever made of one photo
    MaxQueue,       \* bound: messages of one kind that are told apart
    MaxAsks,        \* bound: requests, and visits of the reconciler
    MaxFaults       \* bound: failing calls and dying processes

ASSUME ArchiveAssumption ==
    /\ NoPhoto \notin Photo
    /\ MaxKeys \in Nat /\ MaxAsks \in Nat /\ MaxFaults \in Nat
    /\ MaxQueue \in Nat \ {0}

VARIABLES
    status,     \* events.status
    photos,     \* the photo rows of the event
    proc,       \* their processing_status
    key,        \* their proxy_s3_key; 0 is NULL
    done,       \* those with faces_processed
    faces,      \* those with embedding rows
    frozen,     \* those whose original is in GLACIER_IR
    objects,    \* what is in the proxy bucket: <<photo, key>>
    made,       \* how many keys were drawn for each photo
    arriving,   \* uploads: what they will write into the status
    queue,      \* waiting process_uploaded_photo messages of each photo
    task,       \* the photo task of each worker
    run,        \* the face run
    archives,   \* waiting archive_event_task messages
    arch,       \* the archive tasks
    behind,     \* history: photos written to since each of them loaded the rows
    torn,       \* history: proxies that a task may have deleted before it failed
    restores,   \* waiting restore_event_task messages
    rest,       \* the restore task
    revert,     \* where the reconciler is with this event
    ask,        \* where each archive or restore request is
    asks,       \* history: requests, and visits of the reconciler
    faults,     \* history: faults
    warm        \* history: photos that work begun before the archival may still touch

rowVars  == <<photos, proc, key, done, faces, frozen, objects>>
taskVars == <<queue, task, made>>
archVars == <<archives, arch, behind, torn>>
restVars == <<restores, rest>>
askVars  == <<ask, asks>>
vars     == <<status, rowVars, arriving, taskVars, run, archVars, restVars, revert, askVars,
              faults, warm>>

Status  == {"draft", "uploading", "processing", "ready", "archived"}
NoWrite == "same"                       \* the session has nothing to write into the status
Proc    == {"pending", "completed", "failed"}

\* A photo task: the processing_status that it loaded, the proxy it made, and the status of
\* the event, first as it loaded it and then as it will write it.
Task == [at : {"making", "made", "committed", "counting", "writing", "idle"},
         photo : Photo \cup {NoPhoto}, had : Proc, new : 0..MaxKeys,
         saw : Status \cup {NoWrite}]
NoTask == [at |-> "idle", photo |-> NoPhoto, had |-> "pending", new |-> 0, saw |-> NoWrite]

\* The face run: the photos that it has yet to take, and the one between its two commits.
Run == [at : {"queued", "scanning", "storing", "writing", "idle"},
        todo : SUBSET Photo, cur : Photo \cup {NoPhoto}, saw : Status \cup {NoWrite}]
NoRun == [at |-> "idle", todo |-> {}, cur |-> NoPhoto, saw |-> NoWrite]

\* An archive task: the rows that it loaded, their keys, those that were not PENDING, those
\* whose proxies it has asked the storage to delete, and what it will write into the status.
Archival == [at : {"moving", "deleting", "committing", "idle"},
             rows : SUBSET Photo, keys : [Photo -> 0..MaxKeys], settled : SUBSET Photo,
             gone : SUBSET Photo, writes : {"archived", NoWrite}]
NoArchival == [at |-> "idle", rows |-> {}, keys |-> [p \in Photo |-> 0], settled |-> {},
               gone |-> {}, writes |-> NoWrite]

Restore == [at : {"moving", "committing", "queueing", "idle"},
            rows : SUBSET Photo, writes : {"processing", NoWrite}]
NoRestore == [at |-> "idle", rows |-> {}, writes |-> NoWrite]

RowsOK ==
    /\ status \in Status
    /\ photos \subseteq Photo /\ done \subseteq Photo /\ faces \subseteq Photo
    /\ frozen \subseteq Photo /\ warm \subseteq Photo
    /\ proc \in [Photo -> Proc] /\ key \in [Photo -> 0..MaxKeys]
    /\ objects \subseteq Photo \X (1..MaxKeys)

TasksOK ==
    /\ arriving \in [Photo -> {"nothing", "uploading", NoWrite}]
    /\ queue \in [Photo -> 0..MaxQueue] /\ made \in [Photo -> 0..MaxKeys]
    /\ task \in [Worker -> Task]
    /\ \A w \in Worker : task[w].at \in {"making", "made", "committed"}
                            => task[w].photo \in Photo
    /\ run \in Run /\ (run.at = "storing" => run.cur \in Photo)

RequestsOK ==
    /\ archives \in 0..MaxQueue /\ restores \in 0..MaxQueue
    /\ arch \in [Archiver -> Archival] /\ behind \in [Archiver -> SUBSET Photo]
    /\ torn \subseteq Photo \X (0..MaxKeys)
    /\ rest \in Restore
    /\ revert \in {"none", "loaded", "toReady", "toUploading"}
    /\ ask \in [Click -> {"idle", "archive", "rearchive", "restore", "toArchive",
                          "toRestore"}]
    /\ asks \in 0..MaxAsks /\ faults \in 0..MaxFaults

TypeOK == RowsOK /\ TasksOK /\ RequestsOK

Init ==
    /\ status = "draft"
    /\ photos = {}
    /\ proc = [p \in Photo |-> "pending"] /\ key = [p \in Photo |-> 0]
    /\ done = {} /\ faces = {} /\ frozen = {}
    /\ objects = {} /\ made = [p \in Photo |-> 0]
    /\ arriving = [p \in Photo |-> "nothing"]
    /\ queue = [p \in Photo |-> 0]
    /\ task = [w \in Worker |-> NoTask]
    /\ run = NoRun
    /\ archives = 0 /\ restores = 0
    /\ arch = [a \in Archiver |-> NoArchival] /\ behind = [a \in Archiver |-> {}]
    /\ torn = {}
    /\ rest = NoRestore
    /\ revert = "none"
    /\ ask = [c \in Click |-> "idle"] /\ asks = 0
    /\ faults = 0
    /\ warm = {}

Fault == faults < MaxFaults /\ faults' = faults + 1

OneMore(n) == IF n < MaxQueue THEN n + 1 ELSE n

-----------------------------------------------------------------------------
(* EventService.update_event_processing_status, as in FaceJobs, with ARCHIVED left alone. *)

proxied == {p \in photos : proc[p] # "pending"}

Verdict(previous) ==
    LET computed == IF photos = {} THEN "draft"
                    ELSE IF photos \subseteq done /\ proxied = photos THEN "ready"
                    ELSE IF previous = "processing" THEN "processing" ELSE "uploading"
    IN  IF previous = "archived" \/ computed = previous THEN NoWrite ELSE computed

Write(verdict) == status' = IF verdict = NoWrite THEN status ELSE verdict

\* Archive tasks that have loaded their rows do not see what is written to photo p.
Written(p) == behind' = [a \in Archiver |->
                            IF arch[a].at = "idle" THEN {} ELSE behind[a] \cup {p}]

-----------------------------------------------------------------------------
(* Uploads: handle_post_finish, which no status forbids. *)

UploadReads(p) ==
    /\ p \notin photos /\ arriving[p] = "nothing"
    /\ arriving' = [arriving EXCEPT ![p] = IF status \in {"draft", "ready"} THEN "uploading"
                                                                          ELSE NoWrite]
    /\ UNCHANGED <<status, rowVars, taskVars, run, archVars, restVars, revert, askVars,
                   faults, warm>>

Upload(p) ==
    /\ arriving[p] # "nothing"
    /\ photos' = photos \cup {p}
    /\ Write(arriving[p])
    /\ queue' = [queue EXCEPT ![p] = OneMore(@)]
    /\ arriving' = [arriving EXCEPT ![p] = "nothing"]
    /\ warm' = warm \cup {p}
    /\ UNCHANGED <<proc, key, done, faces, frozen, objects, task, made, run, archVars,
                   restVars, revert, askVars, faults>>

-----------------------------------------------------------------------------
(* process_uploaded_photo, of an upload or of a restore. *)

unchangedByTask == <<photos, done, faces, arriving, run, archives, arch, torn, restVars,
                     revert, askVars, warm>>

Becomes(w, record) == task' = [task EXCEPT ![w] = record]

\* The photo is loaded, and the event with it.
TaskStarts(w, p) ==
    /\ queue[p] > 0 /\ queue' = [queue EXCEPT ![p] = @ - 1]
    /\ task[w].at = "idle"
    /\ Becomes(w, [at |-> "making", photo |-> p, had |-> proc[p], new |-> 0,
                   saw |-> status])
    /\ UNCHANGED <<unchangedByTask, status, proc, key, frozen, objects, made, faults, behind>>

\* generate_web_proxy and generate_derivatives: a fresh uuid for each object.
TaskMakes(w) ==
    /\ task[w].at = "making"
    /\ LET p == task[w].photo
       IN  /\ made[p] < MaxKeys
           /\ made' = [made EXCEPT ![p] = @ + 1]
           /\ objects' = objects \cup {<<p, made[p] + 1>>}
           /\ Becomes(w, [task[w] EXCEPT !.at = "made", !.new = made[p] + 1])
    /\ UNCHANGED <<unchangedByTask, status, proc, key, frozen, queue, faults, behind>>

TaskCommits(w) ==
    /\ task[w].at = "made"
    /\ LET p == task[w].photo
       IN  /\ key' = [key EXCEPT ![p] = task[w].new]
           /\ proc' = [proc EXCEPT ![p] = IF task[w].had = "completed" THEN @
                                                                        ELSE "completed"]
           /\ Written(p)
    /\ Becomes(w, [task[w] EXCEPT !.at = "committed", !.had = "completed", !.new = 0])
    /\ UNCHANGED <<unchangedByTask, status, frozen, objects, queue, made, faults>>

\* The original goes to Infrequent Access.
TaskCools(w) ==
    /\ task[w].at = "committed"
    /\ frozen' = frozen \ {task[w].photo}
    /\ Written(task[w].photo)
    /\ Becomes(w, [NoTask EXCEPT !.at = "counting", !.saw = task[w].saw])
    /\ UNCHANGED <<unchangedByTask, status, proc, key, objects, queue, made, faults>>

\* Any exception but a storage error: FAILED, and no retry.
TaskFails(w) ==
    /\ task[w].at \in {"making", "made", "committed"}
    /\ Fault
    /\ proc' = [proc EXCEPT ![task[w].photo] = IF task[w].had = "failed" THEN @ ELSE "failed"]
    /\ Written(task[w].photo)
    /\ Becomes(w, [NoTask EXCEPT !.at = "counting", !.saw = task[w].saw])
    /\ UNCHANGED <<unchangedByTask, status, key, frozen, objects, queue, made>>

\* A storage error: Celery puts the message back.  What was put and committed stays.
TaskRetries(w) ==
    /\ task[w].at \in {"making", "made", "committed"}
    /\ Fault
    /\ queue' = [queue EXCEPT ![task[w].photo] = OneMore(@)]
    /\ Becomes(w, NoTask)
    /\ UNCHANGED <<unchangedByTask, status, proc, key, frozen, objects, made, behind>>

\* The worker dies, or the retries are used up.
TaskDies(w) ==
    /\ task[w].at # "idle"
    /\ Fault
    /\ Becomes(w, NoTask)
    /\ UNCHANGED <<unchangedByTask, status, proc, key, frozen, objects, queue, made, behind>>

TaskCounts(w) ==
    /\ task[w].at = "counting"
    /\ Becomes(w, [task[w] EXCEPT !.at = "writing", !.saw = Verdict(@)])
    /\ UNCHANGED <<unchangedByTask, status, proc, key, frozen, objects, queue, made, faults,
                   behind>>

TaskWrites(w) ==
    /\ task[w].at = "writing"
    /\ Write(task[w].saw)
    /\ Becomes(w, NoTask)
    /\ UNCHANGED <<unchangedByTask, proc, key, frozen, objects, queue, made, faults, behind>>

-----------------------------------------------------------------------------
(* A face run: see FaceJobs and BulkPipeline for what is inside it.  There is a face in    *)
(* every photo.                                                                            *)

unchangedByRun == <<photos, proc, key, frozen, objects, arriving, taskVars, archVars,
                    restVars, ask, warm>>

Pending == photos \ done

\* start_face_processing, which no status forbids either.
RunRequest ==
    /\ run.at = "idle" /\ Pending # {}
    /\ asks < MaxAsks /\ asks' = asks + 1
    /\ status' = "processing"
    /\ run' = [NoRun EXCEPT !.at = "queued"]
    /\ UNCHANGED <<unchangedByRun, done, faces, revert, faults>>

RunLoads ==
    /\ run.at = "queued"
    /\ run' = [at |-> "scanning", todo |-> Pending, cur |-> NoPhoto, saw |-> status]
    /\ UNCHANGED <<unchangedByRun, status, done, faces, revert, asks, faults>>

\* The crops of a photo are committed ...
RunStores(p) ==
    /\ run.at = "scanning"
    /\ p \in run.todo
    /\ run' = [run EXCEPT !.at = "storing", !.todo = @ \ {p}, !.cur = p]
    /\ faces' = faces \cup {p}
    /\ UNCHANGED <<unchangedByRun, status, done, revert, asks, faults>>

\* ... and then the photo is marked.
RunFinishes ==
    /\ run.at = "storing"
    /\ run' = [run EXCEPT !.at = "scanning", !.cur = NoPhoto]
    /\ done' = done \cup {run.cur}
    /\ UNCHANGED <<unchangedByRun, status, faces, revert, asks, faults>>

\* A photo that cannot be read, or whose faces cannot be embedded, is only marked.
RunPassesOver(p) ==
    /\ run.at = "scanning"
    /\ p \in run.todo
    /\ Fault
    /\ run' = [run EXCEPT !.todo = @ \ {p}]
    /\ done' = done \cup {p}
    /\ UNCHANGED <<unchangedByRun, status, faces, revert, asks>>

\* The refresh reads the event in a session of its own, which may still hold the first copy.
RunCounts ==
    /\ run.at = "scanning" /\ run.todo = {}
    /\ \E previous \in {run.saw, status} :
          run' = [run EXCEPT !.at = "writing", !.saw = Verdict(previous)]
    /\ UNCHANGED <<unchangedByRun, status, done, faces, revert, asks, faults>>

RunWrites ==
    /\ run.at = "writing"
    /\ Write(run.saw)
    /\ run' = NoRun
    /\ UNCHANGED <<unchangedByRun, done, faces, revert, asks, faults>>

\* The worker dies or the run fails.
RunDies ==
    /\ run.at # "idle"
    /\ Fault
    /\ run' = NoRun
    /\ UNCHANGED <<unchangedByRun, status, done, faces, revert, asks>>

-----------------------------------------------------------------------------
(* POST /events/{id}/archive and /restore, and the daily check. *)

unchangedByAsk == <<rowVars, arriving, taskVars, run, arch, behind, torn, rest, revert,
                    warm>>

Asks(c, step) == ask' = [ask EXCEPT ![c] = step]

\* The request reads the event; a session that read PROCESSING will not write it again.
AskReads(c) ==
    /\ ask[c] = "idle"
    /\ asks < MaxAsks /\ asks' = asks + 1
    /\ Asks(c, CASE status = "archived"   -> "restore"
                 [] status = "processing" -> "rearchive"
                 [] OTHER                 -> "archive")
    /\ UNCHANGED <<unchangedByAsk, status, archives, restores, faults>>

AskCommits(c) ==
    /\ ask[c] \in {"archive", "rearchive", "restore"}
    /\ status' = IF ask[c] = "rearchive" THEN status ELSE "processing"
    /\ Asks(c, IF ask[c] = "restore" THEN "toRestore" ELSE "toArchive")
    /\ UNCHANGED <<unchangedByAsk, archives, restores, asks, faults>>

AskQueues(c) ==
    /\ \/ ask[c] = "toArchive" /\ archives' = OneMore(archives) /\ UNCHANGED restores
       \/ ask[c] = "toRestore" /\ restores' = OneMore(restores) /\ UNCHANGED archives
    /\ Asks(c, "idle")
    /\ UNCHANGED <<unchangedByAsk, status, asks, faults>>

AskDies(c) ==
    /\ ask[c] # "idle"
    /\ Fault
    /\ Asks(c, "idle")
    /\ UNCHANGED <<unchangedByAsk, status, archives, restores, asks>>

\* check_events_for_archival: the event is READY and archive_at, which nothing moves, is over.
DailyCheck ==
    /\ status = "ready"
    /\ archives' = OneMore(archives)
    /\ UNCHANGED <<unchangedByAsk, status, restores, ask, asks, faults>>

-----------------------------------------------------------------------------
(* ArchivalService.archive_event. *)

unchangedByArchive == <<photos, done, arriving, taskVars, run, restVars, revert, askVars>>

Goes(a, record) == arch' = [arch EXCEPT ![a] = record]
Forgets(a)      == behind' = [behind EXCEPT ![a] = {}]

ArchiveLoads(a) ==
    /\ archives > 0 /\ archives' = archives - 1
    /\ arch[a].at = "idle"
    /\ Goes(a, [at |-> "moving", rows |-> photos, keys |-> key, settled |-> proxied,
                gone |-> {}, writes |-> IF status = "archived" THEN NoWrite ELSE "archived"])
    /\ Forgets(a)
    /\ UNCHANGED <<unchangedByArchive, torn, status, proc, key, faces, frozen, objects, faults,
                   warm>>

\* All originals go to GLACIER_IR ...
ArchiveMoves(a) ==
    /\ arch[a].at = "moving"
    /\ frozen' = frozen \cup arch[a].rows
    /\ Goes(a, [arch[a] EXCEPT !.at = "deleting"])
    /\ UNCHANGED <<unchangedByArchive, torn, status, proc, key, faces, objects, archives,
                   faults, behind, warm>>

\* Mutant: a photo that could not be moved is logged and passed over, as in a restore.
ArchiveGoesOn(a) ==
    /\ arch[a].at = "moving"
    /\ Fault
    /\ \E moved \in SUBSET arch[a].rows : frozen' = frozen \cup moved
    /\ Goes(a, [arch[a] EXCEPT !.at = "deleting"])
    /\ UNCHANGED <<unchangedByArchive, torn, status, proc, key, faces, objects, archives,
                   behind, warm>>

\* ... or some do, and the task is retried before it has deleted anything.
ArchiveAborts(a) ==
    /\ arch[a].at = "moving"
    /\ Fault
    /\ \E moved \in SUBSET arch[a].rows : frozen' = frozen \cup moved
    /\ archives' = OneMore(archives)
    /\ Goes(a, NoArchival) /\ Forgets(a)
    /\ UNCHANGED <<unchangedByArchive, torn, status, proc, key, faces, objects, warm>>

\* The keys are deleted by a request for each batch.  What a request could not delete is in
\* its answer, which nobody reads.
Deletes(a, batch, keys) ==
    /\ arch[a].at = "deleting"
    /\ batch # {} \/ arch[a].rows = {}
    /\ \E missed \in SUBSET batch :
          /\ \/ missed = {} /\ UNCHANGED faults
             \/ missed # {} /\ Fault
          /\ objects' = objects \ {<<p, keys[p]>> : p \in batch \ missed}
    /\ LET gone == arch[a].gone \cup batch
       IN  Goes(a, [arch[a] EXCEPT !.at = IF gone = arch[a].rows THEN "committing" ELSE @,
                                   !.gone = gone])
    /\ UNCHANGED <<unchangedByArchive, torn, status, proc, key, faces, frozen, archives,
                   behind, warm>>

\* Those that are left for a request to delete.
Left(a) == arch[a].rows \ arch[a].gone

\* Mutant: the keys are read again before the deletion.
ArchiveDeletesCurrent(a) == \E batch \in SUBSET Left(a) : Deletes(a, batch, key)

\* The proxies it knew of are deleted ...
ArchiveDeletes(a) == \E batch \in SUBSET Left(a) : Deletes(a, batch, arch[a].keys)

\* Work that was begun and may still touch photo p.
InFlight(p) ==
    \/ queue[p] > 0
    \/ \E w \in Worker : task[w].photo = p
    \/ p \in run.todo
    \/ p \notin done /\ (run.at = "queued" \/ revert = "loaded")
    \/ restores > 0 \/ rest.at # "idle" \/ \E c \in Click : ask[c] = "toRestore"

\* ... and one commit forgets them, with the embeddings: of the rows it loaded, the columns
\* that it changed.
ArchiveCommits(a) ==
    /\ arch[a].at = "committing"
    /\ Write(arch[a].writes)
    /\ faces' = {}
    /\ key' = [p \in Photo |->
                  IF p \in arch[a].rows /\ arch[a].keys[p] # 0 THEN 0 ELSE key[p]]
    /\ proc' = [p \in Photo |->
                  IF p \in arch[a].rows \cap arch[a].settled THEN "pending" ELSE proc[p]]
    /\ warm' = {p \in Photo : InFlight(p) \/ p \in behind[a] \/ p \notin arch[a].rows}
    /\ Goes(a, NoArchival) /\ Forgets(a)
    /\ UNCHANGED <<unchangedByArchive, torn, frozen, objects, archives, faults>>

\* A call fails after the originals moved, and the task is retried; or the worker dies, or
\* the retries are used up.  Of the request that fails the storage may have deleted some keys.
ArchiveBreaks(a) ==
    /\ arch[a].at # "idle"
    /\ Fault
    /\ archives' \in {archives, OneMore(archives)}
    /\ \E hit \in SUBSET (IF arch[a].at = "deleting" THEN Left(a) ELSE {}) :
          /\ objects' = objects \ {<<p, arch[a].keys[p]>> : p \in hit}
          /\ torn' = torn \cup {<<p, arch[a].keys[p]>> : p \in arch[a].gone \cup hit}
    /\ Goes(a, NoArchival) /\ Forgets(a)
    /\ UNCHANGED <<unchangedByArchive, status, proc, key, faces, frozen, warm>>

-----------------------------------------------------------------------------
(* ArchivalService.restore_event. *)

unchangedByRestore == <<photos, proc, key, done, faces, objects, arriving, task, made, run,
                        archives, arch, torn, revert, askVars, warm>>

RestoreLoads ==
    /\ restores > 0 /\ restores' = restores - 1
    /\ rest.at = "idle"
    /\ rest' = [at |-> "moving", rows |-> photos,
                writes |-> IF status = "processing" THEN NoWrite ELSE "processing"]
    /\ UNCHANGED <<unchangedByRestore, status, frozen, queue, faults, behind>>

\* Originals go back to STANDARD.  A failure is logged and passed over.
RestoreMoves ==
    /\ rest.at = "moving"
    /\ \E moved \in SUBSET rest.rows :
          /\ \/ moved = rest.rows /\ UNCHANGED faults
             \/ moved # rest.rows /\ Fault
          /\ frozen' = frozen \ moved
    /\ behind' = [a \in Archiver |-> IF arch[a].at = "idle" THEN {}
                                                            ELSE behind[a] \cup rest.rows]
    /\ rest' = [rest EXCEPT !.at = "committing"]
    /\ UNCHANGED <<unchangedByRestore, status, queue, restores>>

RestoreCommits ==
    /\ rest.at = "committing"
    /\ Write(rest.writes)
    /\ rest' = [rest EXCEPT !.at = "queueing"]
    /\ UNCHANGED <<unchangedByRestore, frozen, queue, restores, faults, behind>>

Queues(sent) == queue' = [p \in Photo |-> IF p \in sent THEN OneMore(queue[p]) ELSE queue[p]]

\* Mutant: a proxy task for each photo that awaits its face extraction.
RestoreQueuesPending ==
    /\ rest.at = "queueing"
    /\ Queues(rest.rows \ done)
    /\ rest' = NoRestore
    /\ UNCHANGED <<unchangedByRestore, status, frozen, restores, faults, behind>>

\* A proxy task for each photo that was loaded.
RestoreQueues ==
    /\ rest.at = "queueing"
    /\ Queues(rest.rows)
    /\ rest' = NoRestore
    /\ UNCHANGED <<unchangedByRestore, status, frozen, restores, faults, behind>>

\* A call fails anywhere, with some of the tasks queued already; the whole is retried, or
\* the worker is dead.
RestoreBreaks ==
    /\ rest.at # "idle"
    /\ Fault
    /\ \E sent \in SUBSET (IF rest.at = "queueing" THEN rest.rows ELSE {}) : Queues(sent)
    /\ restores' \in {restores, OneMore(restores)}
    /\ rest' = NoRestore
    /\ UNCHANGED <<unchangedByRestore, status, frozen, behind>>

-----------------------------------------------------------------------------
(* The reconciler takes any PROCESSING event for one of its own (FaceJobs). *)

unchangedByRevert == <<rowVars, arriving, taskVars, archVars, restVars, askVars, faults,
                       warm>>

RevertLoads ==
    /\ status = "processing"
    /\ revert = "none" /\ revert' = "loaded"
    /\ asks < MaxAsks /\ asks' = asks + 1
    /\ UNCHANGED <<rowVars, arriving, taskVars, archVars, restVars, ask, faults, warm, status,
                   run>>

\* Without a heartbeat for long enough; only faces_processed is looked at.
RevertCounts ==
    /\ revert = "loaded"
    /\ revert' = IF Pending = {} THEN "toReady" ELSE "toUploading"
    /\ UNCHANGED <<unchangedByRevert, status, run>>

RevertWrites ==
    /\ revert \in {"toReady", "toUploading"} /\ revert' = "none"
    /\ status' = IF revert = "toReady" THEN "ready" ELSE "uploading"
    /\ UNCHANGED <<unchangedByRevert, run>>

\* For a shorter silence a face run is queued.
Recovers ==
    /\ revert = "loaded" /\ revert' = "none"
    /\ run.at = "idle"
    /\ run' = [NoRun EXCEPT !.at = "queued"]
    /\ UNCHANGED <<unchangedByRevert, status>>

\* A fresh heartbeat, or a give-up mark, or its process dies.
RevertSkips ==
    /\ revert # "none" /\ revert' = "none"
    /\ UNCHANGED <<unchangedByRevert, status, run>>

-----------------------------------------------------------------------------

TaskStep(w) == \/ \E p \in Photo : TaskStarts(w, p)
               \/ TaskMakes(w) \/ TaskCommits(w) \/ TaskCools(w)
               \/ TaskCounts(w) \/ TaskWrites(w)

RunStep == \/ RunLoads \/ RunCounts \/ RunFinishes \/ RunWrites
           \/ \E p \in Photo : RunStores(p)

AskStep(c) == AskCommits(c) \/ AskQueues(c)

ArchiveStep(a) == \/ ArchiveLoads(a) \/ ArchiveMoves(a) \/ ArchiveDeletes(a)
                  \/ ArchiveCommits(a)

RestoreStep == RestoreLoads \/ RestoreMoves \/ RestoreCommits \/ RestoreQueues

ReconcilerStep == RevertLoads \/ RevertCounts \/ RevertWrites \/ Recovers \/ RevertSkips

Breaks == \/ \E w \in Worker : TaskFails(w) \/ TaskRetries(w) \/ TaskDies(w)
          \/ \E c \in Click : AskDies(c)
          \/ \E a \in Archiver : ArchiveAborts(a) \/ ArchiveBreaks(a)
          \/ RunDies \/ RestoreBreaks
          \/ \E p \in Photo : RunPassesOver(p)

Next ==
    \/ \E p \in Photo : UploadReads(p) \/ Upload(p)
    \/ \E w \in Worker : TaskStep(w)
    \/ RunRequest \/ RunStep
    \/ \E c \in Click : AskReads(c) \/ AskStep(c)
    \/ DailyCheck
    \/ \E a \in Archiver : ArchiveStep(a)
    \/ RestoreStep
    \/ ReconcilerStep
    \/ Breaks

Spec == Init /\ [][Next]_vars

(***************************************************************************)
(* Workers go on with what they have taken and take what waits; a request  *)
(* whose process lives is finished.  Nobody has to ask for anything.       *)
(***************************************************************************)
FairSpec ==
    /\ Spec
    /\ \A w \in Worker : WF_vars(TaskStep(w))
    /\ \A c \in Click : WF_vars(AskStep(c))
    /\ \A a \in Archiver : WF_vars(ArchiveStep(a))
    /\ WF_vars(RestoreStep)

-----------------------------------------------------------------------------

Cold(p) == key[p] = 0 /\ proc[p] = "pending" /\ p \notin faces /\ p \in frozen

\* An archived event is cold: every original is in Glacier, no row refers to a proxy, no
\* embedding is left.  The only exceptions are photos which work begun before the event
\* was archived can still touch, and photos that came after it.
ColdUnlessWarm == status = "archived" => \A p \in photos \ warm : Cold(p)

\* A row refers to a proxy that is gone only while the archive task whose request has
\* deleted it has yet to commit, or when that very task failed, in its deletions or after.
DanglingIsArchiving ==
    \A p \in photos : \/ key[p] = 0 \/ <<p, key[p]>> \in objects \cup torn
                      \/ \E a \in Archiver : p \in arch[a].gone /\ arch[a].keys[p] = key[p]

Served(p) == proc[p] = "completed" /\ key[p] # 0 /\ <<p, key[p]>> \in objects

\* A restore ends with a proxy for each photo, unless the event is being archived again
\* or a call failed.
RestoreServes ==
    \A p \in Photo :
        rest.at = "queueing" /\ p \in rest.rows
            ~> \/ Served(p) \/ faults > 0 \/ archives > 0
               \/ \E a \in Archiver : arch[a].at # "idle"

==============================================================================
