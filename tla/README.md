# Formal models of the event vision pipeline

SpotMe is a photo platform for photographers.  A photographer creates an *event*, uploads
its photos from a browser, and starts face processing; background workers detect and embed
the faces and cluster them into persons, and a guest finds the photos that show them with
a selfie.  The backend is a FastAPI process and several Celery worker pools over one
PostgreSQL database, one Redis and an S3 bucket; face workers run on a GPU host that is
started and stopped on demand.

This directory holds TLA+ models of that system, TLC configurations that check them on
small instances, and TLAPS proofs about them for all instances.  `PROJECT.json` lists the
components, the runs, the hazards each property is aimed at, the source lines of every
definition, the theorems, and for each checked property a *mutant*: a plausible mistake in
the code that makes the property fail.

1. [The system](#1-the-system)
2. [Modules](#2-modules)
3. [Runs](#3-runs)
4. [Fairness](#4-fairness)
5. [Where the code and its documentation part](#5-where-the-code-and-its-documentation-part)
6. [Proofs](#6-proofs)
7. [What is abstracted, and what is not modelled](#7-what-is-abstracted-and-what-is-not-modelled)
8. [Plan](#8-plan)

All paths are relative to `src/`; `app/` is short for `backend/app/`.

## 1. The system

### Components, their state and their operations

| component | code | state | operations |
|---|---|---|---|
| pipeline lock | `app/ml/clustering/locks.py`, used by `app/ml/pipeline.py` | a Redis key per event with a token and a time to live | acquire (`SET NX EX`, bounded attempts), extend, release (both compare the token), expiry |
| face job coordination | `app/services/face_processing_service.py`, `app/tasks/face_tasks.py`, `app/ml/face_processing_watch.py`, `app/services/face_processing_reconciler.py` | `events.status`; Redis watch hash, give-up key, requeue key; the `face` queue | start request, job with Celery retries, 60 s pulse, beat task that requeues or reverts |
| bulk face pipeline | `app/ml/pipeline.py`, `app/ml/processing_progress.py` | `photos.faces_processed`, `photos.face_count`, `face_embeddings`, `events.total_faces`; in memory a crop buffer and `awaiting_flush`; the progress hash | load pending photos, detect, buffer, flush a batch, finish a photo, fail photos, cluster |
| face extraction | `app/ml/detection/`, `app/ml/quality/`, `app/ml/embedding/`, `app/ml/model_registry.py` | models in memory, TFLite interpreters | detect at two scales, judge a crop, embed in batches, fall back to a smaller model |
| clustering | `app/ml/clustering/` | `face_clusters`, `face_embeddings.cluster_id`, an event lock of its own | cluster pass, sweeper, recovery of orphans, merge |
| GPU host | `app/services/gpu_host_service.py`, `app/tasks/gpu_host_tasks.py` | EC2 instance state, an idle timer in Redis | ensure running, stop when idle |
| event lifecycle | `app/services/event_service.py` | `events` row | status refresh from photo counts, edit, archive, restore |
| photo tasks and image processing | `app/tasks/photo_tasks.py`, `app/services/image_processing_service.py`, `app/services/watermark_service.py` | `photos.processing_status`, rendition keys, the originals | proxy, watermark, thumbnails, backfill |
| archival | `app/services/archival_service.py`, `app/tasks/archival_tasks.py` | status, storage class, proxies, embeddings | archive, restore, daily check, permanent deletion |
| uploads, photos, folders, quota | `app/services/upload_service.py`, `app/services/photo_service.py`, `app/services/folder_service.py`, `app/services/photographer_service.py` | `photos` and `folders` rows, `photographers.storage_used_bytes` | tus `pre-create` and `post-finish`, direct upload, create, move and delete, storage report |
| sign-in | `app/utils/otp.py`, `app/services/auth_service.py` | Redis codes and counters, refresh-token denylist, the account row | send, verify, register, log in, reset, refresh, log out |
| guests and couples | `app/services/guest_service.py`, `app/services/couple_service.py`, `app/ml/matching/` | guest and couple sessions, the stored match, shared flags, favorites | sign in by code, match a selfie, toggle |
| the rest | rate limits, upload manager, analytics, notifications, storage wrapper, pages, deployment | | see `PROJECT.json` |

### How they interact

```
browser --tus--> UploadService --commit photo, status--> PostgreSQL
                     \--queue--> process_uploaded_photo --renditions, status refresh--> PostgreSQL
POST /process-faces --> FaceProcessingService: reads lock; commits PROCESSING;
                        mark_started (watch); queues process_event_photos; asks for the GPU host
face worker --> lock --> load pending --> detect/judge/embed/flush/finish --> cluster
            (pulse every 60 s: extend lock, record_heartbeat) --> status refresh
beat (every few minutes) --> FaceProcessingReconciler: for each PROCESSING event
            healthy / requeue / give up: revert status, alert ops once
       \--> stop_idle_gpu_host: no lock and an empty queue for long enough: stop
guest --> code --> selfie --> detect/judge/embed in a thread --> clusters --> gallery
```

There is no lock on the `events` row and no version column.  `events.status` is written by
uploads, by photo tasks, by start requests, by face jobs, by the reconciler, and by
archival; each decides from a copy of the row that its own SQLAlchemy session loaded earlier
(`expire_on_commit=False`, one long session for each task), and the session writes a column
only when the new value differs from that copy.  The same holds of folders, of the storage
counter, of cluster rows and of the shared flag: a request begins with copies and ends with
a write.

### What is hard in it

* Duplicate messages.  A start request only *reads* the lock before it queues a job; the
  reconciler queues more; Celery retries busy ones.  Nothing but the lock and the filter
  on pending photos makes a job idempotent.
* A lock with a time to live.  The run extends it but does not look at the answer.
* Messages that are acknowledged early: a killed worker loses its job.
* Status decisions over counts and copies that are stale when they are written.
* Two commits for one photo: crops are stored by one, the photo is marked by another, and
  crops of one photo may go through several batches.
* Redis keys with lives of their own (watch, give-up, requeue, codes, cooldowns), any of
  which may expire between two commands; beat runs overlap when one waits for the GPU host.
* A host that is stopped by a check which can not see what a worker has taken from the queue.
* Deletions and archival beside a run: archival deletes objects by keys that it loaded before,
  commits over rows that others have written to since, and shares the status PROCESSING with
  face processing, so that either can mistake the other's work for its own.
* Threads that share one interpreter, whose input is set and output read in separate calls.
* An original that is overwritten in place by its watermarked version, in a task with retries.

### What makes each component correct

* lock: at most one holder; nobody ends or prolongs another worker's key.
* coordination: runs of one event do not overlap; a photo is processed again only after a
  fault; Ready means that all is extracted; an event does not stay `processing` for ever;
  a start has its whole window; one alert for one silence.
* pipeline: each crop of a counted photo is stored once, counters, totals and the progress that
  is shown agree, a decided photo is left alone, each pending photo is decided in the end.
* extraction: each face once, judged on its own crop; a model is constructed once.
* clustering: no face without its cluster, members are counted, a person keeps its faces.
* GPU host: a job is not taken down unseen; an idle host is stopped; a start is served.
* archival: an archived event keeps no proxy and no embedding, a row never refers to a proxy
  that is gone, a restored event has its proxies.
* renditions: the watermark is burnt in once, all sizes show the same, the backfill misses none.
* quota and folders: the counter is explained by what is stored, an upload stays within the
  limit, an accepted upload is kept; the folders are a tree of bounded depth.
* sign-in: bounded attempts and sends, a code or token serves once, and both codes are needed.
* gallery: a count is what is shown, a mark is what was answered.

## 2. Modules

```
Exclusion      abstract: at most one worker inside
   ^ refined by
FaceLock       the Redis lock
   ^ extended by
FaceJobs       one event's face processing           FaceJobsProofs (the lock's too)

FaceLedger     abstract: what is promised of each photo
   ^ refined by
BulkPipeline   one run after the other
   ^ extended by
PipelineProgress   what the dashboard polls          BulkPipelineProofs (of both)

FaceDetection  from raw boxes to faces
   ^ extended by
FaceExtraction one image in a worker, or selfies     FaceExtractionProofs
                in the API

EventArchive   archive and restore                   EventArchiveProofs
Renditions     proxy, watermark, thumbnails          RenditionsProofs
Library        folders, photos, quota                LibraryProofs
SignIn         codes and refresh tokens              SignInProofs
Gallery        guests and couples                    GalleryProofs
FaceClusters   persons                               (in FaceExtractionProofs)
GpuHost        the machine of the face workers       (in BulkPipelineProofs)
```

`MCFaceJobs`, `MCFaceClusters`, `MCLibrary`, `MCSignIn`, `MCGallery`, `MCFaceExtraction`, `MCRenditions`
and `MCEventArchive` add the symmetry sets and the starts that TLC uses.  The modules are views of one
system.  Each keeps in full what its questions are about and reduces the others' part to what it sees of
them: FaceJobs shows that runs do not overlap, so BulkPipeline and EventArchive have one at a time;
BulkPipeline has the inside of a run, of which the others keep the two commits of a photo;
FaceExtraction has the inside of one photo; EventArchive has ARCHIVED and the objects, which Renditions
and Gallery take in one step; GpuHost has the host, which FaceJobs leaves free.

**Exclusion** has one variable, the workers inside, and two actions.  It is the contract
which `locks.py` states as "the event must be exclusive".

**FaceLock** models `face_pipeline_lock:{event_id}`.  `key` is the token which Redis stores,
`ttl` what is left of its life.  A worker runs one job at a time and each lock object draws
a new uuid4, so the worker itself stands for its token.  `Acquire`, `Refused` and `Busy` are
the outcomes of one attempt of `_acquire_pipeline_lock`; `Extend` and `Release` are the two
Lua scripts, with the branch where the token differs; `Die` is a worker that is killed;
`LockTick` lets time pass and Redis drop the key.  `holding` is what the *workers* believe,
`key` is what *Redis* has: the properties relate the two.  Time is discrete and no clock
grows: only the remaining life and the `gap` since a holder's last extend are kept.
`PulseGap` bounds how late the pulse of a live run may be; `PulseOnTime == PulseGap <
LockTtl` is the condition under which the lock is exclusive.  It is not an ASSUME, and run
`jobs_late` does without it.

**FaceJobs** is one event with everything that writes its status.  It extends FaceLock and
composes five kinds of actor, each cut where it awaits between two effects others can see:

| actor | actions | code |
|---|---|---|
| upload of a photo | `UploadReads`, `Upload` | `upload_service.py` `handle_post_finish` |
| photo task | `ProxyStarts`, `ProxyDone`, `ProxyCounts`, `ProxyWrites` | `photo_tasks.py`, `event_service.py` `update_event_processing_status` |
| start request | `StartCheck`, `StartCommit`, `StartMark`, `StartEnqueue`, `StartDies` | `face_processing_service.py` |
| face worker | `Deliver`, `JobAcquires` ... `JobReleases`, `JobCounts`, `JobWrites`, `JobPulse`, `JobBusy`, `ClusteringBusy`, `JobFails`, `WorkerDies` | `face_tasks.py`, `pipeline.py` |
| beat task | `TickLoads`, `TickMisses`, `TickMarks`, `TickHealthy`, `TickDecides`, `TickClaims`, `TickCounts`, `TickReverts`, `TickRecovers`, `TickDies` | `face_processing_reconciler.py`, `face_processing_watch.py` |

A session's copy of the status is part of the state (`read` of a photo's task, `seen` of a
worker, and the very fact that a beat task past `TickLoads` believes PROCESSING).  The same
variable later holds the *verdict*, the status that will be written, or `NoWrite` when it
equals the copy, which is what SQLAlchemy does.  So counting and writing are two steps, as
they are in the code.  `started`, `beat` and `watchLife` are the watch hash; `jobs` counts
waiting messages by their retry number; the history variables `sinceStart` (ticks since the
last start that no reconcile run has crossed), `alert`, `raced`, `starts` and `faults` appear in
properties and bounds only.

**FaceLedger** says what bulk processing promises of a photo: it is decided once, rows are
added only before that, and a counted photo has exactly the crops of its last run.

**BulkPipeline** is `FaceService.process_event_photos` in full, one run at a time (which is
what FaceJobs shows), beside uploads and `delete_photos`.  The crop buffer is kept as the
number of crops of each photo, since photos enter it in upload order; `IsBatch` takes them
from the front.  `FlushBatch` commits the rows of a batch, `FinishPhoto` finishes the photos
that have no crop left, `FailAwaiting` fails those which are waiting when the embedder
fails, `Crashes` and `BreaksOnDeleted` end the run anywhere.  `sessionTotal` is the
`total_faces` of the session's Event object.

**PipelineProgress** extends it with the Redis hash `shown` that the dashboard polls and its three writers,
none of which looks at the others: each step of a run that reports (`Begins`, `Flushes`, `Updates`,
`Completes`) overwrites it; a start request counts, looks at the lock and later announces its count
(`StartCounts`, `StartPasses`, `StartWrites`), also over a run that has begun since; a run that breaks and a
revert read it (`Breaks`, `Dies`, `Reverts`) and then write it back as an error (`MarkError`).  A killed run
leaves it, and it expires.  `visits` has what each of them has read; the history variable `crossed` says
that the last write was not the run's.

**EventArchive** is one event with its rows, its proxy bucket and everything that may write to
either while an archive or a restore task is at work:

| actor | actions | code |
|---|---|---|
| upload | `UploadReads`, `Upload` | `upload_service.py` `handle_post_finish` |
| photo task | `TaskStarts`, `TaskMakes`, `TaskCommits`, `TaskCools`, `TaskFails`, `TaskRetries`, `TaskDies`, `TaskCounts`, `TaskWrites` | `photo_tasks.py`, `event_service.py` |
| face run | `RunRequest`, `RunLoads`, `RunStores`, `RunFinishes`, `RunPassesOver`, `RunCounts`, `RunWrites`, `RunDies` | `pipeline.py`, `face_processing_service.py` |
| archive and restore requests, daily check | `AskReads`, `AskCommits`, `AskQueues`, `AskDies`, `DailyCheck` | `api/v1/events.py`, `archival_tasks.py` |
| archive task | `ArchiveLoads`, `ArchiveMoves`, `ArchiveAborts`, `ArchiveDeletes`, `ArchiveCommits`, `ArchiveBreaks` | `archival_service.py` `archive_event` |
| restore task | `RestoreLoads`, `RestoreMoves`, `RestoreCommits`, `RestoreQueues`, `RestoreBreaks` | `archival_service.py` `restore_event` |
| reconciler | `RevertLoads`, `RevertCounts`, `RevertWrites`, `Recovers`, `RevertSkips` | `face_processing_reconciler.py` |

An actor is a record of where it is and what it loaded.  An archive task (`arch[a]`) has the rows, their
`keys`, which of them were `settled` (not PENDING), and whether its session would write ARCHIVED: it
deletes the keys *it knows*, in requests (`Deletes`, any part of those that are left) of which one may
fail when the storage has deleted some of its keys (`ArchiveBreaks`), and its commit changes a column
only when it differs from what *it loaded*.  Every object gets a fresh key (`made`), since the code
draws a uuid4 for each.  Three history variables make the properties precise: `behind[a]`, the photos
written to since task `a` loaded them; `warm`, the photos that work begun before the last archival may
still touch; and `torn`, the proxies whose deletion was not followed by the commit because that task
failed, between two requests or after the last.

**FaceDetection** is arithmetic without state: two scales (`DetectAt`), suppression (`Nms`, a
recursive function over subsets of the boxes), their merge (`Autodetect`), clipping and the choice
of the main face.  `IsDetection` is the reference: the boxes that are kept overlap no other,
and each that is left out does overlap a better one.

**FaceExtraction** takes one image from there.  In a worker one thread judges the faces of a photo
(`todo`) and embeds those that pass in batches (`buffer`, `stored`); in the API several threads do so for
one selfie each, with the same registry (`Misses`, `Locks`, `Loads`: double-checked locking) and
the same TFLite interpreters, whose three calls `Sets`, `Runs` and `Reads` are steps of their own.
`Halves`, `FallsBack` and `R100OutOfMemory` are what the embedder does when memory runs out.

**FaceClusters** is `run_clustering` for two sessions: the event lock taken three times, each
phase's `LoadBatch`, grouping and `Persist`.  A grouping is any function from the batch to members
that stand for it, so which faces resemble each other is an input.  A session keeps rows it has
loaded (`held`, `copy`), and counts members from those copies.  `tainted` are the clusters counted
from a copy that was out of date.

**GpuHost** has `ensure_running` and `stop_if_idle`, cut at each call of AWS and Redis, the Celery
worker on the host with messages in the list, messages that wait for their retry (`counting`,
`due`) and runs, and the reconciler, which brings a lost job back.

**Library** is the tree of folders, the photos in it and the storage counter.  `proxied` are the photos
whose row records a proxy's bytes, `full` those that record the thumbnails' too: a photo task adds both
(`Renders`), an archival drops the second (`Archives`), and neither touches the counter, which `debt` keeps
account of.  A request holds copies
(`call[r].copy`, `.seen`) from its authentication on, `Answers` with them, and commits at its end.
`Above` is the least set that is closed under parents, so that walking up needs no recursion.

**SignIn** cuts `send_otp`, `verify_otp_pair` and the denylist at each Redis command, for all eight
requests that use them.  `Expires` drops any key at any time; `Fails` breaks a request at any call.

**Renditions** is the photo task with its retries, the backfill, the requests that change the
photographer's watermark, and the keys a gallery is given (`Urls`).  A request uploads a watermark
(`UploadPuts`, `UploadDrops`, `UploadSaves`), or a profile update names any (`ProfileNames`): none, an
earlier one, or one that this photographer never uploaded (`Foreign`).  A proxy has a number, and a
thumbnail the number of the proxy it was made from; `marks` and `original` count how often the
watermark was burnt into each.

**Gallery** is one event as its visitors use it: sign-in by a code that is kept for the phone, a selfie
that is matched, read and saved in three steps, toggles that flip a flag they have loaded.  Its variables
`session` and `code` serve as guards of these actions; no property speaks of them (SignIn is about codes).

## 3. Runs

| run | instance | distinct states | question |
|---|---|---|---|
| `jobs_workers` | 2 workers, 2 photos, 1 request, 1 beat task, 1 retry, 1 fault | 3.9 million | Is the lock a mutual exclusion through all the handlers, and are crops inserted again only after a fault? |
| `jobs_late` | 2 workers, 1 photo, 2 beat tasks, 2 starts, pulse as slow as the lock's life | 4.9 million | When runs do overlap, does one ever touch the key of another; is there one alert for one silence, and a whole window for each start? |
| `jobs_moves` | 1 photo, 1 worker, 1 fault, fairness | 0.4 million | Does the event leave PROCESSING, although the queue promises nothing, and is Ready too early only after an upload that overlaps a refresh? |
| `bulk_run` | 2 photos of up to 2 faces, batches of 2, 1 crash, 1 deletable photo, 1 start or revert beside it, fairness | 0.6 million | Do rows, counts, totals and the progress shown agree, are crops conserved, the ledger kept, and every photo decided? |
| `clusters_run` | 3 frontal and 2 profile faces, 2 clusters, 2 sessions, 1 fault | 1.9 million | Do faces and clusters agree unless two sessions overlapped, and does a face keep its person? |
| `gpu_run` | 2 events, 1 slot, 2 starts, 1 fault, fairness | 0.8 million | Does a stop hit only what came after the check looked, is an event given up only after a second fault, an idle host stopped, a start served? |
| `library_run` | 3 folders, 2 photos, 2 requests, depth 2, limit 1 | 1.3 million | Is the tree sound, the counter explained, an accepted upload kept, the limit respected? |
| `signin_run` | 3 requests, 2 tokens, 2 codes, 1 failure or expiry | 1.3 million | Are attempts, sends and cooldowns bounded, does a code or token serve once, are both codes needed? |
| `renditions_run` | 2 photos, 1 worker, 1 retry, 2 requests, 3 changes of the watermark, 1 fault | 6.5 million | Is the watermark burnt in once, are sizes and keys of one making, does the backfill reach all? |
| `gallery_run` | 2 photos, 2 clusters, 2 requests | 1.9 million | Is what was answered what the database says? |
| `faces_run` | up to 3 boxes in 2 pixels, 2 threads, batches of 2 | 1.2 million | Is each face detected once and judged on its own crop; is a model loaded once and swapped only out of memory? |
| `archive_cold` | 1 photo with 2 photo workers, or 2 photos with 1; 1 archive and 1 restore task, 2 requests or reconciler visits, 1 fault, fairness | 0.4 million | Is an archived event cold, does a row refer to a deleted proxy, does a restore end with a proxy? |

All of them pass.  Type invariants are proved (section 6) and not repeated in the runs.

**Bounds of FaceJobs.**  Two workers are enough for an overlap of runs and for every ordered pair
of lock operations; two photos let one be under way while the other is finished or pending; a
message can be lost, retried, duplicated by a request and by the reconciler with one request, one
retry and `MaxJobs` messages of a kind (beyond that one more of the same is not told apart,
`Enqueue`).  `FreshAfter = 1 < StallAfter = 2 < WatchTtl = 3` keeps the order of the configured
15 min, 30 min and 7 days; all ages are capped at `StallAfter`, past which no decision tells them
apart.  `LockTtl = 2, PulseGap = 1` keeps the pulse on time; `LockTtl = PulseGap = 1` lets the key
expire under its holder.  `StuckProxy` are photos whose proxy task makes no progress; in
`jobs_workers` and `jobs_late` all are such, which takes the photo tasks out of these runs, and
`jobs_moves` has them.

**Bounds of the others.**  With `MaxFaults = 1` a process may die or a call may fail at every step of
every handler.  In BulkPipeline, batches of 2 with photos of up to 2 crops let a photo end in the batch
after the one that it began in, one batch hold the crops of both photos, and the second photo be
pending, failing or uploaded while the first is in work; one crash lets a second run find what the first
has left; photo 1 may be deleted at every step.  One visitor starts or reverts at every point of a run
(or of the next), and with the run's own `mark_error` that makes two stale reads of the hash.  In
EventArchive photos meet only in the counts of a refresh, in the two moves and in the batches of
deletions.  So `MCEventArchive` has two starts: one photo, two photo workers and `MaxKeys = 2`, where
two proxies of it are made at once, as a restore queued beside an upload's own task does; and two photos
that were processed before, one photo worker, where a deletion fails between them; `MaxAsks = 2` is one
archive request and one restore request, or one of the two and a face run or a visit of the reconciler
(the daily check is not counted).  In FaceClusters five faces make two batches, and two clusters may be
founded, grown and merged; `Slow` are the phases in which the lock may expire under its run.  In GpuHost
one slot and two events let a message wait behind a run; `RequeueAfter = 2` lets the key of a requeue
outlive the tick that set it, as with the configured two minutes, and `IdleAfter = 2 < StallAfter = 4`
keeps the order of the configured idle and stall windows, with room for a host to stop and boot again in
between.  In Library three folders and a depth of 2 are the smallest tree in which two moves can make a
cycle, and one of them carry another too deep; `Limit = 1` is met by one photo.  In SignIn three
requests are one that sends, one that verifies and one that disturbs; `MaxAttempts = MaxSends = 1` puts
every counter at its limit.  In Renditions `BatchSize = 1` with two photos makes the backfill go on to a
second batch; `MCRenditions`
lets the watermark be uploaded or removed once while photos are in work; three changes, by two requests and by
profile updates that name one, come while none is.  A task reads the watermark, but no request reads what a
task writes, so this leaves out only photos that see several changes; the theorems have no such bound.  In FaceExtraction three boxes in a row of two pixels are enough for a box
that suppresses a second, which would have suppressed the third.  Two requests are enough for every pair
that overlaps; what more of them do together is covered by the theorems, whose number of requests,
workers and photos is free.

**What some properties exclude.**  `ReadyUnlessRaced` is weakened by the history variable `raced`, which
is set when the commit of an upload falls where a refresh with the verdict READY is about to be written,
or where READY was written since the upload read the status.  It says that this overlap is the *only*
way to a wrong Ready, whatever the photo tasks, jobs, requests, beat tasks and crashes do with their
stale copies.  `RowsPerFault` bounds the insertions of a photo's crops by one more than the number of
faults.  `StartHasItsWindow` is about a start that no reconcile run has crossed between its reading and
its deciding, in steps without a fault.  `OthersKeyUntouched` holds with a late pulse as
well.  `TotalIsSum` is about the states in which no deletion is under way.  `ColdUnlessWarm` excludes
the photos in `warm`, which is set anew by each archival from what is in flight at its commit, and grows
by uploads only.  `RestoreServes` says nothing once a call has failed or while the event is being
archived again.  `MembersAgree` excludes the clusters that were counted from an outdated copy,
`RootedUnlessTangled` a folder placed by a check of outdated copies, `CounterExplained` a counter
written from outdated values.  `ShownIsTrue` asks only the bounds on the counters of a hash that a start
or a revert has written over (`crossed`), and that it says "error" or no photo
processed.  `WatermarkServes` excludes the names that a profile update has given (`named`),
`DanglingIsArchiving` the proxies that an archive task deleted before it failed (`torn`).  In each of
these the overlap is real in the code: the property names the one way in which it goes wrong, and says
that there is no other.

**Deadlock** is checked in FaceJobs, GpuHost, Renditions and Gallery, where something can always happen.
`CHECK_DEADLOCK FALSE` is set where the system may stop: BulkPipeline when all photos are decided or
deleted, FaceClusters when its sessions are over, Library and SignIn when each request has been made,
FaceExtraction when its images are done, EventArchive because nobody has to ask for anything.

## 4. Fairness

`FaceJobs!Fairness` assumes that

* time goes on (`SF_vars(Tick)`: prompt steps may hold a tick up, again and again, but not
  for ever);
* the task of a photo that is not stuck, a request whose process lives, a job that a worker
  has taken, and a beat task go on; this is what event loops and worker pools do;
* a live worker's pulse comes before it is overdue.

Nothing is assumed of `Deliver` and of starting a request: the GPU host may stay down for
ever, and the queue need not be served.  `LeavesProcessing` is therefore about the
reconciler's give-up path as much as about the pipeline.

`PipelineProgress!ProgressSpec` (like `BulkPipeline!FairSpec`) assumes that a run which does not crash
goes on, and that somebody runs the event again while photos are pending; FaceJobs shows who.

`EventArchive!FairSpec` assumes that photo workers, archive tasks and the restore task take
what waits and go on, and that a request whose process lives ends.  Uploads, requests, the
daily check, the face run and the reconciler promise nothing.

`GpuHost!Fairness` assumes that EC2 finishes what it has begun, that the Celery worker of a running host
takes messages, that a run ends, that the beat's tasks and time go on (`celery_app.py`).

The other modules state no fairness: `BackfillReachesAll` says what is true *when* a backfill ends.

## 5. Where the code and its documentation part

Met while translating the source.  The models have what the code does; the properties that hold
name the exception.

1. **Ready too early.**  `event_service.py:192` says "Ready requires every photo to have finished face
   extraction", `README_ML.md:627` "Ready still requires proxies + `faces_processed`".  The refresh
   counts (:204) and later writes; an upload committed in between leaves the event READY with a
   photo that was never extracted (`raced` in `ReadyUnlessRaced`).
2. **The window before a revert.**  `face_processing_reconciler.py:69`: "No-heartbeat window before revert
   (default 30 minutes)".  PROCESSING is committed (`face_processing_service.py:63`) before the watch
   is started.  A reconcile run in between judges the start by an old watch, or dates a new one to
   `events.updated_at`, which is never updated after the row is created.
3. **A photo that is stuck.**  `face_processing_reconciler.py:29`: "Keep ``processing`` events moving, or
   revert them after a stall."  A photo whose task runs out of retries for storage reasons
   (`photo_tasks.py:210`) stays `pending`; the event can not become READY, and each empty requeued job
   sends a heartbeat, so it is never stalled either.  `LeavesProcessing` is checked without such photos.
4. **Failed photos with rows.**  `pipeline.py:581` marks "photos that never received a successful embed
   flush".  A photo split over two batches whose second flush fails (:389) is marked so with rows of
   the first batch stored.
5. **The total after a deletion.**  `pipeline.py:609`: "Set ``events.total_faces`` to the sum of photo face
   counts."  The write (:615) is to a row that the session loaded before, and is left out when the
   sum equals that old value, whatever a deletion has made of the column since.
6. **Restored faces.**  `README.md:344`: restore "queues proxy/face generation".  It queues photo tasks only
   (`archival_service.py:145`); archival has deleted the embeddings and left `faces_processed` true, and face
   processing takes no photo that is marked.
7. **Originals without watermark.**  `docs/stories/backend/BE-010-image-proxy-watermark.md:25`: "Originals never
   watermarked"; `docs/PRD.md:256`: "Original high-res files are delivered without watermark."  The
   task burns it into the original, in place (`photo_tasks.py:116`); a photo processed again is marked twice.
8. **Time between codes.**  `docs/component_backend.md:676`: "minimum time between OTP sends", 60 s.  The
   counter allows two sends in a window of its own length (`otp.py:96`), and more when two requests
   check at once.
9. **One clustering at a time.**  `ML-006-cluster-manager.md:164`: "Redis lock prevents race condition".  The
   lock is taken anew for each phase, while the session keeps the cluster rows it loaded before, so
   the second of two sessions may write counts from copies that the first has outdated (`tainted`).
10. **Stable matches.**  `docs/component_ai_ml.md:924`: "stable IDs matter for later guest matching";
   `docs/component_backend.md:590` stores "the guest's matched cluster IDs".  Clusters that are absorbed by
   a merge, or deleted by an archival, stay in `matched_cluster_ids` (`moved` in `CountIsServed`).
11. **Falling back to MobileFaceNet.**  `dual_embedder.py:51`: "If primary still OOM at batch size 1, use
   MobileFaceNet".  Halving starts only for errors that mention CUDA (`batch_utils.py:79`), but the
   fall-back takes any message about memory, so another allocation failure swaps the model for a
   whole batch at once (`SwapsOnlyOutOfMemory`).
12. **Bytes of an archived photo.**  `photo.py:122`: "the SQL sum of every object stored on behalf of a photo".
   An archival deletes the proxies with the thumbnails, sets `derivative_file_size_bytes` to 0
   (`archival_service.py:94`) and leaves `proxy_file_size_bytes` and `storage_used_bytes` as they were: the sum
   still has proxies that are gone, and the counter has more until a storage report sets it right (`debt` in
   `CounterExplained`).

Smaller things that the models record: the used bytes can go below zero; the delete statement of photos
has no event filter; uploads finishing twice at once leak an object, and one that finishes after its
event's deletion fails; a photo's last try that fails leaves it PENDING, as does a watermark replaced
under its task; HEIC originals can not be decoded by `apply_watermark`, and their photos fail; a profile
update may name any string as the watermark (`profile.py:62`), which is then read from the assets
bucket, or deleted from it by the next upload, and leaves the object of the one before; a start request that looked at the lock before a run began announces "processing, 0 done" over
the run's progress; objects are deleted before the event row's deletion is committed; refresh tokens
survive a password reset, and a reset to the same password consumes the codes before it is refused; the
code of a gallery is kept for phone and purpose, not for the event; a second selfie that fails
overwrites the stored match with an empty one; `toggle_share` flips the flag that was loaded at
authentication; the guest's download has no check of READY (`guest_service.py:151`); `get_favorites`
shows photos that are not COMPLETED; a killed run leaves the progress at "processing" until it expires.

## 6. Proofs

TLAPS proves the following for every value of the constants that the modules' ASSUMEs allow: any
number of workers, photos, requests, threads, messages, faults, and every length of a delay.

**FaceJobsProofs, of the lock.**  Type correctness; `HolderAlwaysOwnsKey`, `LockIsExclusive` and the refinement
`LockImplementsExclusion` under `PulseOnTime`; `LockScriptsCompare` (`OthersKeyUntouched`) without it.  That
a holder owns the key is not inductive alone.  `LockIInv` adds what it needs of the key's life: with
an on-time pulse `ttl + gap[w] = LockTtl` keeps `ttl` positive for a holder, hence the key alive,
hence every other acquire refused.

**FaceJobsProofs, of an event.**

* `JobsImplementLock`: every step of FaceJobs is a step of FaceLock or leaves its variables
  alone, so the lock's theorems carry over to the composed system.
* `TypeCorrect`.
* `RunsAreExclusive`: from `WorkingHolds` (a worker between load and clustering is in
  `holding`) and the lock's exclusion, under `PulseOnTime`.
* `RowsPerFaultBounded`, under `PulseOnTime`.  The invariant says where the insertions of a
  photo come from: a photo in some run's `todo` is not done, and the number of times its
  crops have been stored is bounded by `faults`; between the two commits it is one more, and
  the photo is then in nobody else's list.  Exclusion of runs is what makes the lists
  disjoint.
* `ReadyIsHonest`.  Whoever holds the verdict READY *promises* that nothing is pending; the
  invariant `PromisesKept` says that each promise, and a status that is READY, is kept
  unless `raced`.  Only `Upload` can break a promise, because `done` and the proxied photos
  only grow, and it sets `raced` in exactly these cases.  No timing is assumed.
* `AlertedOnce` (`OneAlertPerWindow`): the give-up key outlives the watch it was claimed for, and a run
  that gives up has a watch before it (`AlertInv`).
* `StartsHaveTheirWindow` (`StartHasItsWindow`).  Ages grow together: a run that judges has crossed the
  start, or the start's window is over; until then the watch is no older than the start, and its
  life and the age of the start together are at least `WatchTtl` (`WindowInv`).

**BulkPipelineProofs.**  `Inv` couples buffer, rows and result of each photo
(`CropsConserved` for the awaiting ones, nothing buffered for all others, finishing ones
have an empty buffer); it yields `CropsAreConserved`, `CountedIsExact`, `DecidedStaysFrozen`
and the refinement `BulkImplementsLedger`.  `ProgressIsExact` counts with `FS_RemoveElement` and its
relatives.  `BulkTypeCorrect` and `TotalsAreSums` are about a sum over a set of photos.  The library's
induction can not be instantiated; instead the recursion of the sum over a set is proved by taking a
*smallest* set for which it would fail, which gives that a total is a natural number, no less than any of its
terms (`TotalBounds`), and the total of a sum of two functions the sum of theirs (`TotalAdds`).
`TotalsInv`: until a deletion is asked for, the total is the sum and the copy in the session is current.
`ProgressRunsPipeline` shows that PipelineProgress implements BulkPipeline, so all of this holds of it;
`ShownStaysTrue` (`ShownIsTrue`), for any number of starts and reverts, needs that a run which is about to
complete has decided all it loaded (`Settling`), and that what a writer still holds of the hash was within the
bounds when it was read.

`RunsEnd` and `WorkRunsOut` are what can be proved of `EveryPhotoDecided`: that the work comes to an end, not that
it does not stop before.  `Effort` counts the steps a run still has, at most two for each crop and three for each
photo; the crops that a photo adds to the buffer are less than it took with it, and a flush takes at least
one out.  Across runs `Remaining` adds, before it in the order, the photos not yet uploaded, those whose
deletion is not yet asked for and not yet done, the crashes, the photos on which a run may still break
(`Breaking`) and those that wait for a run to load them (`Unloaded`).  That a completed run gives no photo
back to the latter is `InHand`: a photo it loaded is decided, or still waits in the run, and
when the run clusters nothing waits (`Settling`).

*Of the host.*  `HostTypeCorrect`, and `StopKillsOnlyRacing` (`KillsOnlyRacing`) for any number of events and
slots: while an idle check is past the locks every live run is in `raced` (`RunsAreRaced`), because a run that was
there before would have shown its lock, which a live run has; and once the host is stopping nobody begins one, so
those that `Halts` takes are all raced (`RunsAreSeen`).

Three theorems are about time, and so under a hypothesis on the delays, `Slack(n)`: the idle timer is
two ticks or more, and the stall window leaves five ticks, and six more for each of n faults, after
`Lease`, the longest that a lost run, its lock or the key of a requeue can look alive.  The defaults
have 10 minutes for the timer, and 30 for the window against 10 for the lock (`app/config.py:57`-`63`,
`app/ml/config.py:75`), which is slack for two faults.  `FaultsAreSurvived` says that no start is given
up before more than n calls or processes have failed; `StartsAreRecovered` (`GivesUpAfterFault`) is its
case for one fault. `RecoveryIsTimely` is what can be proved of `StartIsServed`: not that the message is
taken, but by when it is back at a live worker.  A timer of one tick may run out while an event waits to
be brought back (`Young(1)`), which the argument excludes.  `Stages` says what has become of a stranded
event 0, 1, ... 4 ticks after `Lease`: at first the timer of a host that is down is cleared, from then
on no idle stop can cross the reconciler's way through `ensure_running` (`HostIsCalm`), then the message
is back in the list and stays there, then the instance is up or changing its state for its last tick; a
fifth tick would need a step that `Prompt` does not let it wait for.  A failure in between has the event
begin again, at most six ticks later (`Lateness`).

**FaceExtractionProofs.**

* `LoadsAtMostOnce`, `SwapsForMemory`, `JudgedOnItsCrop`: a thread's step leaves the others' places and
  answers alone (the lemmas `Apart`, `Quiet` and `Onward`), so each invariant has to be shown of one
  thread; `OwnInv` says that an interpreter between set and read has the thread's own crop, unless both
  are `mixed`.
* `FacesDetectedOnce` (`DetectsEachFaceOnce`), for every finite image, not only up to three boxes: `Nms` is
  recursive over subsets of boxes, and by a smallest set for which it would fail (`SmallestSet`, `KeepsRecur`)
  its result keeps no two that overlap and leaves out none without a better one (`NmsSuppresses`);
  `AutodetectDetects` merges the two scales.
* `FacesAreStoredOnce`: from cropping on, the faces to be judged, those in the buffer and those with a row
  are together always the same, and no two rows are about one.  `PhotoInv` says why: the ones still
  to be judged come first (`Ahead`), and only the worker's one thread moves them.  This also makes
  `ExtractionTypeCorrect` the whole of `TypeOK`.

**FaceExtractionProofs, of the clusters.**

* `ClusterTypeCorrect`, and `FacesKeepTheirPerson` (`KeepsItsPerson`): past the lock there is one run only, unless
  the key has expired under it (`HoldsInv`), and the faces of its batch have no cluster (`BatchInv`).
* `ClustersCountMembers` (`MembersAgree`), with or without the lock.  The counters are right because a session
  whose copy of a cluster is up to date has none of its faces in its batch: the copy counts at most the
  faces outside the batch (`CopyInv`), so a face that another run has put there makes the copy out of date, and
  the cluster `tainted`.  The four writers of a result are one case, told apart by what they count (`Writes`): a
  written cluster has the faces that join it and those of the clusters that go into it (`TargetFaces`), and the
  sums of the UPDATE are their numbers (`TargetSums`).  `SumCounts` gives the sum of a merge: the sizes of
  disjoint sets add up to that of all together, by a smallest set for which the fold would fail.

**EventArchiveProofs.**

* `ArchiveTypeCorrect`.
* `ArchivedStaysCold` (`ColdUnlessWarm`).  Two facts carry it.  `ArchiversKnow`: what an archive
  task loaded of a photo is still so unless the photo is in `behind`, so that the columns its
  session does not write need no writing.  `ArchivedIsCold`: while the event is archived, a
  photo outside `warm` is cold and nothing in flight can touch it.  The second is inductive
  because new work on such a photo starts with a restore, and a restore request takes the event
  out of ARCHIVED in the same commit that precedes its message.
* `RowsKeepTheirProxies` (`DanglingIsArchiving`).  `KeysFresh`: a proxy that no commit has
  told of is in the bucket, under a key that no row, no archive task and no other proxy task
  has.  `RowsStored` is the property over all photos, with what the deleting task's requests have
reached so far (`Deleter`), for any number of photos and requests.  So a
  deletion by stale keys can not hit a newer proxy, however often tasks overlap, fail and
  are retried.
* `RestoredAreKept` (`NoneForgotten`) is the safety half of `RestoreServes`: a photo that a restore has
  taken up is with the restore, in the queue or with a task, or has its proxy (`Handed`), until a
  call fails or an archive task is queued.  A task that loaded the row as completed leaves `processing_status`
  as it is, so it counts only while the row is still completed (`Completes`): the one that took the restore's
  message loaded the row after the archival.

**RenditionsProofs.**  `WatermarkAlwaysServes`: what a request has brought is in the bucket, is not yet named by
the row, and is nobody's old one (`ProfileInv`), unless a profile update has named it; so a deletion of old ones
hits only what the row names, or has been named so.  Names once given stay in `named` (`NamesGrow`).
`SizesAgree`: a photo in a backfill's batch is one that no photo task works on (`AgreeInv`).
`PhotosMarkedOnce`: until a photo is processed again, it has one message or one worker (`Alone`), who knows how
often original and proxy have been marked (`Knows`); keys only grow (`KeysInv`), so a new proxy is never
the one that is shown.  `BackfillServesAll` (`BackfillReachesAll`), for every batch size: the photos that need
thumbnails only become fewer, so the batch that was loaded stays the newest of them, each of it derived,
yet to come or not to be read (`ReachInv`); a backfill that ends without progress has then seen a whole batch of
unreadable ones, and of the photos with a batch of newer ones before them the newest has exactly such a batch
(`NewestFill`).

**SignInProofs.**  The lemma "moves" of each kind of step says where a request goes; the invariants say what a
request in the middle of its commands may rely on.  `CodesStay` from `CodeInv`, a stored code is its
sender's until the message is out; `AttemptsAreLimited` from `AttemptInv`, every verification that counts is in
the counter; `CooldownsAreKept` from `CoolInv`, between check and count at most one request is past the check;
`BothCodesPresented` from `GuessInv`, which codes of the list have been seen to match;
`TokensAndCodesServeOnce` from `TokenInv` and `SpentInv`, a used code is lower than every later one.

**LibraryProofs.**  `CounterExplained` is inductive with the types once the cardinality lemmas
`StoredLess` and `StoredMore` say what photos add to the sum, and what an archival takes from
it.  `AcceptedUploadsKept` from `KeptInv`, `LimitUnlessGrown` from `RoomInv`: what an upload has seen
had room for it, unless the counter grew.  `TreeIsRooted` from `TreeInv`: the tree that a check walks is
one that was sound when it was copied, and still is unless `tangled`.  Since `Above` is the least closed
set, what holds along a walk to the root follows from giving one closed set, without induction.

**GalleryProofs.**  `CountsAreServed` from `MatchInv`, what a selfie has counted and read is still so
unless it was outdated; `MarksAreAsAnswered` from `ShareInv` and `FavoriteInv`.  A favorite's row id is
not given to another while a request holds it: there are more ids than photos and requests, a pigeonhole
over their cardinalities (`FreshRowIsFresh`).

The proofs corrected the models where they were wrong: which uploads count as admitted while the counter grows
(`Admitted`, `grew` in Library), and the ids of favorites, which were too few for any number of requests, so that
a row could be taken for its successor (`RowIds` in Gallery).  In GpuHost the key of a requeue was
gone at the next tick, where the configured two minutes keep it one longer, and an event could have had the name
of the idle check in `ahead`.

**Without a run.**  `CountedIsExact`, `DecidedStaysFrozen`, `ProgressIsExact`, `RunsAreExclusive`,
`FacesAreStoredOnce`, `RunsEnd`, `WorkRunsOut`, `FaultsAreSurvived`, `RecoveryIsTimely`,
`RestoredAreKept` and the type invariants are theorems only; TLC checked them and the inductive
invariants, on the instances of section 3 or smaller ones, before they were proved.

**Model-checked only.**  Liveness (`LeavesProcessing`, `EveryPhotoDecided`, `RestoreServes`,
`IdleHostStops`, `StartIsServed`), since the prover has neither fairness nor ENABLED.  Of three of them
the half that needs no fairness is proved: `WorkRunsOut`, `RestoredAreKept` and
`RecoveryIsTimely`.  `GivesUpAfterFault` is proved where `Slack(1)` holds and only model-checked
elsewhere: the instance of `gpu_run` has a window of 4 ticks against lives of 2, shorter than the
theorem asks for, so that a delay too many shows; how short the window may be in general is not settled.

## 7. What is abstracted, and what is not modelled

* Vectors, pictures and crops are members of small sets or counts.  What a network answers, and which
  faces resemble each other, are inputs.
* `BulkPipeline!Finish` is one step: the flush of the photo's row, the sum over the photos
  and the commit are one database transaction.  Rows of crops that failed the quality check are in
  FaceExtraction only.  In PipelineProgress the counters of faces, the start, the estimated time and a run that
  finds no photo pending, which writes "0 of 0", are left out.
* In FaceClusters the UPDATE of the faces (`cluster_persistence.py:130`) and the DELETE of the absorbed clusters
  (:138) are one step, with the rest of the write; under READ COMMITTED another session's commit could fall
  between them, but only once the lock has lapsed.
* A photo's passage through a run is three steps in FaceJobs (store, finish, or skip when it
  fails or has no crop); BulkPipeline has the rest.
* `Prompt`: deciding, claiming and reverting in a beat task, and the steps of a request,
  take less than a tick together, when nothing dies.  Loading rows and waiting for the GPU
  host may take any time.
* The pulse of a live run is at most `PulseGap` late.
* Redis is one server which loses nothing but expired keys.
* In FaceJobs and BulkPipeline `status` leaves out ARCHIVED, which EventArchive has.  Permanent deletion
  of an event is in Library, where it is about the rows and the counter.
* In EventArchive the proxy and its two thumbnails are one object, `GLACIER_IR` against the rest
  is all of the storage class (the one object is gone as soon as one of the three is), the requests of 1000 keys
  are any parts of the list, keys that an answer reports as not deleted count as a fault (the code reads no
  such answer), each photo has a face, there is one restore task and one face run
  at a time, and photos are not deleted.  The moves of all originals are one step which may
  fail part way, and the statements of the archive transaction are one step with its commit.
* In FaceDetection an image is one row of pixels, so that a box is an interval, and no two boxes have the
  same score; clipping may make two kept raw boxes coincide, which the property, about raw boxes, leaves out.
  In FaceExtraction 3DDFA passes a crop in which it sees no face without asking TFLite, as in the code; the pinned
  copy of torch in the registry, `unload_all` and the mode with R100 alone are left out, and the sunglasses
  check, which never rejects.
* In Library a photo is one unit for its original and one for its renditions.  The production compose
  file (`docker-compose.prod.yml:88`) enables only post-finish and post-terminate, so the quota check of
  `pre-create` runs only elsewhere.
* In SignIn one account and one purpose at a time; the access token only reads.
* In Renditions photos with a `preview_s3_key` of an older format are left out, and the sizes of pictures.
* In Gallery one party at a time; listing, highlights and downloads are reads, and what they would show is in
  the properties.  `selfie_s3_key` is never set by the code and left out.

Not modelled: rate limiting (one pipeline on a sorted set that nothing else reads, in which requests of the
same time stamp are one member), the browser's upload manager with its fall-back from tus to a direct upload,
neural networks, nearest-neighbour search, rendering, e-mail and SMS delivery, signing of URLs, analytics,
migrations and deployment.  They have no shared state over several steps, their content is numeric, or they
run in the browser.  `PROJECT.json` gives the reason for each component.

## 8. Plan

Done: the modules of section 2, the abstract specifications Exclusion and FaceLedger, and the proofs of
section 6.

Next:

1. An abstract specification of what a gallery promises across selfie, merge and archival, which Gallery
   would implement.
2. **UploadQueue**: the browser's queue with pause, cancel and fall-back; each file settles.
