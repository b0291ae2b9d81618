------------------------------- MODULE FaceJobs ------------------------------
(***************************************************************************)
(* Face processing of one event, from the photographer's click to Ready:   *)
(* the API handler that starts it, the Celery face workers that run        *)
(* process_event_photos under the event's lock, the watch they heartbeat,  *)
(* the reconciler that re-enqueues or gives up, and the photo tasks and    *)
(* uploads that share the event row with them.                             *)
(*                                                                         *)
(* Each handler is cut where it awaits between two effects another handler *)
(* can see.  A photo's passage through one run is kept to what the event   *)
(* sees of it (BulkPipeline models the crop buffer).  Durations are ages   *)
(* and remaining lives in ticks, capped where no decision can tell them    *)
(* apart.                                                                  *)
(***************************************************************************)
EXTENDS FaceLock, FiniteSets

CONSTANTS
    Photo,
    Click,          \* concurrent start_face_processing requests
    Ticker,         \* overlapping runs of the reconcile beat task
    NoPhoto,
    MaxRetries,     \* Celery max_retries of process_event_photos
    FreshAfter,     \* face_processing_heartbeat_fresh_seconds
    StallAfter,     \* face_processing_stall_minutes
    Debounce,       \* face_processing_requeue_seconds
    WatchTtl,       \* processing_progress_ttl_seconds, of the watch and give-up keys
    MaxStarts,      \* bound: start requests accepted
    MaxFaults,      \* bound: handler crashes and failed jobs
    MaxJobs,        \* bound: waiting messages of one retry count that are told apart
    StuckProxy      \* photos whose proxy task exhausts its storage retries

ASSUME FaceJobsAssumption ==
    /\ NoPhoto \notin Photo
    /\ MaxRetries \in Nat /\ MaxStarts \in Nat /\ MaxFaults \in Nat
    /\ MaxJobs \in Nat \ {0}
    /\ FreshAfter \in Nat \ {0} /\ Debounce \in Nat \ {0}
    /\ StallAfter \in Nat /\ FreshAfter < StallAfter
    /\ WatchTtl \in Nat /\ StallAfter < WatchTtl
    /\ StuckProxy \subseteq Photo

VARIABLES
    status,     \* events.status
    task,       \* where the upload and the proxy task of each photo are
    read,       \* the event status their session loaded; then the one it will write
    done,       \* photos with faces_processed
    rows,       \* how often the crops of a photo were inserted as embedding rows
    jobs,       \* queued process_event_photos messages, by retry count
    pc,         \* where the task of each worker is
    retries,    \* the retry count of its message
    todo,       \* the pending photos it loaded and has not handled
    cur,        \* the photo between its two commits
    seen,       \* the event status its session loaded; then the one it will write
    started,    \* age of started_at in spotme:face_watch
    beat,       \* age of last_heartbeat_at there, or Never
    watchLife,  \* what is left of the watch hash's life; 0 when it is absent
    giveUp,     \* what is left of the give-up key's life
    requeue,    \* what is left of the requeue key's life
    click,      \* where each start request is
    tick,       \* where each reconcile run is, holding an event row it loaded earlier
    age,        \* age of the event row: updated_at is only ever its creation time
    sinceStart, \* history: ticks since the last start that no reconcile run has crossed
    alert,      \* history: ops were alerted, and no start or heartbeat came since
    raced,      \* history: the commit of an upload overlapped a status refresh
    starts,     \* history: start requests that passed their checks
    faults      \* history: crashes and failed jobs

photoVars == <<task, read, raced>>
runVars   == <<pc, retries, todo, cur, seen>>
watchVars == <<started, beat, watchLife>>
jobVars   == <<status, photoVars, done, rows, jobs, runVars, watchVars, giveUp, requeue,
               click, tick, age, sinceStart, alert, starts, faults>>
vars      == <<lockVars, jobVars>>

Status == {"draft", "uploading", "processing", "ready"}
NoWrite == "same"                        \* the session has nothing to write
Never  == StallAfter + 1                \* an empty last_heartbeat_at
Ages   == 0..StallAfter

\* The photos with a row, and those whose processing_status is completed or failed.
photos  == {p \in Photo : task[p] \notin {"none", "arriving"}}
proxied == {p \in Photo : task[p] \in {"proxied", "counted", "over"}}

Working == {"loading", "scanning", "storing", "clustering"}
Steps   == {"idle", "acquiring", "updating", "writing"} \cup Working

JobTypeOK ==
    /\ status \in Status
    /\ task \in [Photo -> {"none", "arriving", "queued", "running", "proxied", "counted",
                            "over"}]
    /\ read \in [Photo -> Status \cup {NoWrite}]
    /\ done \subseteq Photo
    /\ rows \in [Photo -> Nat]
    /\ jobs \in [0..MaxRetries -> 0..MaxJobs]
    /\ pc \in [Worker -> Steps]
    /\ retries \in [Worker -> 0..MaxRetries]
    /\ todo \in [Worker -> SUBSET Photo]
    /\ cur \in [Worker -> Photo \cup {NoPhoto}]
    /\ \A w \in Worker : pc[w] = "storing" => cur[w] \in Photo
    /\ seen \in [Worker -> Status \cup {NoWrite}]
    /\ started \in Ages /\ beat \in Ages \cup {Never}
    /\ watchLife \in 0..WatchTtl /\ giveUp \in 0..WatchTtl /\ requeue \in 0..Debounce
    /\ click \in [Click -> {"idle", "checked", "repeat", "committed", "marked"}]
    /\ tick \in [Ticker -> {"idle", "loaded", "unwatched", "marked", "giveup", "claimed",
                            "toReady", "toUploading", "recover"}]
    /\ age \in Ages /\ sinceStart \in Ages
    /\ alert \in {"none", "sent"} /\ raced \in BOOLEAN
    /\ starts \in 0..MaxStarts /\ faults \in 0..MaxFaults

TypeOK == LockTypeOK /\ JobTypeOK

Init ==
    /\ LockInit
    /\ status = "draft"
    /\ task = [p \in Photo |-> "none"]
    /\ read = [p \in Photo |-> NoWrite]
    /\ raced = FALSE
    /\ done = {}
    /\ rows = [p \in Photo |-> 0]
    /\ jobs = [n \in 0..MaxRetries |-> 0]
    /\ pc = [w \in Worker |-> "idle"]
    /\ retries = [w \in Worker |-> 0]
    /\ todo = [w \in Worker |-> {}]
    /\ cur = [w \in Worker |-> NoPhoto]
    /\ seen = [w \in Worker |-> NoWrite]
    /\ started = 0 /\ beat = Never
    /\ alert = "none"
    /\ watchLife = 0 /\ giveUp = 0 /\ requeue = 0
    /\ click = [c \in Click |-> "idle"]
    /\ tick = [t \in Ticker |-> "idle"]
    /\ age = 0 /\ sinceStart = StallAfter
    /\ starts = 0 /\ faults = 0

Pending == photos \ done

\* Broker publish; beyond MaxJobs waiting messages one more of the same is not counted.
Enqueue(n) == jobs' = [jobs EXCEPT ![n] = IF @ < MaxJobs THEN @ + 1 ELSE @]

Fault == /\ faults < MaxFaults
         /\ faults' = faults + 1

\* Mutant: previews alone make an event Ready.
ReadyOnProxies(previous, all, faces, proxies) ==
    CASE all = {}                        -> "draft"
      [] all # {} /\ proxies = all        -> "ready"
      [] OTHER -> IF previous = "processing" THEN "processing" ELSE "uploading"

-----------------------------------------------------------------------------
(***************************************************************************)
(* The status an event gets from its photo counts                          *)
(* (EventService.update_event_processing_status).  Counting is one query   *)
(* and writing another: what was computed is kept in between.  The caller  *)
(* compares with the status its session holds, `previous', and SQLAlchemy  *)
(* writes the column only when the computed value differs from that one.   *)
(***************************************************************************)
Computed(previous, all, faces, proxies) ==
    CASE all = {}                             -> "draft"
      [] all # {} /\ faces = all /\ proxies = all -> "ready"
      [] OTHER -> IF previous = "processing" THEN "processing" ELSE "uploading"

Verdict(previous) ==
    LET new == Computed(previous, photos, done, proxied)
    IN  IF new = previous THEN NoWrite ELSE new

Write(verdict) == status' = IF verdict = NoWrite THEN status ELSE verdict

-----------------------------------------------------------------------------
(* Uploads and photo tasks (external to the face queue). *)

unchangedByPhoto == <<lockVars, done, rows, jobs, runVars, watchVars, giveUp, requeue, click,
                      tick, age, sinceStart, alert, starts, faults>>

\* handle_post_finish reads the event ...
UploadReads(p) ==
    /\ task[p] = "none"
    /\ task' = [task EXCEPT ![p] = "arriving"]
    /\ read' = [read EXCEPT ![p] = status]
    /\ UNCHANGED <<unchangedByPhoto, status, raced>>

\* Some refresh has counted, without photo p, and will write READY; or READY was written
\* after p's upload had read the status.
Overlaps(p) == \/ \E w \in Worker : pc[w] = "writing" /\ seen[w] = "ready"
               \/ \E q \in Photo : task[q] = "counted" /\ read[q] = "ready"
               \/ \E t \in Ticker : tick[t] = "toReady"
               \/ status = "ready" /\ read[p] \notin {"draft", "ready"}

\* ... and commits the photo's row with the event's new status, then queues its task.
Upload(p) ==
    /\ task[p] = "arriving"
    /\ task' = [task EXCEPT ![p] = "queued"]
    /\ read' = [read EXCEPT ![p] = NoWrite]
    /\ Write(IF read[p] \in {"draft", "ready"} THEN "uploading" ELSE NoWrite)
    /\ raced' = (raced \/ Overlaps(p))
    /\ UNCHANGED unchangedByPhoto

\* process_uploaded_photo loads the photo, and the event with it.
ProxyStarts(p) ==
    /\ task[p] = "queued"
    /\ p \notin StuckProxy
    /\ task' = [task EXCEPT ![p] = "running"]
    /\ read' = [read EXCEPT ![p] = status]
    /\ UNCHANGED <<unchangedByPhoto, status, raced>>

\* The proxy is made, or failed for good: processing_status is committed.
ProxyDone(p) ==
    /\ task[p] = "running"
    /\ task' = [task EXCEPT ![p] = "proxied"]
    /\ UNCHANGED <<unchangedByPhoto, read, status, raced>>

\* The task refreshes the status with the event it loaded at its start.
ProxyCounts(p) ==
    /\ task[p] = "proxied"
    /\ task' = [task EXCEPT ![p] = "counted"]
    /\ read' = [read EXCEPT ![p] = Verdict(read[p])]
    /\ UNCHANGED <<unchangedByPhoto, status, raced>>

ProxyWrites(p) ==
    /\ task[p] = "counted"
    /\ Write(read[p])
    /\ task' = [task EXCEPT ![p] = "over"]
    /\ read' = [read EXCEPT ![p] = NoWrite]
    /\ UNCHANGED <<unchangedByPhoto, raced>>

-----------------------------------------------------------------------------
(* POST /events/{id}/process-faces: FaceProcessingService.start_face_processing. *)

unchangedByClick == <<lockVars, photoVars, done, rows, runVars, requeue, tick, age>>

\* Pending photos exist and no worker holds the event's lock.  A session that already
\* read PROCESSING will not write it again.
StartCheck(c) ==
    /\ click[c] = "idle" /\ starts < MaxStarts
    /\ Pending # {}
    /\ ~KeyExists
    /\ click' = [click EXCEPT ![c] = IF status = "processing" THEN "repeat" ELSE "checked"]
    /\ starts' = starts + 1
    /\ UNCHANGED <<unchangedByClick, status, jobs, watchVars, giveUp, sinceStart, alert,
                   faults>>

\* Where a reconcile run goes by what it has read before.
Judging == {"unwatched", "giveup", "claimed", "toReady", "toUploading"}

StartCommit(c) ==
    /\ click[c] \in {"checked", "repeat"}
    /\ status' = IF click[c] = "checked" THEN "processing" ELSE status
    /\ click' = [click EXCEPT ![c] = "committed"]
    /\ sinceStart' = IF \E t \in Ticker : tick[t] \in Judging THEN StallAfter ELSE 0
    /\ UNCHANGED <<unchangedByClick, jobs, watchVars, giveUp, alert, starts, faults>>

\* Mutant: mark_started leaves a watch that is already there.
StartMarksOnce(c) ==
    /\ click[c] = "committed"
    /\ IF watchLife = 0 THEN started' = 0 /\ beat' = Never /\ watchLife' = WatchTtl
                        ELSE UNCHANGED watchVars
    /\ giveUp' = 0
    /\ alert' = "none"
    /\ click' = [click EXCEPT ![c] = "marked"]
    /\ UNCHANGED <<unchangedByClick, status, jobs, sinceStart, starts, faults>>

\* watch.mark_started: a new window, no heartbeat, and a give-up may happen again.
StartMark(c) ==
    /\ click[c] = "committed"
    /\ started' = 0 /\ beat' = Never
    /\ watchLife' = WatchTtl
    /\ giveUp' = 0
    /\ alert' = "none"
    /\ click' = [click EXCEPT ![c] = "marked"]
    /\ UNCHANGED <<unchangedByClick, status, jobs, sinceStart, starts, faults>>

StartEnqueue(c) ==
    /\ click[c] = "marked"
    /\ Enqueue(0)
    /\ click' = [click EXCEPT ![c] = "idle"]
    /\ UNCHANGED <<unchangedByClick, status, watchVars, giveUp, sinceStart, alert,
                   starts, faults>>

\* The API process dies, or Redis or the broker refuses the next call.
StartDies(c) ==
    /\ click[c] # "idle"
    /\ Fault
    /\ click' = [click EXCEPT ![c] = "idle"]
    /\ sinceStart' = IF click[c] = "committed" THEN StallAfter ELSE sinceStart
    /\ UNCHANGED <<unchangedByClick, status, jobs, watchVars, giveUp, alert, starts>>

-----------------------------------------------------------------------------
(* The Celery face worker: process_event_photos and FaceService. *)

unchangedByRun == <<photoVars, giveUp, requeue, click, tick, age, sinceStart, starts>>

Goes(w, step) == pc' = [pc EXCEPT ![w] = step]

\* The task is over: its session, its list and its message are gone.
Forgets(w) == /\ pc' = [pc EXCEPT ![w] = "idle"]
              /\ retries' = [retries EXCEPT ![w] = 0]
              /\ todo' = [todo EXCEPT ![w] = {}]
              /\ cur' = [cur EXCEPT ![w] = NoPhoto]
              /\ seen' = [seen EXCEPT ![w] = NoWrite]

\* watch.record_heartbeat: started_at is kept, or is now when the hash is gone.
Heartbeat ==
    /\ started' = IF watchLife > 0 THEN started ELSE 0
    /\ beat' = 0
    /\ watchLife' = WatchTtl
    /\ alert' = "none"

\* A worker takes a message; Celery acknowledges it at once.
Deliver(w, n) ==
    /\ pc[w] = "idle"
    /\ jobs[n] > 0
    /\ jobs' = [jobs EXCEPT ![n] = @ - 1]
    /\ Goes(w, "acquiring")
    /\ retries' = [retries EXCEPT ![w] = n]
    /\ UNCHANGED <<lockVars, todo, cur, seen, unchangedByRun, status, done, rows,
                   watchVars, alert, faults>>

JobAcquires(w) ==
    /\ pc[w] = "acquiring"
    /\ Acquire(w)
    /\ Goes(w, "loading")
    /\ UNCHANGED <<retries, todo, cur, seen, unchangedByRun, status, done, rows, jobs,
                   watchVars, alert, faults>>

JobRefused(w) ==
    /\ pc[w] = "acquiring"
    /\ Refused(w)
    /\ UNCHANGED jobVars

\* self.retry, up to max_retries; after that the message is gone.
Retry(w) == IF retries[w] < MaxRetries THEN Enqueue(retries[w] + 1)
                                       ELSE UNCHANGED jobs

\* ClusteringLockBusyError from the pipeline lock.
JobBusy(w) ==
    /\ pc[w] = "acquiring"
    /\ Busy(w)
    /\ Retry(w)
    /\ Forgets(w)
    /\ UNCHANGED <<unchangedByRun, status, done, rows, watchVars, alert, faults>>

\* Mutant: every photo is loaded, processed or not.
JobLoadsAll(w) ==
    /\ pc[w] = "loading"
    /\ Heartbeat
    /\ Goes(w, "scanning")
    /\ todo' = [todo EXCEPT ![w] = photos]
    /\ seen' = [seen EXCEPT ![w] = status]
    /\ UNCHANGED <<retries, cur, lockVars, unchangedByRun, status, done, rows, jobs,
                   faults>>

\* First heartbeat, then the photos still pending; the session now holds the event.
JobLoads(w) ==
    /\ pc[w] = "loading"
    /\ Heartbeat
    /\ Goes(w, "scanning")
    /\ todo' = [todo EXCEPT ![w] = Pending]
    /\ seen' = [seen EXCEPT ![w] = status]
    /\ UNCHANGED <<retries, cur, lockVars, unchangedByRun, status, done, rows, jobs,
                   faults>>

\* A photo without a passed crop, or one that fails, is processed at once.
JobSkips(w, p) ==
    /\ pc[w] = "scanning"
    /\ p \in todo[w]
    /\ done' = done \cup {p}
    /\ todo' = [todo EXCEPT ![w] = @ \ {p}]
    /\ Extend(w)
    /\ UNCHANGED <<pc, retries, cur, seen, unchangedByRun, status, rows, jobs, watchVars,
                   alert, faults>>

\* The flush commits the crops of a photo ...
JobStores(w, p) ==
    /\ pc[w] = "scanning"
    /\ p \in todo[w]
    /\ rows' = [rows EXCEPT ![p] = @ + 1]
    /\ Goes(w, "storing")
    /\ todo' = [todo EXCEPT ![w] = @ \ {p}]
    /\ cur' = [cur EXCEPT ![w] = p]
    /\ UNCHANGED <<lockVars, retries, seen, unchangedByRun, status, done, jobs,
                   watchVars, alert, faults>>

\* ... and another commit marks the photo processed.
JobFinishes(w) ==
    /\ pc[w] = "storing"
    /\ done' = done \cup {cur[w]}
    /\ Goes(w, "scanning")
    /\ cur' = [cur EXCEPT ![w] = NoPhoto]
    /\ Extend(w)
    /\ UNCHANGED <<retries, todo, seen, unchangedByRun, status, rows, jobs, watchVars,
                   alert, faults>>

\* The 60-second pulse of a run, for as long as the run lasts.
JobPulse(w) ==
    /\ pc[w] \in Working
    /\ Extend(w)
    /\ Heartbeat
    /\ UNCHANGED <<unchangedByRun, status, done, rows, jobs, runVars, faults>>

JobClusters(w) ==
    /\ pc[w] = "scanning"
    /\ todo[w] = {}
    /\ Goes(w, "clustering")
    /\ UNCHANGED <<retries, todo, cur, seen, lockVars, unchangedByRun, status, done,
                   rows, jobs, watchVars, alert, faults>>

JobReleases(w) ==
    /\ pc[w] = "clustering"
    /\ Release(w)
    /\ Goes(w, "updating")
    /\ UNCHANGED <<retries, todo, cur, seen, unchangedByRun, status, done, rows, jobs,
                   watchVars, alert, faults>>

\* Clustering itself finds its own lock taken by another run and raises Busy: the
\* pipeline lock is released and the message is retried.
ClusteringBusy(w) ==
    /\ pc[w] = "clustering"
    /\ \E v \in Worker \ {w} : pc[v] = "clustering"
    /\ Release(w)
    /\ Retry(w)
    /\ Forgets(w)
    /\ UNCHANGED <<unchangedByRun, status, done, rows, watchVars, alert, faults>>

\* Any other exception: the finally clause releases the lock, nobody touches the event.
JobFails(w) ==
    /\ pc[w] \in Working
    /\ Fault
    /\ Release(w)
    /\ Forgets(w)
    /\ UNCHANGED <<unchangedByRun, status, done, rows, jobs, watchVars, alert>>

\* update_event_processing_status after a run that returned.  The session may still
\* hold the event it loaded at the start, or read it again.
JobCounts(w) ==
    /\ pc[w] = "updating"
    /\ \E previous \in {seen[w], status} :
          seen' = [seen EXCEPT ![w] = Verdict(previous)]
    /\ Goes(w, "writing")
    /\ UNCHANGED <<lockVars, retries, todo, cur, unchangedByRun, status, done, rows, jobs,
                   watchVars, alert, faults>>

JobWrites(w) ==
    /\ pc[w] = "writing"
    /\ Write(seen[w])
    /\ Forgets(w)
    /\ UNCHANGED <<lockVars, unchangedByRun, done, rows, jobs, watchVars, alert, faults>>

\* The worker process is killed: its message is gone, its key stays.
WorkerDies(w) ==
    /\ pc[w] # "idle"
    /\ Fault
    /\ IF w \in holding \/ attempt[w] > 0 THEN Die(w) ELSE UNCHANGED lockVars
    /\ Forgets(w)
    /\ UNCHANGED <<unchangedByRun, status, done, rows, jobs, watchVars, alert>>

-----------------------------------------------------------------------------
(* The beat task reconcile_face_processing: FaceProcessingReconciler. *)

unchangedByTicker == <<lockVars, photoVars, done, rows, runVars, click, age, starts>>

\* A run that looks at the watch of a start whose commit it can see and whose mark it can
\* not has crossed that start, as has one that looked before the commit and acts after.
Goto(t, step) ==
    /\ tick' = [tick EXCEPT ![t] = step]
    /\ sinceStart' = IF /\ step \in {"unwatched", "giveup"}
                       /\ \E c \in Click : click[c] = "committed"
                      THEN StallAfter ELSE sinceStart

\* Mutant: only a run that has sent a heartbeat can stall.
StalledAfterBeat == beat # Never /\ beat >= StallAfter

Fresh   == beat # Never /\ beat < FreshAfter
Stalled == (IF beat # Never THEN beat ELSE started) >= StallAfter

\* reconcile_all selects the PROCESSING events; each row stays as it was read.
TickLoads(t) ==
    /\ tick[t] = "idle"
    /\ status = "processing"
    /\ Goto(t, "loaded")
    /\ UNCHANGED <<unchangedByTicker, status, jobs, watchVars, giveUp, requeue, alert,
                   faults>>

\* Neither a watch nor a lock ...
TickMisses(t) ==
    /\ tick[t] = "loaded"
    /\ watchLife = 0 /\ ~KeyExists
    /\ Goto(t, "unwatched")
    /\ UNCHANGED <<unchangedByTicker, status, jobs, watchVars, giveUp, requeue, alert,
                   faults>>

\* ... so a watch is started, dated to the event's updated_at, over whatever a run or a
\* request has written there by now.
TickMarks(t) ==
    /\ tick[t] = "unwatched"
    /\ started' = age /\ beat' = Never
    /\ watchLife' = WatchTtl
    /\ giveUp' = 0
    /\ alert' = "none"
    /\ Goto(t, "marked")
    /\ UNCHANGED <<unchangedByTicker, status, jobs, requeue, faults>>

\* The lock is held without a watch, or the heartbeat is fresh: nothing to do.
TickHealthy(t) ==
    /\ tick[t] \in {"loaded", "marked"}
    /\ IF watchLife = 0 THEN KeyExists ELSE Fresh
    /\ Goto(t, "idle")
    /\ UNCHANGED <<unchangedByTicker, status, jobs, watchVars, giveUp, requeue, alert,
                   faults>>

\* Neither fresh nor absent: give up when stalled, recover otherwise.
TickDecides(t) ==
    /\ tick[t] \in {"loaded", "marked"}
    /\ watchLife > 0 /\ ~Fresh
    /\ Goto(t, IF Stalled THEN "giveup" ELSE "recover")
    /\ UNCHANGED <<unchangedByTicker, status, jobs, watchVars, giveUp, requeue, alert,
                   faults>>

\* Mutant: the give-up key is read and never set.
TickClaimsUnmarked(t) ==
    /\ tick[t] = "giveup"
    /\ Goto(t, IF giveUp = 0 THEN "claimed" ELSE "idle")
    /\ alert' = IF giveUp = 0 THEN "sent" ELSE alert
    /\ UNCHANGED <<unchangedByTicker, status, jobs, watchVars, giveUp, requeue, faults>>

\* SET NX on the give-up key: one revert and one alert for each stall window.
TickClaims(t) ==
    /\ tick[t] = "giveup"
    /\ Goto(t, IF giveUp = 0 THEN "claimed" ELSE "idle")
    /\ giveUp' = IF giveUp = 0 THEN WatchTtl ELSE giveUp
    /\ alert' = IF giveUp = 0 THEN "sent" ELSE alert
    /\ UNCHANGED <<unchangedByTicker, status, jobs, watchVars, requeue, faults>>

\* revert_stalled_processing counts the pending photos ...
TickCounts(t) ==
    /\ tick[t] = "claimed"
    /\ Goto(t, IF Pending = {} THEN "toReady" ELSE "toUploading")
    /\ UNCHANGED <<unchangedByTicker, status, jobs, watchVars, giveUp, requeue, alert,
                   faults>>

Reverting(t) == tick[t] \in {"toReady", "toUploading"}

\* ... and writes over whatever the status has become: its own row says PROCESSING.
TickReverts(t) ==
    /\ Reverting(t)
    /\ status' = IF tick[t] = "toReady" THEN "ready" ELSE "uploading"
    /\ Goto(t, "idle")
    /\ UNCHANGED <<unchangedByTicker, jobs, watchVars, giveUp, requeue, alert, faults>>

\* _recover, once the GPU host is up: no duplicate while the lock is held, and one
\* message for each debounce window.
TickRecovers(t) ==
    /\ tick[t] = "recover"
    /\ IF ~KeyExists /\ requeue = 0 THEN Enqueue(0) /\ requeue' = Debounce
                                    ELSE UNCHANGED <<jobs, requeue>>
    /\ Goto(t, "idle")
    /\ UNCHANGED <<unchangedByTicker, status, watchVars, giveUp, alert, faults>>

\* The beat task dies or raises between two of its steps.
TickDies(t) ==
    /\ tick[t] # "idle"
    /\ Fault
    /\ Goto(t, "idle")
    /\ UNCHANGED <<unchangedByTicker, status, jobs, watchVars, giveUp, requeue, alert>>

-----------------------------------------------------------------------------

Older(a)  == IF a < StallAfter THEN a + 1 ELSE a
Shorter(n) == IF n > 0 THEN n - 1 ELSE 0

\* Deciding to give up, claiming and reverting follow each other, and so do the steps
\* of a request: together they take less than a tick.  Loading is not prompt, since
\* other events come first, and neither is _recover, which waits for the GPU host.
Prompt == /\ \A t \in Ticker : tick[t] \in {"idle", "loaded", "recover"}
          /\ \A c \in Click : click[c] = "idle"

\* One tick: every age grows, every key's life shrinks.
Tick ==
    /\ LockTick
    /\ Prompt
    /\ started' = IF watchLife <= 1 THEN 0 ELSE Older(started)
    /\ beat' = IF watchLife <= 1 \/ beat = Never THEN Never ELSE Older(beat)
    /\ watchLife' = Shorter(watchLife)
    /\ giveUp' = Shorter(giveUp)
    /\ requeue' = Shorter(requeue)
    /\ age' = Older(age)
    /\ sinceStart' = Older(sinceStart)
    /\ UNCHANGED <<status, photoVars, done, rows, jobs, runVars, click, tick,
                   alert, starts, faults>>

ProxyStep(p) == ProxyStarts(p) \/ ProxyDone(p) \/ ProxyCounts(p) \/ ProxyWrites(p)

PhotoStep(p) == UploadReads(p) \/ Upload(p) \/ ProxyStep(p)

ClickStep(c) == \/ StartCheck(c) \/ StartCommit(c) \/ StartMark(c) \/ StartEnqueue(c)
                \/ StartDies(c)

JobStep(w) == \/ JobAcquires(w) \/ JobRefused(w) \/ JobBusy(w) \/ JobLoads(w)
              \/ \E p \in Photo : JobSkips(w, p) \/ JobStores(w, p)
              \/ JobFinishes(w) \/ JobClusters(w) \/ JobReleases(w) \/ ClusteringBusy(w)
              \/ JobCounts(w) \/ JobWrites(w)

WorkerStep(w) == \/ \E n \in 0..MaxRetries : Deliver(w, n)
                 \/ JobStep(w) \/ JobPulse(w) \/ JobFails(w) \/ WorkerDies(w)

TickerStep(t) == \/ TickLoads(t) \/ TickMisses(t) \/ TickMarks(t) \/ TickHealthy(t)
                 \/ TickDecides(t) \/ TickClaims(t) \/ TickCounts(t) \/ TickReverts(t)
                 \/ TickRecovers(t)

Next ==
    \/ \E p \in Photo : PhotoStep(p)
    \/ \E c \in Click : ClickStep(c)
    \/ \E w \in Worker : WorkerStep(w)
    \/ \E t \in Ticker : TickerStep(t) \/ TickDies(t)
    \/ Tick

Spec == Init /\ [][Next]_vars

(***************************************************************************)
(* Beat, photo tasks and the workers' own event loops keep running; an     *)
(* accepted request runs to its end unless its process dies.  Nothing is   *)
(* assumed of the queue: the GPU host may stay down.  Time never stops, so *)
(* a tick that prompt steps hold up again and again still comes (SF).      *)
(***************************************************************************)
Fairness ==
    /\ SF_vars(Tick)
    /\ \A p \in Photo : WF_vars(ProxyStep(p))
    /\ \A c \in Click : WF_vars(StartCommit(c) \/ StartMark(c) \/ StartEnqueue(c))
    /\ \A w \in Worker : WF_vars(JobStep(w)) /\ WF_vars(JobPulse(w) /\ gap[w] = PulseGap)
    /\ \A t \in Ticker : WF_vars(TickerStep(t))

FairSpec == Spec /\ Fairness

-----------------------------------------------------------------------------

\* The one way to a wrong Ready is an upload whose two steps or whose commit fall between
\* the count and the write of a refresh: no order of photo tasks, runs, crashes, requests
\* and reverts, each with its own copy of the event, shows Ready too early otherwise.
ReadyUnlessRaced == status = "ready" => Pending = {} \/ raced

\* The crops of a photo are inserted once, and once more at most for each crash or
\* failed run, however many duplicate messages the clicks, the retries and the
\* reconciler put in the queue.
RowsPerFault == \A p \in Photo : rows[p] <= 1 + faults

\* A worker that runs a photo holds the event's lock, so runs of one event never
\* overlap although each of them is enqueued without looking at the others.
RunsExclusive == \A v, w \in Worker :
                    pc[v] \in Working /\ pc[w] \in Working => v = w

\* Ops get one alert for one silence: the give-up key outlives the watch it belongs to.
OneAlertPerWindow ==
    [][ \A t \in Ticker : tick[t] = "giveup" /\ tick'[t] = "claimed" => alert = "none" ]_vars

\* A start is given its whole window, although its commit and its watch are two steps,
\* runs overlap, heartbeats of older runs are still there and anything may die: it is
\* reverted early only by a run that looks at it between the two steps, or acts on what
\* it has read before.
StartHasItsWindow ==
    [][ \A t \in Ticker : Reverting(t) /\ tick'[t] = "idle" /\ faults' = faults
                            => sinceStart >= StallAfter ]_vars

\* An event does not stay in PROCESSING for ever: it becomes ready, or it is reverted.
LeavesProcessing == status = "processing" ~> status # "processing"

==============================================================================
