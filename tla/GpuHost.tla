------------------------------- MODULE GpuHost -------------------------------
(***************************************************************************)
(* GpuHostService (services/gpu_host_service.py): the machine that runs    *)
(* the face worker is started by start requests and by the reconciler, and *)
(* stopped by a beat task after it has looked idle for a while.  What looks *)
(* busy is a lock key in Redis or a message in the list of the queue; what *)
(* a worker has taken from the list and not begun looks idle.              *)
(*                                                                         *)
(* FaceJobs has the handlers of one event in full and leaves the host      *)
(* free.  Here the host is in full, and of the handlers there is what it   *)
(* sees of them and they of it.  Nobody terminates the instance, and it is *)
(* configured: without an instance id every call is skipped.               *)
(***************************************************************************)
EXTENDS Integers, FiniteSets

CONSTANTS
    Event,
    Slots,          \* celery -c: runs at a time
    IdleAfter,      \* gpu_idle_stop_minutes
    LockTtl,        \* face_pipeline_lock_ttl_seconds
    FreshAfter,     \* face_processing_heartbeat_fresh_seconds
    StallAfter,     \* face_processing_stall_minutes
    RequeueAfter,   \* face_processing_requeue_seconds
    MaxStarts,      \* bound: start requests
    MaxJobs,        \* bound: messages of an event of a kind
    MaxFaults,      \* bound: calls and processes that fail
    None            \* no idle timer, no event

Starter == {"task", "reconciler"}       \* who calls ensure_running

ASSUME HostAssumption ==
    /\ {Slots, IdleAfter, LockTtl, FreshAfter, StallAfter, RequeueAfter, MaxJobs}
         \subseteq Nat \ {0}
    /\ MaxStarts \in Nat /\ MaxFaults \in Nat
    /\ None \notin Event \cup Nat /\ "stop" \notin Event

VARIABLES
    host,       \* state of the EC2 instance
    slow,       \* whether it has been changing its state for a tick
    idle,       \* spotme:gpu_host:idle_since, as an age
    queue,      \* face_processing: messages in the list
    counting,   \* messages the worker holds until their retry is due
    due,        \* those whose time has come
    running,    \* events with a live run
    lock,       \* face_pipeline_lock:{event_id}: what is left of its life
    status,     \* events.status, PROCESSING or not
    pend,       \* whether photos wait for their faces
    quiet,      \* age of the watch: since the last heartbeat, or the start
    beaten,     \* whether there was a heartbeat since the start
    asked,      \* ensure_gpu_host_running is queued
    ensure,     \* where a call of ensure_running is
    stop,       \* where stop_if_idle is
    rec,        \* event that the reconciler recovers
    requeued,   \* spotme:face_requeue:{event_id}: what is left of its life
    ahead,      \* what the beat has yet to look at in this tick
    starts, faults,
    raced,      \* history: runs that began behind the back of a check
    killed,     \* history: events whose other runs the host took with it
    reverted    \* history: events given up, other than behind the runs of others

jobs     == <<queue, counting, due>>
runs     == <<running, lock>>
watch    == <<quiet, beaten>>
machine  == <<host, slow>>
beats    == <<rec, requeued, ahead>>
bounds   == <<starts, faults>>
history  == <<raced, killed, reverted>>
hostVars == <<machine, idle, jobs, runs, status, pend, watch, asked, ensure, stop, beats,
              bounds, history>>

HostTypeOK ==
    /\ host \in {"stopped", "pending", "running", "stopping"} /\ slow \in BOOLEAN
    /\ idle \in 0..IdleAfter \cup {None}
    /\ {queue, counting, due} \subseteq [Event -> 0..MaxJobs]
    /\ running \subseteq Event /\ lock \in [Event -> 0..LockTtl]
    /\ status \in [Event -> {"processing", "open"}] /\ pend \in [Event -> BOOLEAN]
    /\ quiet \in [Event -> 0..StallAfter] /\ beaten \in [Event -> BOOLEAN]
    /\ asked \in BOOLEAN
    /\ ensure \in [Starter -> {"off", "asks", "waits", "starts", "boots", "clears"}]
    /\ stop \in {"off", "locks", "queue", "timer", "stops", "clears"}
    /\ rec \in Event \cup {None} /\ requeued \in [Event -> 0..RequeueAfter]
    /\ ahead \subseteq Event \cup {"stop"}
    /\ starts \in 0..MaxStarts /\ faults \in 0..MaxFaults
    /\ raced \subseteq Event /\ killed \subseteq Event /\ reverted \subseteq Event

HostInit ==
    /\ host = "stopped" /\ slow = FALSE /\ idle = None
    /\ queue = [e \in Event |-> 0] /\ counting = queue /\ due = queue
    /\ running = {} /\ lock = [e \in Event |-> 0]
    /\ status = [e \in Event |-> "open"] /\ pend = [e \in Event |-> TRUE]
    /\ quiet = [e \in Event |-> 0] /\ beaten = [e \in Event |-> FALSE]
    /\ asked = FALSE /\ ensure = [x \in Starter |-> "off"] /\ stop = "off"
    /\ rec = None /\ requeued = [e \in Event |-> 0] /\ ahead = {}
    /\ starts = 0 /\ faults = 0 /\ raced = {} /\ killed = {} /\ reverted = {}

Plus(n) == IF n < MaxJobs THEN n + 1 ELSE n

Fault == faults < MaxFaults /\ faults' = faults + 1 /\ UNCHANGED starts

-----------------------------------------------------------------------------
(* Requests, and the runs of the worker. *)

\* start_face_processing, from the commit to the two messages (FaceJobs cuts it up).
StartRequest(e) ==
    /\ starts < MaxStarts /\ starts' = starts + 1
    /\ pend[e] /\ lock[e] = 0
    /\ status' = [status EXCEPT ![e] = "processing"]
    /\ quiet' = [quiet EXCEPT ![e] = 0] /\ beaten' = [beaten EXCEPT ![e] = FALSE]
    /\ queue' = [queue EXCEPT ![e] = Plus(@)]
    /\ asked' = TRUE
    /\ UNCHANGED <<machine, idle, counting, due, runs, pend, ensure, stop, beats, faults, history>>

\* A message from the list, or one whose countdown is over.
Takes(e) ==
    /\ host = "running" /\ Cardinality(running) < Slots
    /\ \/ queue[e] > 0 /\ queue' = [queue EXCEPT ![e] = @ - 1] /\ UNCHANGED due
       \/ due[e] > 0 /\ due' = [due EXCEPT ![e] = @ - 1] /\ UNCHANGED queue

\* The run takes the lock and sends its first heartbeat.
RunBegins(e) ==
    /\ Takes(e)
    /\ lock[e] = 0
    /\ lock' = [lock EXCEPT ![e] = LockTtl]
    /\ running' = running \cup {e}
    /\ quiet' = [quiet EXCEPT ![e] = 0] /\ beaten' = [beaten EXCEPT ![e] = TRUE]
    /\ raced' = IF stop \in {"queue", "timer", "stops"} THEN raced \cup {e} ELSE raced \ {e}
    /\ UNCHANGED <<machine, idle, counting, status, pend, asked, ensure, stop, beats, bounds,
                   killed, reverted>>

\* ClusteringLockBusyError: retried after a countdown, until the retries are used up.
RunRefused(e) ==
    /\ Takes(e)
    /\ lock[e] > 0
    /\ counting' \in {counting, [counting EXCEPT ![e] = Plus(@)]}
    /\ UNCHANGED <<machine, idle, runs, status, pend, watch, asked, ensure, stop, beats, bounds,
                   history>>

RunEnds(e) ==
    /\ e \in running
    /\ running' = running \ {e} /\ lock' = [lock EXCEPT ![e] = 0]
    /\ pend' = [pend EXCEPT ![e] = FALSE]
    /\ status' = [status EXCEPT ![e] = "open"]
    /\ UNCHANGED <<machine, idle, jobs, watch, asked, ensure, stop, beats, bounds, history>>

\* The run fails and lets its lock go, or its process is killed and does not.
RunFails(e) ==
    /\ e \in running
    /\ Fault
    /\ running' = running \ {e}
    /\ lock' \in {lock, [lock EXCEPT ![e] = 0]}
    /\ UNCHANGED <<machine, idle, jobs, status, pend, watch, asked, ensure, stop, beats, history>>

-----------------------------------------------------------------------------
(* The instance. *)

Boots ==
    /\ host = "pending"
    /\ host' = "running" /\ slow' = FALSE
    /\ UNCHANGED <<idle, jobs, runs, status, pend, watch, asked, ensure, stop, beats, bounds,
                   history>>

\* The worker dies with its host: runs end where they are, and what it held goes back
\* into the list if it is given the time to, and is lost otherwise.
Halts ==
    /\ host = "stopping"
    /\ host' = "stopped" /\ slow' = FALSE
    /\ running' = {}
    /\ killed' = killed \cup (running \ raced)
    /\ \/ queue' = [e \in Event |-> IF counting[e] + due[e] > 0 THEN Plus(queue[e]) ELSE queue[e]]
       \/ UNCHANGED queue
    /\ counting' = [e \in Event |-> 0] /\ due' = counting'
    /\ UNCHANGED <<idle, lock, status, pend, watch, asked, ensure, stop, beats, bounds, raced,
                   reverted>>

-----------------------------------------------------------------------------
(* ensure_running, called by the task of a start request and by the reconciler. *)

Ensure(x, step) == ensure' = [ensure EXCEPT ![x] = step]

TaskBegins ==
    /\ asked /\ ensure["task"] = "off"
    /\ asked' = FALSE
    /\ Ensure("task", "asks")
    /\ UNCHANGED <<machine, idle, jobs, runs, status, pend, watch, stop, beats, bounds, history>>

EnsureDescribes(x) ==
    /\ ensure[x] = "asks"
    /\ Ensure(x, CASE host \in {"running", "pending"} -> "clears"
                   [] host = "stopping"               -> "waits"
                   [] host = "stopped"                -> "starts")
    /\ UNCHANGED <<machine, idle, jobs, runs, status, pend, watch, asked, stop, beats, bounds,
                   history>>

EnsureWaits(x) ==
    /\ ensure[x] = "waits" /\ host = "stopped"
    /\ Ensure(x, "starts")
    /\ UNCHANGED <<machine, idle, jobs, runs, status, pend, watch, asked, stop, beats, bounds,
                   history>>

\* StartInstances: without effect on an instance that is up, refused by one that stops.
EnsureStarts(x) ==
    /\ ensure[x] = "starts"
    /\ IF host = "stopping" THEN Ensure(x, "off") ELSE Ensure(x, "boots")
    /\ IF host = "stopped" THEN host' = "pending" /\ slow' = FALSE ELSE UNCHANGED machine
    /\ UNCHANGED <<idle, jobs, runs, status, pend, watch, asked, stop, beats, bounds, history>>

EnsureBoots(x) ==
    /\ ensure[x] = "boots" /\ host = "running"
    /\ Ensure(x, "clears")
    /\ UNCHANGED <<machine, idle, jobs, runs, status, pend, watch, asked, stop, beats, bounds,
                   history>>

\* The waiter gives up: another caller has started the instance that this one waits to
\* see stopped, or it is stopped again before this one saw it running.  The task is
\* retried, the reconcile run fails.
EnsureGivesUp(x) ==
    /\ \/ ensure[x] = "waits" /\ host \in {"pending", "running"}
       \/ ensure[x] = "boots" /\ host \in {"stopping", "stopped"}
    /\ \/ Ensure(x, "off")
       \/ x = "task" /\ Ensure(x, "asks")
    /\ rec' = IF x = "reconciler" THEN None ELSE rec
    /\ UNCHANGED <<machine, idle, jobs, runs, status, pend, watch, asked, stop, requeued, ahead,
                   bounds, history>>

EnsureClears(x) ==
    /\ ensure[x] = "clears"
    /\ idle' = None
    /\ Ensure(x, "off")
    /\ UNCHANGED <<machine, jobs, runs, status, pend, watch, asked, stop, beats, bounds, history>>

\* GpuHostError: "error", which nobody retries.
EnsureErrs(x) ==
    /\ ensure[x] \in {"asks", "starts"}
    /\ Fault
    /\ Ensure(x, "off")
    /\ UNCHANGED <<machine, idle, jobs, runs, status, pend, watch, asked, stop, beats, history>>

-----------------------------------------------------------------------------
(* stop_if_idle, the beat task of every minute. *)

StopUnchanged == UNCHANGED <<jobs, runs, status, pend, watch, asked, ensure, beats, bounds, history>>

StopDescribes ==
    /\ "stop" \in ahead /\ stop = "off"
    /\ ahead' = ahead \ {"stop"}
    /\ stop' = IF host = "running" THEN "locks" ELSE "clears"
    /\ UNCHANGED <<machine, idle, jobs, runs, status, pend, watch, asked, ensure, rec, requeued,
                   bounds, history>>

\* Mutant: only the list is looked at.
StopSkipsLocks ==
    /\ stop = "locks"
    /\ stop' = "queue"
    /\ UNCHANGED <<machine, idle>> /\ StopUnchanged

\* face_work_in_progress: the locks first, then the list.
StopSeesLocks ==
    /\ stop = "locks"
    /\ stop' = IF \E e \in Event : lock[e] > 0 THEN "clears" ELSE "queue"
    /\ UNCHANGED <<machine, idle>> /\ StopUnchanged

StopSeesQueue ==
    /\ stop = "queue"
    /\ stop' = IF \E e \in Event : queue[e] > 0 THEN "clears" ELSE "timer"
    /\ UNCHANGED <<machine, idle>> /\ StopUnchanged

\* Mutant: every idle check starts the timer again.
StopRestartsTimer ==
    /\ stop = "timer"
    /\ idle' = 0
    /\ stop' = IF idle = IdleAfter THEN "stops" ELSE "off"
    /\ UNCHANGED machine /\ StopUnchanged

StopReadsTimer ==
    /\ stop = "timer"
    /\ idle' = IF idle = None THEN 0 ELSE idle
    /\ stop' = IF idle = IdleAfter THEN "stops" ELSE "off"
    /\ UNCHANGED machine /\ StopUnchanged

StopStops ==
    /\ stop = "stops"
    /\ IF host = "running" THEN host' = "stopping" /\ slow' = FALSE ELSE UNCHANGED machine
    /\ stop' = "clears"
    /\ UNCHANGED idle /\ StopUnchanged

StopClears ==
    /\ stop = "clears"
    /\ idle' = None
    /\ stop' = "off"
    /\ UNCHANGED machine /\ StopUnchanged

\* A call to EC2 fails, or the process dies: the timer stays as it is.
StopErrs ==
    /\ stop \in {"stops", "clears"}
    /\ Fault
    /\ stop' = "off"
    /\ UNCHANGED <<machine, idle, jobs, runs, status, pend, watch, asked, ensure, beats, history>>

-----------------------------------------------------------------------------
(* The reconciler, for one event after the other. *)

Looks(e) ==
    /\ e \in ahead /\ rec = None /\ ensure["reconciler"] = "off"
    /\ status[e] = "processing"
    /\ ahead' = ahead \ {e}

\* Mutant: the age of the heartbeat is not looked at.
IsBeaten(e) == beaten[e]

IsFresh(e) == beaten[e] /\ quiet[e] < FreshAfter

RecHealthy(e) ==
    /\ Looks(e)
    /\ IsFresh(e)
    /\ UNCHANGED <<machine, idle, jobs, runs, status, pend, watch, asked, ensure, stop, rec,
                   requeued, bounds, history>>

\* Its message waits at a live worker, whose slots the runs of other events have.
Waits(e) == host = "running" /\ queue[e] + due[e] > 0

RecGivesUp(e) ==
    /\ Looks(e)
    /\ ~IsFresh(e) /\ quiet[e] >= StallAfter
    /\ status' = [status EXCEPT ![e] = "open"]
    /\ reverted' = IF Waits(e) THEN reverted ELSE reverted \cup {e}
    /\ UNCHANGED <<machine, idle, jobs, runs, pend, watch, asked, ensure, stop, rec, requeued,
                   bounds, raced, killed>>

\* Mutant: an instance that is stopping counts as up.
ReachableUntilStopped == host # "stopped"

Reachable == host \in {"running", "pending"}

RecRecovers(e) ==
    /\ Looks(e)
    /\ ~IsFresh(e) /\ quiet[e] < StallAfter
    /\ rec' = e
    /\ IF Reachable THEN UNCHANGED ensure ELSE Ensure("reconciler", "asks")
    /\ UNCHANGED <<machine, idle, jobs, runs, status, pend, watch, asked, stop, requeued, bounds,
                   history>>

RecRequeues ==
    /\ rec # None /\ ensure["reconciler"] = "off"
    /\ rec' = None
    /\ IF lock[rec] = 0 /\ requeued[rec] = 0
       THEN /\ queue' = [queue EXCEPT ![rec] = Plus(@)]
            /\ requeued' = [requeued EXCEPT ![rec] = RequeueAfter]
       ELSE UNCHANGED <<queue, requeued>>
    /\ UNCHANGED <<machine, idle, counting, due, runs, status, pend, watch, asked, ensure, stop,
                   ahead, bounds, history>>

-----------------------------------------------------------------------------
(* Time. *)

\* What is done before the next tick: calls that return, free workers that take what
\* waits, a beat that is on time.  An instance changes its state within two ticks.
Prompt ==
    /\ stop = "off" /\ ~asked
    /\ \A x \in Starter :
        \/ ensure[x] = "off"
        \/ ensure[x] = "waits" /\ host = "stopping"
        \/ ensure[x] = "boots" /\ host = "pending"
    /\ "stop" \notin ahead
    /\ rec = None => \A e \in ahead : status[e] = "open"
    /\ rec # None => ensure["reconciler"] # "off"
    /\ \/ host # "running" \/ Cardinality(running) = Slots
       \/ \A e \in Event : queue[e] = 0 /\ due[e] = 0
    /\ ~slow

Older(age, cap) == IF age < cap THEN age + 1 ELSE age

\* A key that is gone stays gone.
Less(life) == IF life > 0 THEN life - 1 ELSE 0

\* Time passes; live runs pulse, which prolongs their lock and is a heartbeat.
Tick ==
    /\ Prompt
    /\ slow' = (host \in {"pending", "stopping"})
    /\ idle' = IF idle = None THEN None ELSE Older(idle, IdleAfter)
    /\ due' = [e \in Event |-> IF counting[e] > 0 THEN Plus(due[e]) ELSE due[e]]
    /\ counting' = [e \in Event |-> 0]
    /\ lock' = [e \in Event |-> IF e \in running THEN LockTtl ELSE Less(lock[e])]
    /\ quiet' = [e \in Event |-> IF e \in running THEN 0
                                 ELSE IF status[e] = "processing"
                                 THEN Older(quiet[e], StallAfter) ELSE 0]
    /\ beaten' = [e \in Event |-> beaten[e] \/ e \in running]
    /\ requeued' = [e \in Event |-> Less(requeued[e])]
    /\ ahead' = Event \cup {"stop"}
    /\ raced' = IF host = "running" THEN {} ELSE raced
    /\ UNCHANGED <<host, queue, running, status, pend, asked, ensure, stop, rec, bounds, killed,
                   reverted>>

-----------------------------------------------------------------------------
EnsureStep(x) ==
    \/ EnsureDescribes(x) \/ EnsureWaits(x) \/ EnsureStarts(x) \/ EnsureBoots(x)
    \/ EnsureGivesUp(x) \/ EnsureClears(x)

StopStep ==
    \/ StopDescribes \/ StopSeesLocks \/ StopSeesQueue \/ StopReadsTimer \/ StopStops
    \/ StopClears

HostStep == Boots \/ Halts

TaskStep == TaskBegins \/ EnsureStep("task")

WorkerStep == \E e \in Event : RunBegins(e) \/ RunRefused(e)

RecStep ==
    \/ \E e \in Event : RecHealthy(e) \/ RecGivesUp(e) \/ RecRecovers(e)
    \/ EnsureStep("reconciler") \/ RecRequeues

HostNext ==
    \/ \E e \in Event : StartRequest(e) \/ RunEnds(e) \/ RunFails(e)
    \/ HostStep \/ WorkerStep \/ TaskStep \/ RecStep
    \/ \E x \in Starter : EnsureErrs(x)
    \/ StopStep \/ StopErrs \/ Tick

HostSpec == HostInit /\ [][HostNext]_hostVars

\* Workers and beat go on, the instance changes its state, time passes, and a run that
\* is left alone comes to its end.
Fairness ==
    /\ WF_hostVars(HostStep) /\ WF_hostVars(WorkerStep) /\ WF_hostVars(TaskStep)
    /\ WF_hostVars(RecStep) /\ WF_hostVars(StopStep) /\ WF_hostVars(Tick)
    /\ \A e \in Event : WF_hostVars(RunEnds(e))

FairHostSpec == HostSpec /\ Fairness

-----------------------------------------------------------------------------
(* Properties. *)

\* The host takes a run with it only when that run began after the check that stopped the
\* host had read the locks.
KillsOnlyRacing == killed = {}

\* The reconciler brings every start to a run in time, even when the idle stop hits its
\* message or its run: an event is given up only after a second thing has failed.
GivesUpAfterFault == faults < 2 => reverted = {}

\* What the idle check could see.
Work == \E e \in Event : queue[e] > 0 \/ lock[e] > 0

\* A host that nobody needs does not stay on.
IdleHostStops == []<>(host = "stopped" \/ Work)

\* Faces of a started event are found in the end, unless something fails.
StartIsServed ==
    \A e \in Event : (status[e] = "processing") ~> (~pend[e] \/ faults > 0)
==============================================================================
