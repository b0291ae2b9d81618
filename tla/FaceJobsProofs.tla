---------------------------- MODULE FaceJobsProofs ---------------------------
(***************************************************************************)
(* Theorems about FaceLock, for any workers and any delays, and about      *)
(* FaceJobs, for any photos, workers, requests and reconcile runs and for  *)
(* every value of the delays.                                              *)
(*                                                                         *)
(* The lock's inductive invariant couples the life left in Redis with the  *)
(* time since the holder's last extend: their sum is the whole life, so a  *)
(* pulse that is on time always finds its own key.  Each step of FaceJobs  *)
(* is a step of FaceLock or leaves the lock alone, so that what is shown   *)
(* of the lock holds of an event's jobs.  A run that works holds the lock  *)
(* (WorkingHolds); hence runs exclude each other, and the photos a run     *)
(* loaded stay pending until that run itself processes them, which bounds  *)
(* the rows a photo can get (RowsInv).  And a READY that is counted but    *)
(* not yet written is a promise that only an upload can break              *)
(* (PromisesKept).  What the reconciler does in time follows from ages     *)
(* that grow together: a start, its watch and the alert of a silence       *)
(* (WindowInv, AlertInv).                                                  *)
(***************************************************************************)
EXTENDS FaceJobs, TLAPS

-----------------------------------------------------------------------------
(* The lock. *)

LockIInv ==
    /\ LockTypeOK
    /\ HolderOwnsKey

\* Every variable of the lock keeps its type, whatever the delays.
THEOREM LockTypeCorrect == LockSpec => []LockTypeOK
<1>1. LockInit => LockTypeOK
  BY LockAssumption DEF LockInit, LockTypeOK
<1>2. LockTypeOK /\ [LockNext]_lockVars => LockTypeOK'
  <2> SUFFICES ASSUME LockTypeOK, [LockNext]_lockVars
               PROVE  LockTypeOK'
    OBVIOUS
  <2> USE LockAssumption DEF LockTypeOK
  <2>1. ASSUME NEW w \in Worker, Acquire(w)
        PROVE  LockTypeOK'
    BY <2>1 DEF Acquire
  <2>2. ASSUME NEW w \in Worker, Refused(w)
        PROVE  LockTypeOK'
    BY <2>2 DEF Refused
  <2>3. ASSUME NEW w \in Worker, Busy(w)
        PROVE  LockTypeOK'
    BY <2>3 DEF Busy
  <2>4. ASSUME NEW w \in Worker, Extend(w)
        PROVE  LockTypeOK'
    BY <2>4 DEF Extend
  <2>5. ASSUME NEW w \in Worker, Release(w)
        PROVE  LockTypeOK'
    BY <2>5 DEF Release
  <2>6. ASSUME NEW w \in Worker, Die(w)
        PROVE  LockTypeOK'
    BY <2>6 DEF Die
  <2>7. CASE LockTick
    BY <2>7 DEF LockTick
  <2>8. CASE UNCHANGED lockVars
    BY <2>8 DEF lockVars
  <2> QED
    BY <2>1, <2>2, <2>3, <2>4, <2>5, <2>6, <2>7, <2>8 DEF LockNext
<1> QED
  BY <1>1, <1>2, PTL DEF LockSpec

\* Initially nobody holds the lock, so the coupling holds.
LEMMA LockInitCoupled == LockInit => LockIInv
  BY LockAssumption DEF LockInit, LockIInv, LockTypeOK, HolderOwnsKey

\* When the pulse is on time, every step keeps the coupling of the key's life and
\* the holder's gap: the tick that would drop the key cannot come while its holder
\* lives.
LEMMA LockStepCoupled ==
  ASSUME PulseOnTime, LockIInv, LockTypeOK', [LockNext]_lockVars
  PROVE  LockIInv'
<1> USE LockAssumption DEF LockIInv, LockTypeOK, HolderOwnsKey
<1>1. ASSUME NEW w \in Worker, Acquire(w)
      PROVE  HolderOwnsKey'
  <2>1. holding = {}
    BY <1>1 DEF Acquire, KeyExists
  <2> QED
    BY <1>1, <2>1 DEF Acquire
<1>2. ASSUME NEW w \in Worker, Refused(w) \/ Busy(w)
      PROVE  HolderOwnsKey'
  BY <1>2 DEF Refused, Busy
<1>3. ASSUME NEW w \in Worker, Extend(w)
      PROVE  HolderOwnsKey'
  <2>1. key = w /\ ttl' = LockTtl /\ key' = key /\ holding' = holding
    BY <1>3 DEF Extend
  <2>2. gap'[w] = 0
    BY <1>3 DEF Extend
  <2>3. \A v \in holding' : v = w
    BY <2>1
  <2> QED
    BY <2>1, <2>2, <2>3
<1>4. ASSUME NEW w \in Worker, Release(w)
      PROVE  HolderOwnsKey'
  <2>1. \A v \in holding : v = w
    BY <1>4 DEF Release
  <2>2. holding' = {}
    BY <1>4, <2>1 DEF Release
  <2> QED
    BY <2>2
<1>5. ASSUME NEW w \in Worker, Die(w)
      PROVE  HolderOwnsKey'
  BY <1>5 DEF Die
<1>6. CASE LockTick
  <2> SUFFICES ASSUME NEW w \in holding'
               PROVE  key' = w /\ ttl' + gap'[w] = LockTtl
    OBVIOUS
  <2>1. w \in holding /\ w \in Worker /\ key = w /\ ttl + gap[w] = LockTtl
    BY <1>6 DEF LockTick
  <2>2. gap[w] < PulseGap /\ gap[w] \in Nat /\ ttl \in Nat
    BY <1>6, <2>1 DEF LockTick
  <2>3. ttl > 1
    BY <2>1, <2>2 DEF PulseOnTime
  <2> QED
    BY <1>6, <2>1, <2>2, <2>3 DEF LockTick
<1>7. CASE UNCHANGED lockVars
  BY <1>7 DEF lockVars
<1> QED
  BY <1>1, <1>2, <1>3, <1>4, <1>5, <1>6, <1>7 DEF LockNext

\* A worker inside the pipeline always finds its own token in Redis, with the life
\* left that its last extend leaves (pipeline.py:653, locks.py:76).
THEOREM HolderAlwaysOwnsKey ==
  ASSUME PulseOnTime
  PROVE  LockSpec => []HolderOwnsKey
<1>1. LockInit => LockIInv
  BY LockInitCoupled
<1>2. LockIInv /\ LockTypeOK' /\ [LockNext]_lockVars => LockIInv'
  BY LockStepCoupled
<1>3. LockIInv => HolderOwnsKey
  BY DEF LockIInv
<1> QED
  BY <1>1, <1>2, <1>3, LockTypeCorrect, PTL DEF LockSpec

\* With a pulse that comes before the key's life is over, the event's pipeline is
\* exclusive.
THEOREM LockIsExclusive ==
  ASSUME PulseOnTime
  PROVE  LockSpec => []Exclusive
<1>1. HolderOwnsKey => Exclusive
  BY DEF HolderOwnsKey, Exclusive
<1> QED
  BY <1>1, HolderAlwaysOwnsKey, PTL

\* Redis keeps the key exactly while some of its life is left.
KeyLife == KeyExists <=> ttl > 0

\* The key is in Redis exactly while some of its life is left, for every history
\* and all delays.
LEMMA KeyLivesWithTtl == LockSpec => []KeyLife
<1>1. LockInit => KeyLife
  BY DEF LockInit, KeyLife, KeyExists
<1>2. LockTypeOK /\ KeyLife /\ [LockNext]_lockVars => KeyLife'
  <2> SUFFICES ASSUME LockTypeOK, KeyLife, [LockNext]_lockVars
               PROVE  KeyLife'
    OBVIOUS
  <2> USE LockAssumption DEF LockTypeOK, KeyLife, KeyExists
  <2>1. ASSUME NEW w \in Worker, Acquire(w)
        PROVE  KeyLife'
    BY <2>1 DEF Acquire
  <2>2. ASSUME NEW w \in Worker, Refused(w) \/ Busy(w) \/ Die(w)
        PROVE  KeyLife'
    BY <2>2 DEF Refused, Busy, Die
  <2>3. ASSUME NEW w \in Worker, Extend(w)
        PROVE  KeyLife'
    BY <2>3 DEF Extend
  <2>4. ASSUME NEW w \in Worker, Release(w)
        PROVE  KeyLife'
    BY <2>4 DEF Release
  <2>5. CASE LockTick
    BY <2>5 DEF LockTick
  <2>6. CASE UNCHANGED lockVars
    BY <2>6 DEF lockVars
  <2> QED
    BY <2>1, <2>2, <2>3, <2>4, <2>5, <2>6 DEF LockNext
<1> QED
  BY <1>1, <1>2, LockTypeCorrect, PTL DEF LockSpec

\* No run deletes or prolongs a key that holds the token of another run, on time or
\* late: the compare scripts of locks.py for every history.
THEOREM LockScriptsCompare == LockSpec => OthersKeyUntouched
<1> DEFINE Guarded == /\ KeyExists /\ key' # key =>
                            (ttl = 1 /\ UNCHANGED holding) \/ key \notin holding'
                      /\ ttl' > ttl => key' \in holding' /\ gap'[key'] = 0
<1>1. LockTypeOK /\ KeyLife /\ [LockNext]_lockVars => [Guarded]_lockVars
  <2> SUFFICES ASSUME LockTypeOK, KeyLife, LockNext
               PROVE  Guarded
    OBVIOUS
  <2> USE LockAssumption DEF LockTypeOK
  <2>1. ASSUME NEW w \in Worker, Acquire(w)
        PROVE  Guarded
    BY <2>1 DEF Acquire
  <2>2. ASSUME NEW w \in Worker, Refused(w) \/ Busy(w) \/ Die(w)
        PROVE  Guarded
    BY <2>2 DEF Refused, Busy, Die
  <2>3. ASSUME NEW w \in Worker, Extend(w)
        PROVE  Guarded
    BY <2>3 DEF Extend
  <2>4. ASSUME NEW w \in Worker, Release(w)
        PROVE  Guarded
    BY <2>4 DEF Release
  <2>5. CASE LockTick
    BY <2>5 DEF LockTick, KeyLife, KeyExists
  <2> QED
    BY <2>1, <2>2, <2>3, <2>4, <2>5 DEF LockNext
<1> QED
  BY <1>1, LockTypeCorrect, KeyLivesWithTtl, PTL DEF LockSpec, OthersKeyUntouched

\* The lock implements the exclusion it is there for: the workers between acquire
\* and release behave as Exclusion says.
THEOREM LockImplementsExclusion ==
  ASSUME PulseOnTime
  PROVE  LockSpec => PipelineExclusion
<1>1. LockInit => Pipeline!Init
  BY DEF LockInit, Pipeline!Init
<1>2. LockTypeOK /\ HolderOwnsKey /\ [LockNext]_lockVars => [Pipeline!Next]_holding
  <2> SUFFICES ASSUME LockTypeOK, HolderOwnsKey, [LockNext]_lockVars
               PROVE  [Pipeline!Next]_holding
    OBVIOUS
  <2> USE LockAssumption DEF LockTypeOK, HolderOwnsKey
  <2>1. ASSUME NEW w \in Worker, Acquire(w)
        PROVE  Pipeline!Enter(w)
    <3>1. holding = {}
      BY <2>1 DEF Acquire, KeyExists
    <3> QED
      BY <2>1, <3>1 DEF Acquire, Pipeline!Enter
  <2>2. ASSUME NEW w \in Worker, Refused(w) \/ Busy(w) \/ Extend(w)
        PROVE  UNCHANGED holding
    BY <2>2 DEF Refused, Busy, Extend
  <2>3. ASSUME NEW w \in Worker, Release(w)
        PROVE  Pipeline!Leave(w)
    BY <2>3 DEF Release, Pipeline!Leave
  <2>4. ASSUME NEW w \in Worker, Die(w)
        PROVE  Pipeline!Leave(w) \/ UNCHANGED holding
    BY <2>4 DEF Die, Pipeline!Leave
  <2>5. CASE LockTick \/ UNCHANGED lockVars
    BY <2>5 DEF LockTick, lockVars
  <2> QED
    BY <2>1, <2>2, <2>3, <2>4, <2>5 DEF LockNext, Pipeline!Next
<1> QED
  BY <1>1, <1>2, LockTypeCorrect, HolderAlwaysOwnsKey, PTL
     DEF LockSpec, PipelineExclusion, Pipeline!Spec

-----------------------------------------------------------------------------
(* The jobs of an event. *)

\* The lock of a run is a FaceLock: FaceJobs drives it only by that module's actions.
THEOREM JobsImplementLock == Spec => LockSpec
<1>1. Init => LockInit
  BY DEF Init
<1>2. [Next]_vars => [LockNext]_lockVars
  <2> SUFFICES ASSUME [Next]_vars
               PROVE  [LockNext]_lockVars
    OBVIOUS
  <2>1. ASSUME NEW p \in Photo, PhotoStep(p)
        PROVE  UNCHANGED lockVars
    BY <2>1 DEF PhotoStep, ProxyStep, UploadReads, Upload, ProxyStarts, ProxyDone,
                ProxyCounts, ProxyWrites, unchangedByPhoto
  <2>2. ASSUME NEW c \in Click, ClickStep(c)
        PROVE  UNCHANGED lockVars
    BY <2>2 DEF ClickStep, StartCheck, StartCommit, StartMark, StartEnqueue, StartDies,
                unchangedByClick
  <2>3. ASSUME NEW w \in Worker, WorkerStep(w)
        PROVE  [LockNext]_lockVars
    <3>1. CASE \E n \in 0..MaxRetries : Deliver(w, n)
      BY <3>1 DEF Deliver
    <3>2. CASE JobAcquires(w) \/ JobRefused(w) \/ JobBusy(w)
      BY <3>2 DEF JobAcquires, JobRefused, JobBusy, LockNext
    <3>3. CASE JobLoads(w) \/ JobClusters(w) \/ JobCounts(w) \/ JobWrites(w)
      BY <3>3 DEF JobLoads, JobClusters, JobCounts, JobWrites
    <3>4. CASE \E p \in Photo : JobSkips(w, p) \/ JobStores(w, p)
      BY <3>4 DEF JobSkips, JobStores, LockNext
    <3>5. CASE JobFinishes(w) \/ JobPulse(w)
      BY <3>5 DEF JobFinishes, JobPulse, LockNext
    <3>6. CASE JobReleases(w) \/ ClusteringBusy(w) \/ JobFails(w)
      BY <3>6 DEF JobReleases, ClusteringBusy, JobFails, LockNext
    <3>7. CASE WorkerDies(w)
      BY <3>7 DEF WorkerDies, LockNext
    <3> QED
      BY <2>3, <3>1, <3>2, <3>3, <3>4, <3>5, <3>6, <3>7 DEF WorkerStep, JobStep
  <2>4. ASSUME NEW t \in Ticker, TickerStep(t) \/ TickDies(t)
        PROVE  UNCHANGED lockVars
    BY <2>4 DEF TickerStep, TickLoads, TickMisses, TickMarks, TickHealthy, TickDecides,
                TickClaims, TickCounts, TickReverts, TickRecovers, TickDies,
                unchangedByTicker
  <2>5. CASE Tick
    BY <2>5 DEF Tick, LockNext
  <2>6. CASE UNCHANGED vars
    BY <2>6 DEF vars
  <2> QED
    BY <2>1, <2>2, <2>3, <2>4, <2>5, <2>6 DEF Next
<1> QED
  BY <1>1, <1>2, PTL DEF Spec, LockSpec

\* Nothing has happened to the event yet: every variable has its type.
LEMMA JobInitTyped == Init => JobTypeOK
<1> SUFFICES ASSUME Init PROVE JobTypeOK
  OBVIOUS
<1>1. /\ pc \in [Worker -> Steps] /\ retries \in [Worker -> 0..MaxRetries]
      /\ todo \in [Worker -> SUBSET Photo] /\ cur \in [Worker -> Photo \cup {NoPhoto}]
      /\ \A w \in Worker : pc[w] = "storing" => cur[w] \in Photo
      /\ seen \in [Worker -> Status \cup {NoWrite}]
  BY FaceJobsAssumption DEF Init, Steps
<1>2. /\ task \in [Photo -> {"none", "arriving", "queued", "running", "proxied", "counted",
                              "over"}]
      /\ read \in [Photo -> Status \cup {NoWrite}]
      /\ done \subseteq Photo /\ rows \in [Photo -> Nat] /\ raced \in BOOLEAN
      /\ status \in Status
  BY DEF Init, Status
<1> QED
  BY <1>1, <1>2, FaceJobsAssumption DEF Init, JobTypeOK, Never, Ages

\* A broker publish keeps the queue within its bound.
LEMMA EnqueueTyped ==
  ASSUME JobTypeOK, NEW n \in 0..MaxRetries, Enqueue(n)
  PROVE  jobs' \in [0..MaxRetries -> 0..MaxJobs]
  BY FaceJobsAssumption DEF JobTypeOK, Enqueue

\* Every step of a start request keeps the types.
LEMMA ClickTyped ==
  ASSUME JobTypeOK, NEW c \in Click, ClickStep(c)
  PROVE  JobTypeOK'
<1> USE FaceJobsAssumption DEF JobTypeOK, unchangedByClick, photoVars, runVars, watchVars
<1>1. CASE StartCheck(c)
  BY <1>1 DEF StartCheck
<1>2. CASE StartCommit(c)
  BY <1>2 DEF StartCommit, Ages, Status
<1>3. CASE StartMark(c)
  BY <1>3 DEF StartMark, Ages, Never
<1>4. CASE StartEnqueue(c)
  BY <1>4, EnqueueTyped DEF StartEnqueue
<1>5. CASE StartDies(c)
  BY <1>5 DEF StartDies, Fault, Ages
<1> QED
  BY <1>1, <1>2, <1>3, <1>4, <1>5 DEF ClickStep

\* What a finished task leaves of the worker has the types of an idle one.
LEMMA ForgetsTyped ==
  ASSUME JobTypeOK, NEW w \in Worker, Forgets(w)
  PROVE  /\ pc' \in [Worker -> Steps]
         /\ retries' \in [Worker -> 0..MaxRetries]
         /\ todo' \in [Worker -> SUBSET Photo]
         /\ cur' \in [Worker -> Photo \cup {NoPhoto}]
         /\ seen' \in [Worker -> Status \cup {NoWrite}]
         /\ \A v \in Worker : pc'[v] = "storing" => cur'[v] \in Photo
  BY FaceJobsAssumption DEF JobTypeOK, Forgets, Steps

\* A retried message keeps the queue within its bound.
LEMMA RetryTyped ==
  ASSUME JobTypeOK, NEW w \in Worker, Retry(w)
  PROVE  jobs' \in [0..MaxRetries -> 0..MaxJobs]
<1>1. CASE retries[w] < MaxRetries
  <2>1. retries[w] + 1 \in 0..MaxRetries
    BY <1>1, FaceJobsAssumption DEF JobTypeOK
  <2> QED
    BY <1>1, <2>1, EnqueueTyped DEF Retry
<1>2. CASE ~(retries[w] < MaxRetries)
  BY <1>2 DEF Retry, JobTypeOK
<1> QED
  BY <1>1, <1>2

\* What a refresh computes is a status, or nothing to write.
LEMMA VerdictTyped ==
  ASSUME NEW previous
  PROVE  Verdict(previous) \in Status \cup {NoWrite}
  BY DEF Verdict, Computed, Status

\* Writing it leaves a status.
LEMMA WriteTyped ==
  ASSUME JobTypeOK, NEW verdict \in Status \cup {NoWrite}, Write(verdict)
  PROVE  status' \in Status
  BY DEF JobTypeOK, Write

\* Every step of an upload or a photo task keeps the types.
LEMMA PhotoTyped ==
  ASSUME JobTypeOK, NEW p \in Photo, PhotoStep(p)
  PROVE  JobTypeOK'
<1> USE DEF JobTypeOK, unchangedByPhoto, runVars, watchVars
<1>1. CASE UploadReads(p)
  BY <1>1 DEF UploadReads
<1>2. CASE Upload(p)
  <2>1. status' \in Status
    BY <1>2, WriteTyped DEF Upload, Status
  <2>2. raced' \in BOOLEAN
    BY <1>2, Zenon DEF Upload
  <2> QED
    BY <1>2, <2>1, <2>2 DEF Upload
<1>3. CASE ProxyStarts(p)
  BY <1>3 DEF ProxyStarts
<1>4. CASE ProxyDone(p)
  BY <1>4 DEF ProxyDone
<1>5. CASE ProxyCounts(p)
  BY <1>5, VerdictTyped DEF ProxyCounts
<1>6. CASE ProxyWrites(p)
  <2>1. status' \in Status
    BY <1>6, WriteTyped DEF ProxyWrites
  <2> QED
    BY <1>6, <2>1 DEF ProxyWrites
<1> QED
  BY <1>1, <1>2, <1>3, <1>4, <1>5, <1>6 DEF PhotoStep, ProxyStep

\* Every step of a worker keeps the types.
LEMMA WorkerTyped ==
  ASSUME JobTypeOK, NEW w \in Worker, WorkerStep(w)
  PROVE  JobTypeOK'
<1> USE FaceJobsAssumption DEF JobTypeOK, unchangedByRun, photoVars, runVars, watchVars
<1>1. ASSUME NEW n \in 0..MaxRetries, Deliver(w, n)
      PROVE  JobTypeOK'
  BY <1>1 DEF Deliver, Goes, Steps
<1>2. CASE JobAcquires(w)
  BY <1>2 DEF JobAcquires, Goes, Steps, Working
<1>3. CASE JobRefused(w)
  BY <1>3 DEF JobRefused, jobVars
<1>4. CASE JobBusy(w)
  BY <1>4, RetryTyped, ForgetsTyped DEF JobBusy
<1>5. CASE JobLoads(w)
  BY <1>5 DEF JobLoads, Pending, photos, Heartbeat, Ages, Never, Goes, Steps, Working
<1>6. ASSUME NEW p \in Photo, JobSkips(w, p)
      PROVE  JobTypeOK'
  BY <1>6 DEF JobSkips
<1>7. ASSUME NEW p \in Photo, JobStores(w, p)
      PROVE  JobTypeOK'
  BY <1>7 DEF JobStores, Goes, Steps, Working
<1>8. CASE JobFinishes(w)
  <2>1. pc' \in [Worker -> Steps]
    BY <1>8 DEF JobFinishes, Goes, Steps, Working
  <2>2. cur[w] \in Photo
    BY <1>8 DEF JobFinishes
  <2>3. done' \subseteq Photo
    BY <1>8, <2>2 DEF JobFinishes
  <2>4. cur' \in [Worker -> Photo \cup {NoPhoto}]
    BY <1>8 DEF JobFinishes
  <2>5. \A v \in Worker : pc'[v] = "storing" => cur'[v] \in Photo
    BY <1>8 DEF JobFinishes, Goes
  <2> QED
    BY <1>8, <2>1, <2>3, <2>4, <2>5 DEF JobFinishes
<1>9. CASE JobPulse(w)
  BY <1>9 DEF JobPulse, Heartbeat, Ages, Never
<1>10. CASE JobClusters(w) \/ JobReleases(w)
  <2>1. pc' \in [Worker -> Steps]
    BY <1>10 DEF JobClusters, JobReleases, Goes, Steps, Working
  <2>2. \A v \in Worker : pc'[v] = "storing" => cur'[v] \in Photo
    BY <1>10 DEF JobClusters, JobReleases, Goes
  <2> QED
    BY <1>10, <2>1, <2>2 DEF JobClusters, JobReleases
<1>11. CASE ClusteringBusy(w)
  BY <1>11, RetryTyped, ForgetsTyped DEF ClusteringBusy
<1>12. CASE JobFails(w) \/ WorkerDies(w)
  <2>1. Forgets(w) /\ faults' \in 0..MaxFaults
    BY <1>12 DEF JobFails, WorkerDies, Fault
  <2> QED
    BY <1>12, <2>1, ForgetsTyped DEF JobFails, WorkerDies
<1>13. CASE JobCounts(w)
  BY <1>13, VerdictTyped DEF JobCounts, Goes, Steps
<1>14. CASE JobWrites(w)
  <2>1. status' \in Status
    BY <1>14, WriteTyped DEF JobWrites
  <2> QED
    BY <1>14, <2>1, ForgetsTyped DEF JobWrites
<1> QED
  BY <1>1, <1>2, <1>3, <1>4, <1>5, <1>6, <1>7, <1>8, <1>9, <1>10, <1>11, <1>12, <1>13, <1>14
     DEF WorkerStep, JobStep

\* Every step of a reconcile run keeps the types.
LEMMA TickerTyped ==
  ASSUME JobTypeOK, NEW t \in Ticker, TickerStep(t) \/ TickDies(t)
  PROVE  JobTypeOK'
<1> DEFINE Steps0 == {"idle", "loaded", "unwatched", "marked", "giveup", "claimed",
                      "toReady", "toUploading", "recover"}
<1> USE FaceJobsAssumption DEF JobTypeOK, unchangedByTicker, photoVars, runVars, watchVars
<1>0. ASSUME NEW step \in Steps0, Goto(t, step)
      PROVE  tick' \in [Ticker -> Steps0] /\ sinceStart' \in Ages
  BY <1>0 DEF Goto, Ages
<1>1. CASE TickLoads(t)
  BY <1>0, <1>1 DEF TickLoads
<1>2. CASE TickMisses(t)
  BY <1>0, <1>2 DEF TickMisses
<1>3. CASE TickHealthy(t)
  BY <1>0, <1>3 DEF TickHealthy
<1>4. CASE TickDecides(t)
  BY <1>0, <1>4 DEF TickDecides
<1>5. CASE TickCounts(t)
  BY <1>0, <1>5 DEF TickCounts
<1>6. CASE TickMarks(t)
  BY <1>0, <1>6 DEF TickMarks, Never
<1>7. CASE TickClaims(t)
  BY <1>0, <1>7 DEF TickClaims
<1>8. CASE TickReverts(t)
  BY <1>0, <1>8 DEF TickReverts, Status
<1>9. CASE TickRecovers(t)
  <2>1. jobs' \in [0..MaxRetries -> 0..MaxJobs]
    BY <1>9, EnqueueTyped DEF TickRecovers
  <2>2. requeue' \in 0..Debounce
    BY <1>9 DEF TickRecovers
  <2> QED
    BY <1>0, <1>9, <2>1, <2>2 DEF TickRecovers
<1>10. CASE TickDies(t)
  BY <1>0, <1>10 DEF TickDies, Fault
<1> QED
  BY <1>1, <1>2, <1>3, <1>4, <1>5, <1>6, <1>7, <1>8, <1>9, <1>10 DEF TickerStep

\* Every step keeps the types of the variables FaceJobs adds to the lock.
LEMMA JobStepTyped ==
  ASSUME JobTypeOK, [Next]_vars
  PROVE  JobTypeOK'
<1>1. ASSUME NEW p \in Photo, PhotoStep(p)
      PROVE  JobTypeOK'
  BY <1>1, PhotoTyped
<1>2. ASSUME NEW c \in Click, ClickStep(c)
      PROVE  JobTypeOK'
  BY <1>2, ClickTyped
<1>3. ASSUME NEW w \in Worker, WorkerStep(w)
      PROVE  JobTypeOK'
  BY <1>3, WorkerTyped
<1>4. ASSUME NEW t \in Ticker, TickerStep(t) \/ TickDies(t)
      PROVE  JobTypeOK'
  BY <1>4, TickerTyped
<1>5. CASE Tick
  <2> USE FaceJobsAssumption DEF JobTypeOK, Ages, Never, Older, Shorter, Tick
  <2>1. started' \in Ages /\ beat' \in Ages \cup {Never}
    BY <1>5
  <2>2. watchLife' \in 0..WatchTtl /\ giveUp' \in 0..WatchTtl /\ requeue' \in 0..Debounce
    BY <1>5
  <2>3. age' \in Ages /\ sinceStart' \in Ages
    BY <1>5
  <2> QED
    BY <1>5, <2>1, <2>2, <2>3 DEF photoVars, runVars
<1>6. CASE UNCHANGED vars
  BY <1>6 DEF vars, jobVars, photoVars, runVars, watchVars, JobTypeOK
<1> QED
  BY <1>1, <1>2, <1>3, <1>4, <1>5, <1>6 DEF Next

\* Every variable keeps its type, for all photos, workers, requests and delays.
THEOREM TypeCorrect == Spec => []TypeOK
<1>1. Spec => []LockTypeOK
  BY JobsImplementLock, LockTypeCorrect, PTL
<1>2. Init => JobTypeOK
  BY JobInitTyped
<1>3. JobTypeOK /\ [Next]_vars => JobTypeOK'
  BY JobStepTyped
<1>4. LockTypeOK /\ JobTypeOK <=> TypeOK
  BY DEF TypeOK
<1> QED
  BY <1>1, <1>2, <1>3, <1>4, PTL DEF Spec

-----------------------------------------------------------------------------

\* A run works exactly while it holds the event's lock.
WorkingHolds == \A w \in Worker : w \in holding <=> pc[w] \in Working

\* Every step keeps work and lock together.
LEMMA StepKeepsWorkingHolds ==
  ASSUME JobTypeOK, WorkingHolds, [Next]_vars
  PROVE  WorkingHolds'
<1> USE DEF WorkingHolds, JobTypeOK
<1>1. ASSUME NEW p \in Photo, PhotoStep(p)
      PROVE  UNCHANGED <<holding, pc>>
  BY <1>1 DEF PhotoStep, ProxyStep, UploadReads, Upload, ProxyStarts, ProxyDone, ProxyCounts,
              ProxyWrites, unchangedByPhoto, lockVars, runVars
<1>2. ASSUME NEW c \in Click, ClickStep(c)
      PROVE  UNCHANGED <<holding, pc>>
  BY <1>2 DEF ClickStep, StartCheck, StartCommit, StartMark, StartEnqueue, StartDies,
              unchangedByClick, lockVars, runVars
<1>3. ASSUME NEW w \in Worker, WorkerStep(w)
      PROVE  WorkingHolds'
  <2> USE DEF Goes, Forgets, Working
  <2>1. CASE \E n \in 0..MaxRetries : Deliver(w, n)
    BY <2>1 DEF Deliver, lockVars
  <2>2. CASE JobAcquires(w)
    BY <2>2 DEF JobAcquires, Acquire
  <2>3. CASE JobRefused(w)
    BY <2>3 DEF JobRefused, Refused, jobVars, runVars
  <2>4. CASE JobBusy(w)
    BY <2>4 DEF JobBusy, Busy
  <2>5. CASE JobLoads(w) \/ JobClusters(w)
    BY <2>5 DEF JobLoads, JobClusters, lockVars
  <2>6. CASE \E p \in Photo : JobSkips(w, p)
    BY <2>6 DEF JobSkips, Extend
  <2>7. CASE \E p \in Photo : JobStores(w, p)
    BY <2>7 DEF JobStores, lockVars
  <2>8. CASE JobFinishes(w)
    BY <2>8 DEF JobFinishes, Extend
  <2>9. CASE JobPulse(w)
    BY <2>9 DEF JobPulse, Extend, runVars
  <2>10. CASE JobReleases(w)
    BY <2>10 DEF JobReleases, Release
  <2>11. CASE ClusteringBusy(w) \/ JobFails(w)
    BY <2>11 DEF ClusteringBusy, JobFails, Release
  <2>12. CASE JobCounts(w) \/ JobWrites(w)
    BY <2>12 DEF JobCounts, JobWrites, lockVars
  <2>13. CASE WorkerDies(w)
    <3>1. CASE w \in holding \/ attempt[w] > 0
      BY <2>13, <3>1 DEF WorkerDies, Die
    <3>2. CASE ~(w \in holding \/ attempt[w] > 0)
      BY <2>13, <3>2 DEF WorkerDies, lockVars
    <3> QED
      BY <3>1, <3>2
  <2> QED
    BY <1>3, <2>1, <2>2, <2>3, <2>4, <2>5, <2>6, <2>7, <2>8, <2>9, <2>10, <2>11, <2>12,
       <2>13 DEF WorkerStep, JobStep
<1>4. ASSUME NEW t \in Ticker, TickerStep(t) \/ TickDies(t)
      PROVE  UNCHANGED <<holding, pc>>
  BY <1>4 DEF TickerStep, TickLoads, TickMisses, TickMarks, TickHealthy, TickDecides,
              TickClaims, TickCounts, TickReverts, TickRecovers, TickDies, unchangedByTicker,
              lockVars, runVars
<1>5. CASE Tick \/ UNCHANGED vars
  BY <1>5 DEF Tick, LockTick, vars, jobVars, lockVars, runVars
<1> QED
  BY <1>1, <1>2, <1>3, <1>4, <1>5 DEF Next

\* A run works exactly while it holds the lock, in every reachable state.
LEMMA RunsWorkUnderLock == Spec => []WorkingHolds
<1>1. Init => WorkingHolds
  BY DEF Init, LockInit, WorkingHolds, Working
<1>2. TypeOK => JobTypeOK
  BY DEF TypeOK
<1> QED
  BY <1>1, <1>2, StepKeepsWorkingHolds, TypeCorrect, PTL DEF Spec

\* When the pulse is on time, two runs of one event never work at once, however many
\* messages the clicks, the retries and the reconciler enqueued (pipeline.py:283).
THEOREM RunsAreExclusive ==
  ASSUME PulseOnTime
  PROVE  Spec => []RunsExclusive
<1>1. WorkingHolds /\ Exclusive => RunsExclusive
  BY DEF WorkingHolds, Exclusive, RunsExclusive
<1>2. Spec => []Exclusive
  BY JobsImplementLock, LockIsExclusive, PTL
<1> QED
  BY <1>1, <1>2, RunsWorkUnderLock, PTL

-----------------------------------------------------------------------------

\* Some run has inserted the rows of p and has not marked p processed yet.
Storing(p) == \E w \in Worker : pc[w] = "storing" /\ cur[w] = p

\* What a run loaded and has not handled is still pending, the photo between its two
\* commits included; and a photo nobody is storing has a row for each fault at most
\* while it is pending.
Loaded      == {"scanning", "storing", "clustering"}
TodoPending == \A w \in Worker : pc[w] \in Loaded => todo[w] \cap done = {}
CurPending  == \A w \in Worker : pc[w] = "storing" => cur[w] \notin done \cup todo[w]
RowsBound   == \A p \in Photo : /\ rows[p] <= 1 + faults
                                /\ p \notin done /\ ~Storing(p) => rows[p] <= faults
RowsInv     == TodoPending /\ CurPending /\ RowsBound

\* A step that leaves the worker's lists, the done photos, the rows and the faults alone
\* keeps the bound; so does one that only counts a fault.
LEMMA RowsUntouched ==
  ASSUME JobTypeOK, RowsInv,
         UNCHANGED <<pc, todo, cur, done, rows>>, faults' \in {faults, faults + 1}
  PROVE  RowsInv'
<1>1. faults \in Nat /\ \A p \in Photo : rows[p] \in Nat
  BY DEF JobTypeOK
<1> QED
  BY <1>1 DEF RowsInv, TodoPending, CurPending, RowsBound, Storing

\* A worker that was not storing gives up its task, or goes on to another step without
\* touching photos: the bound holds as before.
LEMMA RowsOtherSteps ==
  ASSUME JobTypeOK, RowsInv, NEW w \in Worker, pc[w] # "storing",
         UNCHANGED <<done, rows>>, faults' \in {faults, faults + 1},
         \/ UNCHANGED <<todo, cur>> /\ \E s \in {"acquiring", "loading", "updating", "writing"} : Goes(w, s)
         \/ UNCHANGED <<todo, cur>> /\ pc[w] = "scanning" /\ Goes(w, "clustering")
         \/ Forgets(w)
  PROVE  RowsInv'
<1> USE DEF JobTypeOK
<1>1. faults \in Nat /\ \A p \in Photo : rows[p] \in Nat
  OBVIOUS
<1>2. \A v \in Worker : pc'[v] = "storing" <=> pc[v] = "storing"
  BY DEF Goes, Forgets
<1>3. \A v \in Worker \ {w} : pc'[v] = pc[v] /\ todo'[v] = todo[v] /\ cur'[v] = cur[v]
  BY DEF Goes, Forgets
<1>4. \A p \in Photo : Storing(p)' <=> Storing(p)
  BY <1>2, <1>3 DEF Storing
<1>5. RowsBound'
  BY <1>1, <1>4 DEF RowsInv, RowsBound
<1>6. CurPending'
  BY <1>2, <1>3 DEF RowsInv, CurPending
<1>7. pc'[w] \in Loaded => todo'[w] = todo[w] /\ pc[w] \in Loaded
  BY DEF Goes, Forgets, Loaded
<1>8. TodoPending'
  BY <1>3, <1>7 DEF RowsInv, TodoPending
<1> QED
  BY <1>5, <1>6, <1>8 DEF RowsInv

\* Loading takes only photos that are still pending.
LEMMA RowsLoads ==
  ASSUME JobTypeOK, RowsInv, NEW w \in Worker, JobLoads(w)
  PROVE  RowsInv'
<1> USE DEF JobTypeOK, JobLoads, Goes
<1>1. todo' = [todo EXCEPT ![w] = Pending] /\ UNCHANGED <<done, cur, rows, faults>>
  OBVIOUS
<1>2. \A p \in Photo : Storing(p)' <=> Storing(p)
  BY <1>1 DEF Storing
<1>3. RowsBound'
  BY <1>1, <1>2 DEF RowsInv, RowsBound
<1>4. TodoPending' /\ CurPending'
  BY <1>1 DEF RowsInv, TodoPending, CurPending, Pending, photos, Loaded
<1> QED
  BY <1>3, <1>4 DEF RowsInv

\* The run that handles a photo is alone, so no other list can hold the photo.
LEMMA RowsHandles ==
  ASSUME JobTypeOK, RowsInv, RunsExclusive, NEW w \in Worker,
         \/ \E p \in Photo : JobSkips(w, p) \/ JobStores(w, p)
         \/ JobFinishes(w)
  PROVE  RowsInv'
<1> USE DEF JobTypeOK
<1>1. pc[w] \in Working
  BY DEF JobSkips, JobStores, JobFinishes, Working
<1>2. \A v \in Worker \ {w} : pc[v] \notin Working
  BY <1>1 DEF RunsExclusive
<1>3. \A v \in Worker \ {w} : pc'[v] = pc[v]
  BY DEF JobSkips, JobStores, JobFinishes, Goes
<1>4. faults' = faults /\ faults \in Nat /\ \A p \in Photo : rows[p] \in Nat
  BY DEF JobSkips, JobStores, JobFinishes
<1>5. \A v \in Worker : pc'[v] \in Loaded => v = w
  BY <1>2, <1>3 DEF Loaded, Working
<1>6. ASSUME NEW p \in Photo, JobSkips(w, p)
      PROVE  RowsInv'
  <2>1. /\ pc' = pc /\ pc[w] = "scanning" /\ cur' = cur /\ rows' = rows
        /\ done' = done \cup {p} /\ p \in todo[w]
        /\ todo' = [todo EXCEPT ![w] = @ \ {p}]
    BY <1>6 DEF JobSkips
  <2>2. RowsBound'
    BY <1>4, <2>1 DEF RowsInv, RowsBound, Storing
  <2>3. TodoPending' /\ CurPending'
    BY <1>5, <2>1 DEF RowsInv, TodoPending, CurPending, Loaded
  <2> QED
    BY <2>2, <2>3 DEF RowsInv
<1>7. ASSUME NEW p \in Photo, JobStores(w, p)
      PROVE  RowsInv'
  <2>1. /\ pc' = [pc EXCEPT ![w] = "storing"] /\ pc[w] = "scanning" /\ done' = done
        /\ cur' = [cur EXCEPT ![w] = p] /\ p \in todo[w]
        /\ rows' = [rows EXCEPT ![p] = @ + 1]
        /\ todo' = [todo EXCEPT ![w] = @ \ {p}]
    BY <1>7 DEF JobStores, Goes
  <2>2. p \notin done
    BY <2>1 DEF RowsInv, TodoPending, Loaded
  <2>3. \A v \in Worker : pc[v] # "storing"
    BY <1>2, <2>1 DEF Working
  <2>4. rows[p] <= faults
    BY <2>2, <2>3 DEF RowsInv, RowsBound, Storing
  <2>5. Storing(p)'
    BY <2>1 DEF Storing
  <2>6. \A q \in Photo \ {p} : rows'[q] = rows[q] /\ ~Storing(q)
    BY <2>1, <2>3 DEF Storing
  <2>7. RowsBound'
    BY <1>4, <2>1, <2>4, <2>5, <2>6 DEF RowsInv, RowsBound
  <2>8. TodoPending' /\ CurPending'
    BY <1>5, <2>1, <2>2 DEF RowsInv, TodoPending, CurPending, Loaded
  <2> QED
    BY <2>7, <2>8 DEF RowsInv
<1>8. CASE JobFinishes(w)
  <2>1. /\ pc' = [pc EXCEPT ![w] = "scanning"] /\ pc[w] = "storing"
        /\ done' = done \cup {cur[w]} /\ todo' = todo /\ rows' = rows
    BY <1>8 DEF JobFinishes, Goes
  <2>2. todo[w] \cap done' = {}
    BY <2>1 DEF RowsInv, TodoPending, CurPending, Loaded
  <2>3. \A p \in Photo : p \notin done' /\ ~Storing(p)' => ~Storing(p)
    BY <1>2, <2>1 DEF Storing, Working
  <2>4. RowsBound'
    BY <1>4, <2>1, <2>3 DEF RowsInv, RowsBound
  <2>5. TodoPending' /\ CurPending'
    BY <1>5, <2>1, <2>2 DEF TodoPending, CurPending, Loaded
  <2> QED
    BY <2>4, <2>5 DEF RowsInv
<1> QED
  BY <1>6, <1>7, <1>8

\* A run that dies or fails, between the two commits of a photo or elsewhere, pays for
\* the row it may leave behind with a fault.
LEMMA RowsAborts ==
  ASSUME JobTypeOK, RowsInv, NEW w \in Worker, JobFails(w) \/ WorkerDies(w)
  PROVE  RowsInv'
<1> USE DEF JobTypeOK
<1>1. faults' = faults + 1 /\ rows' = rows /\ done' = done /\ Forgets(w)
  BY DEF JobFails, WorkerDies, Fault
<1>2. faults \in Nat /\ \A p \in Photo : rows[p] \in Nat
  OBVIOUS
<1>3. RowsBound'
  BY <1>1, <1>2 DEF RowsInv, RowsBound
<1>4. TodoPending' /\ CurPending'
  BY <1>1 DEF RowsInv, TodoPending, CurPending, Loaded, Forgets
<1> QED
  BY <1>3, <1>4 DEF RowsInv

\* Every step keeps the bound, as long as no two runs work at once.
LEMMA StepKeepsRows ==
  ASSUME JobTypeOK, RunsExclusive, RowsInv, [Next]_vars
  PROVE  RowsInv'
<1>1. ASSUME NEW p \in Photo, PhotoStep(p)
      PROVE  RowsInv'
  BY <1>1, RowsUntouched DEF PhotoStep, ProxyStep, UploadReads, Upload, ProxyStarts, ProxyDone,
              ProxyCounts, ProxyWrites, unchangedByPhoto, runVars
<1>2. ASSUME NEW c \in Click, ClickStep(c)
      PROVE  RowsInv'
  BY <1>2, RowsUntouched DEF ClickStep, StartCheck, StartCommit, StartMark, StartEnqueue,
              StartDies, Fault, unchangedByClick, runVars
<1>3. ASSUME NEW w \in Worker, WorkerStep(w)
      PROVE  RowsInv'
  <2>1. CASE \/ \E n \in 0..MaxRetries : Deliver(w, n)
             \/ JobAcquires(w) \/ JobReleases(w)
    BY <2>1, RowsOtherSteps DEF Deliver, JobAcquires, JobReleases
  <2>2. CASE JobClusters(w)
    BY <2>2, RowsOtherSteps DEF JobClusters
  <2>3. CASE JobBusy(w) \/ ClusteringBusy(w) \/ JobCounts(w) \/ JobWrites(w)
    BY <2>3, RowsOtherSteps DEF JobBusy, ClusteringBusy, JobCounts, JobWrites
  <2>4. CASE JobRefused(w) \/ JobPulse(w)
    BY <2>4, RowsUntouched DEF JobRefused, JobPulse, jobVars, runVars
  <2>5. CASE JobLoads(w)
    BY <2>5, RowsLoads
  <2>6. CASE (\E p \in Photo : JobSkips(w, p) \/ JobStores(w, p)) \/ JobFinishes(w)
    BY <2>6, RowsHandles
  <2>7. CASE JobFails(w) \/ WorkerDies(w)
    BY <2>7, RowsAborts
  <2> QED
    BY <1>3, <2>1, <2>2, <2>3, <2>4, <2>5, <2>6, <2>7 DEF WorkerStep, JobStep
<1>4. ASSUME NEW t \in Ticker, TickerStep(t) \/ TickDies(t)
      PROVE  RowsInv'
  <2>1. UNCHANGED <<pc, todo, cur, done, rows>> /\ faults' \in {faults, faults + 1}
    BY <1>4 DEF TickerStep, TickLoads, TickMisses, TickMarks, TickHealthy, TickDecides,
                TickClaims, TickCounts, TickReverts, TickRecovers, TickDies, Fault,
                unchangedByTicker, runVars
  <2> QED
    BY <2>1, RowsUntouched
<1>5. CASE Tick \/ UNCHANGED vars
  BY <1>5, RowsUntouched DEF Tick, vars, jobVars, runVars
<1> QED
  BY <1>1, <1>2, <1>3, <1>4, <1>5 DEF Next

\* The crops of a photo are stored once, and once more for each crash or failed run at
\* most: the pending list is loaded under the lock, and only its own run shortens it
\* (pipeline.py:312, 542, 603).
THEOREM RowsPerFaultBounded ==
  ASSUME PulseOnTime
  PROVE  Spec => []RowsPerFault
<1>1. Init => RowsInv
  BY FaceJobsAssumption DEF Init, RowsInv, TodoPending, CurPending, RowsBound, Loaded
<1>2. JobTypeOK /\ RunsExclusive /\ RowsInv /\ [Next]_vars => RowsInv'
  BY StepKeepsRows
<1>3. RowsInv => RowsPerFault
  BY DEF RowsInv, RowsBound, RowsPerFault
<1>4. TypeOK => JobTypeOK
  BY DEF TypeOK
<1> QED
  BY <1>1, <1>2, <1>3, <1>4, TypeCorrect, RunsAreExclusive, PTL DEF Spec

-----------------------------------------------------------------------------

\* The status is Ready, or some refresh has counted and is about to make it Ready.
WorkerPromises == \E w \in Worker : pc[w] = "writing" /\ seen[w] = "ready"
PhotoPromises  == \E q \in Photo : task[q] = "counted" /\ read[q] = "ready"
TickerPromises == \E t \in Ticker : tick[t] = "toReady"
ReadyPromised  == status = "ready" \/ WorkerPromises \/ PhotoPromises \/ TickerPromises

PromisesKept == ReadyPromised => Pending = {} \/ raced

\* A step that adds no photo, and makes no promise unless nothing is pending, keeps them.
LEMMA PromisesStay ==
  ASSUME PromisesKept, UNCHANGED <<task, raced>>, done \subseteq done',
         ReadyPromised' => ReadyPromised \/ Pending = {}
  PROVE  PromisesKept'
  BY DEF PromisesKept, Pending, photos

\* A refresh that computes READY has counted every photo as extracted.
LEMMA ReadyVerdict ==
  ASSUME NEW previous, Verdict(previous) = "ready"
  PROVE  Pending = {}
  BY DEF Verdict, Computed, Pending, NoWrite

\* Uploads and photo tasks keep the promises; an upload that breaks one has raced.
LEMMA PhotoPromisesKept ==
  ASSUME JobTypeOK, PromisesKept, NEW p \in Photo, PhotoStep(p)
  PROVE  PromisesKept'
<1> USE DEF JobTypeOK, unchangedByPhoto, runVars
<1>1. CASE Upload(p)
  <2>1. ~raced' => ~WorkerPromises /\ ~PhotoPromises /\ ~TickerPromises
    BY <1>1 DEF Upload, Overlaps, WorkerPromises, PhotoPromises, TickerPromises
  <2>2. ~raced' => status' # "ready"
    BY <1>1 DEF Upload, Overlaps, Write, NoWrite
  <2>3. WorkerPromises' <=> WorkerPromises
    BY <1>1 DEF Upload, WorkerPromises
  <2>4. TickerPromises' <=> TickerPromises
    BY <1>1 DEF Upload, TickerPromises
  <2>5. PhotoPromises' => PhotoPromises
    BY <1>1 DEF Upload, PhotoPromises
  <2> QED
    BY <2>1, <2>2, <2>3, <2>4, <2>5 DEF PromisesKept, ReadyPromised
<1>2. ASSUME UNCHANGED <<done, raced>>, photos' = photos,
             ReadyPromised' => ReadyPromised \/ Pending = {}
      PROVE  PromisesKept'
  BY <1>2 DEF PromisesKept, Pending
<1>3. CASE UploadReads(p) \/ ProxyStarts(p) \/ ProxyDone(p)
  <2>1. photos' = photos /\ UNCHANGED <<done, raced, status, pc, seen, tick>>
    BY <1>3 DEF UploadReads, ProxyStarts, ProxyDone, photos
  <2>2. PhotoPromises' => PhotoPromises
    BY <1>3 DEF UploadReads, ProxyStarts, ProxyDone, PhotoPromises
  <2> QED
    BY <1>2, <2>1, <2>2 DEF ReadyPromised, WorkerPromises, TickerPromises
<1>4. CASE ProxyCounts(p)
  <2>1. photos' = photos /\ UNCHANGED <<done, raced, status, pc, seen, tick>>
    BY <1>4 DEF ProxyCounts, photos
  <2>2. PhotoPromises' => PhotoPromises \/ Verdict(read[p]) = "ready"
    BY <1>4 DEF ProxyCounts, PhotoPromises
  <2> QED
    BY <1>2, <2>1, <2>2, ReadyVerdict DEF ReadyPromised, WorkerPromises, TickerPromises
<1>5. CASE ProxyWrites(p)
  <2>1. photos' = photos /\ UNCHANGED <<done, raced, pc, seen, tick>>
    BY <1>5 DEF ProxyWrites, photos
  <2>2. PhotoPromises' => PhotoPromises
    BY <1>5 DEF ProxyWrites, PhotoPromises
  <2>3. status' = "ready" => status = "ready" \/ PhotoPromises
    BY <1>5 DEF ProxyWrites, Write, PhotoPromises
  <2> QED
    BY <1>2, <2>1, <2>2, <2>3 DEF ReadyPromised, WorkerPromises, TickerPromises
<1> QED
  BY <1>1, <1>3, <1>4, <1>5 DEF PhotoStep, ProxyStep

\* Workers keep the promises: only a count makes one, and only a written one is gone.
LEMMA WorkerPromisesKept ==
  ASSUME JobTypeOK, PromisesKept, NEW w \in Worker, WorkerStep(w)
  PROVE  PromisesKept'
<1> USE DEF JobTypeOK, unchangedByRun, photoVars, runVars
<1>1. /\ UNCHANGED <<task, read, raced, tick>>
      /\ done \subseteq done'
  <2>1. CASE \E n \in 0..MaxRetries : Deliver(w, n)
    BY <2>1 DEF Deliver
  <2>2. CASE \E p \in Photo : JobSkips(w, p) \/ JobStores(w, p)
    BY <2>2 DEF JobSkips, JobStores
  <2>3. CASE JobAcquires(w) \/ JobRefused(w) \/ JobBusy(w) \/ JobLoads(w)
    BY <2>3 DEF JobAcquires, JobRefused, JobBusy, JobLoads, jobVars
  <2>4. CASE JobFinishes(w) \/ JobClusters(w) \/ JobReleases(w) \/ ClusteringBusy(w)
    BY <2>4 DEF JobFinishes, JobClusters, JobReleases, ClusteringBusy
  <2>5. CASE JobCounts(w) \/ JobWrites(w) \/ JobPulse(w) \/ JobFails(w) \/ WorkerDies(w)
    BY <2>5 DEF JobCounts, JobWrites, JobPulse, JobFails, WorkerDies
  <2> QED
    BY <2>1, <2>2, <2>3, <2>4, <2>5 DEF WorkerStep, JobStep
<1>2. SUFFICES /\ WorkerPromises' => WorkerPromises \/ Pending = {}
               /\ status' = "ready" => status = "ready" \/ WorkerPromises
  BY <1>1, PromisesStay DEF ReadyPromised, PhotoPromises, TickerPromises
<1>3. CASE JobCounts(w)
  <2>1. PICK previous : seen' = [seen EXCEPT ![w] = Verdict(previous)]
    BY <1>3 DEF JobCounts
  <2>2. WorkerPromises' => WorkerPromises \/ Verdict(previous) = "ready"
    BY <1>3, <2>1 DEF JobCounts, Goes, WorkerPromises
  <2>3. status' = status
    BY <1>3 DEF JobCounts
  <2> QED
    BY <2>2, <2>3, ReadyVerdict
<1>4. CASE JobWrites(w)
  <2>1. WorkerPromises' => WorkerPromises
    BY <1>4 DEF JobWrites, Forgets, WorkerPromises
  <2>2. status' = "ready" => status = "ready" \/ WorkerPromises
    BY <1>4 DEF JobWrites, Write, WorkerPromises
  <2> QED
    BY <2>1, <2>2
<1>5. ASSUME status' = status,
             \/ UNCHANGED <<pc, seen>>
             \/ Forgets(w)
             \/ \E s \in Steps \ {"writing"} : Goes(w, s) /\ seen' = seen
             \/ JobLoads(w)
      PROVE  (WorkerPromises' => WorkerPromises) /\ status' = status
  BY <1>5 DEF WorkerPromises, Forgets, Goes, JobLoads
<1>6. CASE \E n \in 0..MaxRetries : Deliver(w, n)
  BY <1>5, <1>6 DEF Deliver, Steps
<1>7. CASE \E p \in Photo : JobSkips(w, p) \/ JobStores(w, p)
  BY <1>5, <1>7 DEF JobSkips, JobStores, Steps, Working
<1>8. CASE JobAcquires(w) \/ JobRefused(w) \/ JobBusy(w) \/ JobLoads(w)
  BY <1>5, <1>8 DEF JobAcquires, JobRefused, JobBusy, JobLoads, jobVars, Steps, Working
<1>9. CASE JobFinishes(w) \/ JobClusters(w) \/ JobReleases(w) \/ ClusteringBusy(w)
  BY <1>5, <1>9 DEF JobFinishes, JobClusters, JobReleases, ClusteringBusy, Steps, Working
<1>10. CASE JobPulse(w) \/ JobFails(w) \/ WorkerDies(w)
  BY <1>5, <1>10 DEF JobPulse, JobFails, WorkerDies
<1> QED
  BY <1>3, <1>4, <1>6, <1>7, <1>8, <1>9, <1>10 DEF WorkerStep, JobStep

\* Reconcile runs keep the promises, since the count of a revert is kept like a refresh's.
LEMMA TickerPromisesKept ==
  ASSUME JobTypeOK, PromisesKept, NEW t \in Ticker, TickerStep(t) \/ TickDies(t)
  PROVE  PromisesKept'
<1> USE DEF JobTypeOK, unchangedByTicker, photoVars, runVars, Goto
<1>1. UNCHANGED <<task, read, raced, done, pc, seen>>
  BY DEF TickerStep, TickLoads, TickMisses, TickMarks, TickHealthy, TickDecides, TickClaims,
         TickCounts, TickReverts, TickRecovers, TickDies
<1>2. SUFFICES /\ TickerPromises' => TickerPromises \/ Pending = {}
               /\ status' = "ready" => status = "ready" \/ TickerPromises
  BY <1>1, PromisesStay DEF ReadyPromised, PhotoPromises, WorkerPromises
<1>3. CASE TickCounts(t)
  BY <1>3 DEF TickCounts, TickerPromises
<1>4. CASE TickReverts(t)
  BY <1>4 DEF TickReverts, TickerPromises
<1>5. CASE TickLoads(t) \/ TickMisses(t) \/ TickMarks(t) \/ TickHealthy(t) \/ TickDecides(t)
  BY <1>5 DEF TickLoads, TickMisses, TickMarks, TickHealthy, TickDecides, TickerPromises
<1>6. CASE TickClaims(t) \/ TickRecovers(t) \/ TickDies(t)
  BY <1>6 DEF TickClaims, TickRecovers, TickDies, TickerPromises
<1> QED
  BY <1>3, <1>4, <1>5, <1>6 DEF TickerStep

\* Every step keeps the promises.
LEMMA StepKeepsPromises ==
  ASSUME JobTypeOK, PromisesKept, [Next]_vars
  PROVE  PromisesKept'
<1>1. ASSUME NEW p \in Photo, PhotoStep(p)
      PROVE  PromisesKept'
  BY <1>1, PhotoPromisesKept
<1>2. ASSUME NEW c \in Click, ClickStep(c)
      PROVE  PromisesKept'
  <2>1. UNCHANGED <<task, read, raced, done, pc, seen, tick>>
    BY <1>2 DEF ClickStep, StartCheck, StartCommit, StartMark, StartEnqueue, StartDies,
                unchangedByClick, photoVars, runVars
  <2>2. status' = "ready" => status = "ready"
    BY <1>2 DEF ClickStep, StartCheck, StartCommit, StartMark, StartEnqueue, StartDies
  <2>3. ReadyPromised' => ReadyPromised
    BY <2>1, <2>2 DEF ReadyPromised, WorkerPromises, PhotoPromises, TickerPromises
  <2> QED
    BY <2>1, <2>3, PromisesStay
<1>3. ASSUME NEW w \in Worker, WorkerStep(w)
      PROVE  PromisesKept'
  BY <1>3, WorkerPromisesKept
<1>4. ASSUME NEW t \in Ticker, TickerStep(t) \/ TickDies(t)
      PROVE  PromisesKept'
  BY <1>4, TickerPromisesKept
<1>5. CASE Tick \/ UNCHANGED vars
  <2>1. UNCHANGED <<status, task, read, raced, done, pc, seen, tick>>
    BY <1>5 DEF Tick, vars, jobVars, photoVars, runVars
  <2> QED
    BY <2>1, PromisesStay DEF ReadyPromised, WorkerPromises, PhotoPromises, TickerPromises
<1> QED
  BY <1>1, <1>2, <1>3, <1>4, <1>5 DEF Next

\* For any photos, workers, requests, reconcile runs and delays, and with a lock that may
\* expire under its holder: Ready is shown too early only after an upload whose commit
\* overlapped a refresh (event_service.py:204-225, upload_service.py:109-131).
THEOREM ReadyIsHonest == Spec => []ReadyUnlessRaced
<1>1. Init => PromisesKept
  BY DEF Init, PromisesKept, ReadyPromised, WorkerPromises, PhotoPromises, TickerPromises
<1>2. JobTypeOK /\ PromisesKept /\ [Next]_vars => PromisesKept'
  BY StepKeepsPromises
<1>3. PromisesKept => ReadyUnlessRaced
  BY DEF PromisesKept, ReadyPromised, ReadyUnlessRaced
<1>4. TypeOK => JobTypeOK
  BY DEF TypeOK
<1> QED
  BY <1>1, <1>2, <1>3, <1>4, TypeCorrect, PTL DEF Spec

-----------------------------------------------------------------------------
(* The windows of a start and of an alert *)

timingVars == <<watchVars, giveUp, click, tick, sinceStart, alert>>

\* The alert of a silence is marked for as long as its watch lives, and a run that gives up
\* has a watch before it.
AlertInv ==
    /\ alert = "sent" => giveUp >= watchLife
    /\ \A t \in Ticker : tick[t] = "giveup" => watchLife > 0

Uncommitted == \A c \in Click : click[c] # "committed"
WatchAge    == IF beat # Never THEN beat ELSE started
Judges      == \E t \in Ticker : tick[t] \in Judging

\* A run that judges has crossed the start, or the start's window is over.  Otherwise the
\* watch of the last start is there and no older than the start.
WindowInv ==
    /\ Judges => sinceStart >= StallAfter
    /\ Uncommitted /\ sinceStart < StallAfter =>
          WatchAge <= sinceStart /\ watchLife + sinceStart >= WatchTtl

TimingInv == AlertInv /\ WindowInv

LEMMA TimingStays ==
  ASSUME TimingInv, UNCHANGED timingVars
  PROVE  TimingInv'
  BY DEF TimingInv, AlertInv, WindowInv, Judges, Uncommitted, WatchAge, timingVars, watchVars

\* A heartbeat starts the silence anew and keeps the watch alive.
LEMMA HeartbeatTimes ==
  ASSUME JobTypeOK, TimingInv, Heartbeat, UNCHANGED <<giveUp, click, tick, sinceStart>>
  PROVE  TimingInv'
<1> USE FaceJobsAssumption DEF JobTypeOK, Ages, Never
<1>1. watchLife' = WatchTtl /\ beat' = 0 /\ alert' = "none" /\ WatchTtl > 0
  BY DEF Heartbeat
<1>2. AlertInv'
  BY <1>1 DEF AlertInv
<1>3. WatchAge' = 0
  BY <1>1 DEF WatchAge
<1>4. WindowInv'
  BY <1>1, <1>3 DEF TimingInv, WindowInv, Judges, Uncommitted
<1> QED
  BY <1>2, <1>4 DEF TimingInv

\* A watch that is written over, as old as a, gives up no earlier than the last one.
LEMMA MarkTimes ==
  ASSUME JobTypeOK, NEW a \in Ages, started' = a, beat' = Never, watchLife' = WatchTtl, alert' = "none"
  PROVE  AlertInv' /\ WatchAge' = a /\ watchLife' + sinceStart >= WatchTtl
  BY FaceJobsAssumption DEF JobTypeOK, Ages, Never, AlertInv, WatchAge

LEMMA ClickTimes ==
  ASSUME JobTypeOK, TimingInv, NEW c \in Click, ClickStep(c)
  PROVE  TimingInv'
<1> USE DEF unchangedByClick
<1>0. /\ UNCHANGED tick /\ click \in [Click -> {"idle", "checked", "repeat", "committed", "marked"}]
      /\ StallAfter \in Nat /\ sinceStart \in Nat
  BY FaceJobsAssumption DEF ClickStep, StartCheck, StartCommit, StartMark, StartEnqueue, StartDies,
     JobTypeOK, Ages
<1>1. CASE StartCheck(c) \/ StartEnqueue(c)
  <2>1. UNCHANGED <<watchVars, giveUp, tick, sinceStart, alert>> /\ (Uncommitted' => Uncommitted)
    BY <1>0, <1>1 DEF StartCheck, StartEnqueue, Uncommitted
  <2> QED
    BY <2>1 DEF TimingInv, AlertInv, WindowInv, Judges, WatchAge, watchVars
<1>2. CASE StartCommit(c)
  <2>1. ~Uncommitted' /\ UNCHANGED <<watchVars, giveUp, tick, alert>>
    BY <1>0, <1>2 DEF StartCommit, Uncommitted
  <2>2. Judges' => sinceStart' >= StallAfter
    BY <1>0, <1>2 DEF StartCommit, Judges
  <2>3. AlertInv'
    BY <2>1 DEF TimingInv, AlertInv, watchVars
  <2> QED
    BY <2>1, <2>2, <2>3 DEF TimingInv, WindowInv
<1>3. CASE StartMark(c)
  <2>1. 0 \in Ages /\ started' = 0 /\ beat' = Never /\ watchLife' = WatchTtl /\ alert' = "none"
    BY <1>0, <1>3 DEF StartMark, Ages
  <2>2. AlertInv' /\ WatchAge' = 0 /\ watchLife' + sinceStart >= WatchTtl
    BY <2>1, MarkTimes
  <2>3. UNCHANGED <<tick, sinceStart>>
    BY <1>0, <1>3 DEF StartMark
  <2> QED
    BY <1>0, <2>2, <2>3 DEF TimingInv, WindowInv, Judges
<1>4. CASE StartDies(c)
  <2>1. UNCHANGED <<watchVars, giveUp, tick, alert>>
    BY <1>4 DEF StartDies
  <2>2. AlertInv'
    BY <2>1 DEF TimingInv, AlertInv, watchVars
  <2>3. CASE click[c] = "committed"
    <3>1. sinceStart' = StallAfter
      BY <1>4, <2>3 DEF StartDies
    <3> QED
      BY <1>0, <2>2, <3>1 DEF TimingInv, WindowInv
  <2>4. CASE click[c] # "committed"
    <3>1. sinceStart' = sinceStart /\ (Uncommitted' => Uncommitted)
      BY <1>0, <1>4, <2>4 DEF StartDies, Uncommitted
    <3>2. WindowInv'
      BY <2>1, <3>1 DEF TimingInv, WindowInv, Judges, WatchAge, watchVars
    <3> QED
      BY <2>2, <3>2 DEF TimingInv
  <2> QED
    BY <2>3, <2>4
<1> QED
  BY <1>1, <1>2, <1>3, <1>4 DEF ClickStep

\* A reconcile run that judges the watch from now on has crossed the start, or the start's
\* window is over.
LEMMA GotoTimes ==
  ASSUME JobTypeOK, WindowInv, NEW t \in Ticker, NEW step, Goto(t, step),
         step \in Judging => \/ tick[t] \in Judging
                             \/ /\ step \in {"unwatched", "giveup"}
                                /\ WatchAge >= StallAfter \/ watchLife = 0
  PROVE  /\ Judges' => sinceStart' >= StallAfter
         /\ sinceStart' \in {sinceStart, StallAfter}
         /\ \A u \in Ticker : tick'[u] = IF u = t THEN step ELSE tick[u]
<1> USE FaceJobsAssumption DEF JobTypeOK, Ages, Never
<1>1. \A u \in Ticker : tick'[u] = IF u = t THEN step ELSE tick[u]
  BY DEF Goto
<1>2. sinceStart' \in {sinceStart, StallAfter} /\ StallAfter \in Nat /\ sinceStart \in Nat
  BY DEF Goto
<1>3. CASE sinceStart >= StallAfter
  BY <1>1, <1>2, <1>3
<1>4. CASE sinceStart < StallAfter
  <2>1. \A u \in Ticker : tick[u] \notin Judging
    BY <1>2, <1>4 DEF WindowInv, Judges
  <2>2. ASSUME step \in Judging PROVE sinceStart' >= StallAfter
    <3>1. step \in {"unwatched", "giveup"} /\ (WatchAge >= StallAfter \/ watchLife = 0)
      BY <2>1, <2>2
    <3>2. ~Uncommitted
      <4>1. WatchAge \in Nat /\ watchLife \in Nat /\ WatchTtl > StallAfter
        BY DEF WatchAge
      <4> QED
        BY <1>2, <1>4, <3>1, <4>1 DEF WindowInv
    <3>3. sinceStart' = StallAfter
      BY <3>1, <3>2 DEF Goto, Uncommitted
    <3> QED
      BY <1>2, <3>3
  <2> QED
    BY <1>1, <1>2, <2>1, <2>2 DEF Judges
<1> QED
  BY <1>2, <1>3, <1>4

LEMMA TickerTimes ==
  ASSUME JobTypeOK, TimingInv, NEW t \in Ticker, TickerStep(t) \/ TickDies(t)
  PROVE  TimingInv'
<1> USE FaceJobsAssumption DEF unchangedByTicker
<1>0. UNCHANGED click /\ AlertInv /\ WindowInv
  BY DEF TickerStep, TickLoads, TickMisses, TickMarks, TickHealthy, TickDecides, TickClaims,
         TickCounts, TickReverts, TickRecovers, TickDies, TimingInv
<1>a. watchLife \in Nat /\ giveUp \in 0..WatchTtl /\ watchLife <= WatchTtl /\ sinceStart \in Nat
      /\ StallAfter \in Nat /\ WatchTtl \in Nat
  BY DEF JobTypeOK, Ages
<1>b. ASSUME NEW step, Goto(t, step), UNCHANGED <<watchVars, giveUp, alert>>,
             step = "giveup" => watchLife > 0,
             step \in Judging => \/ tick[t] \in Judging
                                 \/ /\ step \in {"unwatched", "giveup"}
                                    /\ WatchAge >= StallAfter \/ watchLife = 0
      PROVE  TimingInv'
  <2>1. /\ Judges' => sinceStart' >= StallAfter
        /\ sinceStart' \in {sinceStart, StallAfter}
        /\ \A u \in Ticker : tick'[u] = IF u = t THEN step ELSE tick[u]
    BY <1>0, <1>b, GotoTimes
  <2>2. AlertInv'
    BY <1>0, <1>b, <2>1 DEF AlertInv, watchVars
  <2>3. WindowInv'
    BY <1>0, <1>a, <1>b, <2>1 DEF WindowInv, Uncommitted, WatchAge, watchVars
  <2> QED
    BY <2>2, <2>3 DEF TimingInv
<1>1. CASE TickLoads(t) \/ TickHealthy(t) \/ TickReverts(t) \/ TickRecovers(t) \/ TickDies(t)
  BY <1>b, <1>1 DEF TickLoads, TickHealthy, TickReverts, TickRecovers, TickDies, Judging
<1>2. CASE TickMisses(t)
  BY <1>b, <1>2 DEF TickMisses, Judging
<1>3. CASE TickMarks(t)
  <2>1. age \in Ages /\ started' = age /\ beat' = Never /\ watchLife' = WatchTtl /\ alert' = "none"
    BY <1>3 DEF TickMarks, JobTypeOK
  <2>2. AlertInv'
    BY <2>1, MarkTimes
  <2>3. sinceStart >= StallAfter
    BY <1>0, <1>3 DEF TickMarks, WindowInv, Judges, Judging
  <2>4. sinceStart' = sinceStart
    BY <1>3 DEF TickMarks, Goto
  <2> QED
    BY <1>a, <2>2, <2>3, <2>4 DEF TimingInv, WindowInv
<1>4. CASE TickDecides(t)
  <2>1. UNCHANGED <<watchVars, giveUp, alert>> /\ watchLife > 0
    BY <1>4 DEF TickDecides
  <2>2. Stalled => WatchAge >= StallAfter
    BY DEF Stalled, WatchAge
  <2>3. CASE Stalled
    <3>1. Goto(t, "giveup")
      BY <1>4, <2>3 DEF TickDecides
    <3> QED
      BY <1>b, <2>1, <2>2, <2>3, <3>1
  <2>4. CASE ~Stalled
    <3>1. Goto(t, "recover") /\ "recover" \notin Judging
      BY <1>4, <2>4 DEF TickDecides, Judging
    <3> QED
      BY <1>b, <2>1, <3>1
  <2> QED
    BY <2>3, <2>4
<1>5. CASE TickClaims(t)
  <2>1. tick[t] \in Judging /\ UNCHANGED watchVars
    BY <1>5 DEF TickClaims, Judging
  <2>2. CASE giveUp = 0
    <3>1. Goto(t, "claimed") /\ giveUp' = WatchTtl
      BY <1>5, <2>2 DEF TickClaims
    <3>2. /\ Judges' => sinceStart' >= StallAfter
          /\ sinceStart' \in {sinceStart, StallAfter}
          /\ \A u \in Ticker : tick'[u] = IF u = t THEN "claimed" ELSE tick[u]
      BY <1>0, <2>1, <3>1, GotoTimes
    <3>3. AlertInv'
      BY <1>0, <1>a, <2>1, <3>1, <3>2 DEF AlertInv, watchVars
    <3>4. WindowInv'
      BY <1>0, <1>a, <2>1, <3>2 DEF WindowInv, Uncommitted, WatchAge, watchVars
    <3> QED
      BY <3>3, <3>4 DEF TimingInv
  <2>3. CASE giveUp # 0
    <3>1. Goto(t, "idle") /\ UNCHANGED <<watchVars, giveUp, alert>> /\ "idle" \notin Judging
      BY <1>5, <2>3 DEF TickClaims, Judging
    <3> QED
      BY <1>b, <3>1
  <2> QED
    BY <2>2, <2>3
<1>6. CASE TickCounts(t)
  <2>1. tick[t] \in Judging /\ UNCHANGED <<watchVars, giveUp, alert>>
        /\ (Goto(t, "toReady") \/ Goto(t, "toUploading"))
    BY <1>6 DEF TickCounts, Judging
  <2> QED
    BY <1>b, <2>1
<1> QED
  BY <1>1, <1>2, <1>3, <1>4, <1>5, <1>6 DEF TickerStep

\* A tick waits for those who judge and for the requests, and ages the watch and the start alike.
LEMMA TickTimes ==
  ASSUME JobTypeOK, TimingInv, Tick
  PROVE  TimingInv'
<1> USE FaceJobsAssumption
<1>1. /\ watchLife' = Shorter(watchLife) /\ giveUp' = Shorter(giveUp) /\ sinceStart' = Older(sinceStart)
      /\ started' = IF watchLife <= 1 THEN 0 ELSE Older(started)
      /\ beat' = IF watchLife <= 1 \/ beat = Never THEN Never ELSE Older(beat)
      /\ UNCHANGED <<click, tick, alert>>
      /\ \A t \in Ticker : tick[t] \in {"idle", "loaded", "recover"}
      /\ \A c \in Click : click[c] = "idle"
  BY DEF Tick, Prompt
<1>2. /\ watchLife \in 0..WatchTtl /\ giveUp \in 0..WatchTtl /\ sinceStart \in 0..StallAfter
      /\ started \in 0..StallAfter /\ beat \in 0..(StallAfter + 1) /\ StallAfter \in Nat
      /\ WatchTtl \in Nat /\ StallAfter < WatchTtl /\ Never = StallAfter + 1
  BY DEF JobTypeOK, Ages, Never
<1>3. AlertInv'
  BY <1>1, <1>2 DEF TimingInv, AlertInv, Shorter
<1>4. ~Judges' /\ Uncommitted
  BY <1>1 DEF Judges, Judging, Uncommitted
<1>5. ASSUME sinceStart' < StallAfter
      PROVE  WatchAge' <= sinceStart' /\ watchLife' + sinceStart' >= WatchTtl
  <2>1. sinceStart < StallAfter /\ sinceStart' = sinceStart + 1
    BY <1>1, <1>2, <1>5 DEF Older
  <2>2. WatchAge <= sinceStart /\ watchLife + sinceStart >= WatchTtl
    BY <1>4, <2>1 DEF TimingInv, WindowInv
  <2>3. watchLife > 1 /\ watchLife' = watchLife - 1
    BY <1>1, <1>2, <1>5, <2>1, <2>2 DEF Shorter
  <2>4. CASE beat = Never
    <3>1. beat' = Never /\ started' = Older(started) /\ started <= sinceStart
      BY <1>1, <1>2, <2>2, <2>3, <2>4 DEF WatchAge
    <3>2. WatchAge' = started + 1
      BY <1>2, <2>1, <3>1 DEF WatchAge, Older
    <3> QED
      BY <1>2, <2>1, <2>2, <2>3, <3>1, <3>2
  <2>5. CASE beat # Never
    <3>1. beat' = Older(beat) /\ beat <= sinceStart
      BY <1>1, <1>2, <2>2, <2>3, <2>5 DEF WatchAge
    <3>2. beat' = beat + 1 /\ beat' # Never
      BY <1>2, <2>1, <3>1 DEF Older
    <3> QED
      BY <1>2, <2>1, <2>2, <2>3, <3>1, <3>2 DEF WatchAge
  <2> QED
    BY <2>4, <2>5
<1> QED
  BY <1>3, <1>4, <1>5 DEF TimingInv, WindowInv

LEMMA StepKeepsTiming ==
  ASSUME JobTypeOK, TimingInv, [Next]_vars
  PROVE  TimingInv'
<1>1. ASSUME NEW p \in Photo, PhotoStep(p) PROVE TimingInv'
  <2>1. UNCHANGED timingVars
    BY <1>1 DEF PhotoStep, ProxyStep, UploadReads, Upload, ProxyStarts, ProxyDone,
                ProxyCounts, ProxyWrites, unchangedByPhoto, timingVars
  <2> QED
    BY <2>1, TimingStays
<1>2. ASSUME NEW c \in Click, ClickStep(c) PROVE TimingInv'
  BY <1>2, ClickTimes
<1>3. ASSUME NEW w \in Worker, WorkerStep(w) PROVE TimingInv'
  <2>1. UNCHANGED <<giveUp, click, tick, sinceStart>>
    BY <1>3 DEF WorkerStep, JobStep, Deliver, JobAcquires, JobRefused, JobBusy, JobLoads, JobSkips,
                JobStores, JobFinishes, JobPulse, JobClusters, JobReleases, ClusteringBusy, JobFails,
                JobCounts, JobWrites, WorkerDies, unchangedByRun, jobVars
  <2>2. CASE JobLoads(w) \/ JobPulse(w)
    BY <2>1, <2>2, HeartbeatTimes DEF JobLoads, JobPulse
  <2>3. CASE ~JobLoads(w) /\ ~JobPulse(w)
    <3>1. UNCHANGED <<watchVars, alert>>
      BY <1>3, <2>3 DEF WorkerStep, JobStep, Deliver, JobAcquires, JobRefused, JobBusy, JobSkips,
                JobStores, JobFinishes, JobClusters, JobReleases, ClusteringBusy, JobFails,
                JobCounts, JobWrites, WorkerDies, jobVars
    <3> QED
      BY <2>1, <3>1, TimingStays DEF timingVars
  <2> QED
    BY <2>2, <2>3
<1>4. ASSUME NEW t \in Ticker, TickerStep(t) \/ TickDies(t) PROVE TimingInv'
  BY <1>4, TickerTimes
<1>5. CASE Tick
  BY <1>5, TickTimes
<1>6. CASE UNCHANGED vars
  BY <1>6, TimingStays DEF vars, jobVars, timingVars
<1> QED
  BY <1>1, <1>2, <1>3, <1>4, <1>5, <1>6 DEF Next

LEMMA TimingHolds == Spec => []TimingInv
<1>1. Init => TimingInv
  <2> SUFFICES ASSUME Init PROVE TimingInv
    OBVIOUS
  <2>1. sinceStart = StallAfter /\ StallAfter \in Nat /\ alert = "none" /\ \A t \in Ticker : tick[t] = "idle"
    BY FaceJobsAssumption DEF Init
  <2> QED
    BY <2>1 DEF TimingInv, AlertInv, WindowInv, Judges
<1>2. JobTypeOK /\ TimingInv /\ [Next]_vars => TimingInv'
  BY StepKeepsTiming
<1>3. TypeOK => JobTypeOK
  BY DEF TypeOK
<1> QED
  BY <1>1, <1>2, <1>3, TypeCorrect, PTL DEF Spec

\* Ops get one alert for one silence, however many reconcile runs overlap and whatever dies: the
\* give-up key outlives the watch it was set for (processing_watch.py, reconciler.py).
THEOREM AlertedOnce == Spec => OneAlertPerWindow
<1>1. JobTypeOK /\ TimingInv /\ [Next]_vars =>
        [\A t \in Ticker : tick[t] = "giveup" /\ tick'[t] = "claimed" => alert = "none"]_vars
  <2> SUFFICES ASSUME JobTypeOK, TimingInv, Next, NEW t \in Ticker, tick[t] = "giveup", tick'[t] = "claimed"
               PROVE  alert = "none"
    OBVIOUS
  <2>1. CASE TickClaims(t)
    <3>1. giveUp = 0
      BY <2>1 DEF TickClaims, Goto, JobTypeOK
    <3>2. watchLife > 0 /\ watchLife \in Nat /\ alert \in {"none", "sent"}
      BY DEF TimingInv, AlertInv, JobTypeOK
    <3> QED
      BY <3>1, <3>2 DEF TimingInv, AlertInv
  <2>2. ASSUME NEW u \in Ticker, TickerStep(u) \/ TickDies(u), ~TickClaims(t) PROVE FALSE
    <3>1. PICK step : Goto(u, step)
      BY <2>2 DEF TickerStep, TickLoads, TickMisses, TickMarks, TickHealthy, TickDecides, TickClaims,
         TickCounts, TickReverts, TickRecovers, TickDies
    <3>2. u = t
      BY <3>1 DEF Goto, JobTypeOK
    <3>3. tick[t] = "giveup" /\ ~TickClaims(t) => TickDies(t)
      BY <2>2, <3>2 DEF TickerStep, TickLoads, TickMisses, TickMarks, TickHealthy, TickDecides,
         TickCounts, TickReverts, TickRecovers, Reverting
    <3> QED
      BY <2>2, <3>3 DEF TickDies, Goto, JobTypeOK
  <2>3. ~(UNCHANGED tick)
    OBVIOUS
  <2> QED
    <3>1. ASSUME NEW p \in Photo, PhotoStep(p) PROVE UNCHANGED tick
      BY <3>1 DEF PhotoStep, ProxyStep, UploadReads, Upload, ProxyStarts, ProxyDone,
                ProxyCounts, ProxyWrites, unchangedByPhoto
    <3>2. ASSUME NEW c \in Click, ClickStep(c) PROVE UNCHANGED tick
      BY <3>2 DEF ClickStep, StartCheck, StartCommit, StartMark, StartEnqueue, StartDies, unchangedByClick
    <3>3. ASSUME NEW w \in Worker, WorkerStep(w) PROVE UNCHANGED tick
      BY <3>3 DEF WorkerStep, JobStep, Deliver, JobAcquires, JobRefused, JobBusy, JobLoads, JobSkips,
                JobStores, JobFinishes, JobPulse, JobClusters, JobReleases, ClusteringBusy, JobFails,
                JobCounts, JobWrites, WorkerDies, unchangedByRun, jobVars
    <3>4. Tick => UNCHANGED tick
      BY DEF Tick
    <3> QED
      BY <2>1, <2>2, <2>3, <3>1, <3>2, <3>3, <3>4 DEF Next
<1>2. TypeOK => JobTypeOK
  BY DEF TypeOK
<1> QED
  BY <1>1, <1>2, TypeCorrect, TimingHolds, PTL DEF Spec, OneAlertPerWindow

\* A start has its whole window, for any number of requests and of overlapping reconcile runs,
\* unless a run looks at it between its commit and its mark, or acts on what it read before
\* (face_processing_service.py, reconciler.py).
THEOREM StartsHaveTheirWindow == Spec => StartHasItsWindow
<1>1. JobTypeOK /\ TimingInv /\ [Next]_vars =>
        [\A t \in Ticker : Reverting(t) /\ tick'[t] = "idle" /\ faults' = faults
                             => sinceStart >= StallAfter]_vars
  BY DEF TimingInv, WindowInv, Judges, Judging, Reverting
<1>2. TypeOK => JobTypeOK
  BY DEF TypeOK
<1> QED
  BY <1>1, <1>2, TypeCorrect, TimingHolds, PTL DEF Spec, StartHasItsWindow

==============================================================================
