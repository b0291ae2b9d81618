-------------------------- MODULE EventArchiveProofs -------------------------
(***************************************************************************)
(* Theorems about EventArchive, for any photos, workers, archive tasks and *)
(* requests, and for every bound.                                          *)
(*                                                                         *)
(* What an archive task knows of a photo stays right until somebody writes *)
(* to that photo (ArchiversKnow), so its commit leaves the photo cold; and *)
(* a photo that no work in flight can touch stays cold, since new work on  *)
(* it needs an event that is not archived (ArchivedIsCold).  A photo that  *)
(* a restore has taken up is somebody's until it has its proxy (Handed).   *)
(***************************************************************************)
EXTENDS EventArchive, TLAPS

USE ArchiveAssumption

-----------------------------------------------------------------------------

\* A row that is not there yet has its types.
LEMMA InitTyped == Init => TypeOK
<1> SUFFICES ASSUME Init PROVE TypeOK
  OBVIOUS
<1>1. RowsOK
  BY DEF Init, RowsOK, Status, Proc
<1>2. TasksOK
  BY DEF Init, TasksOK, Task, NoTask, Run, NoRun, Proc
<1>3. RequestsOK
  BY DEF Init, RequestsOK, Archival, NoArchival, Restore, NoRestore
<1> QED
  BY <1>1, <1>2, <1>3 DEF TypeOK

\* A fault, and one more message, stay within their bounds.
LEMMA BoundsKept ==
  ASSUME TypeOK
  PROVE  /\ Fault => faults' \in 0..MaxFaults
         /\ \A n \in 0..MaxQueue : OneMore(n) \in 0..MaxQueue
  BY DEF TypeOK, RequestsOK, Fault, OneMore

\* The refresh writes a status, or nothing.
LEMMA WriteTyped ==
  ASSUME TypeOK, NEW verdict \in Status \cup {NoWrite}, Write(verdict)
  PROVE  status' \in Status
  BY DEF TypeOK, RowsOK, Write

LEMMA VerdictTyped ==
  \A previous \in Status \cup {NoWrite} :
      Verdict(previous) \in Status \cup {NoWrite} /\ Verdict(previous) # "archived"
  BY DEF Verdict, Status, NoWrite

\* An upload adds a row, and a message for it.
LEMMA UploadTyped ==
  ASSUME TypeOK, NEW p \in Photo, UploadReads(p) \/ Upload(p)
  PROVE  TypeOK'
<1> USE DEF TypeOK, RowsOK, TasksOK, RequestsOK
<1>1. CASE UploadReads(p)
  BY <1>1 DEF UploadReads, rowVars, taskVars, archVars, restVars, askVars
<1>2. CASE Upload(p)
  BY <1>2, BoundsKept, WriteTyped
     DEF Upload, Status, NoWrite, taskVars, archVars, restVars, askVars
<1> QED
  BY <1>1, <1>2

\* What is written to a photo is noted for the archive tasks.
LEMMA WrittenTyped ==
  ASSUME RequestsOK, NEW p \in Photo, Written(p)
  PROVE  behind' \in [Archiver -> SUBSET Photo]
  BY DEF RequestsOK, Written

\* A worker goes on to another record of its task.
LEMMA BecomesTyped ==
  ASSUME TasksOK, NEW w \in Worker, NEW record \in Task, Becomes(w, record),
         record.at \in {"making", "made", "committed"} => record.photo \in Photo
  PROVE  /\ task' \in [Worker -> Task]
         /\ \A v \in Worker : task'[v].at \in {"making", "made", "committed"}
                                 => task'[v].photo \in Photo
  BY DEF TasksOK, Becomes

\* A task keeps its record's type when it goes on with another key.
LEMMA KeyTyped ==
  ASSUME NEW t \in Task, NEW n \in 0..MaxKeys
  PROVE  /\ [t EXCEPT !.at = "made", !.new = n] \in Task
         /\ [t EXCEPT !.at = "committed", !.had = "completed", !.new = n] \in Task
<1>1. [t EXCEPT !.at = "made"] \in Task /\ [t EXCEPT !.at = "committed"] \in Task
  BY DEF Task
<1>2. \A u \in Task : [u EXCEPT !.new = n] \in Task
  BY DEF Task
<1>3. \A u \in Task : [u EXCEPT !.had = "completed"] \in Task
  BY DEF Task, Proc
<1> QED
  BY <1>1, <1>2, <1>3

LEMMA NoTaskTyped == NoTask \in Task
  BY DEF NoTask, Task, Proc

LEMMA GoesTyped ==
  ASSUME RequestsOK, NEW a \in Archiver, NEW record \in Archival, Goes(a, record)
  PROVE  arch' \in [Archiver -> Archival]
  BY DEF RequestsOK, Goes

LEMMA NoArchivalTyped == NoArchival \in Archival
  BY DEF NoArchival, Archival

\* A photo task changes its photo, its own record and its message.
LEMMA TaskTyped ==
  ASSUME TypeOK, NEW w \in Worker,
         \/ TaskStep(w) \/ TaskFails(w) \/ TaskRetries(w) \/ TaskDies(w)
  PROVE  TypeOK'
<1> USE DEF TypeOK, RowsOK, RequestsOK, unchangedByTask, restVars, askVars
<1>1. ASSUME NEW p \in Photo, TaskStarts(w, p) PROVE TypeOK'
  <2> DEFINE started == [at |-> "making", photo |-> p, had |-> proc[p], new |-> 0,
                         saw |-> status]
  <2>1. started \in Task /\ started.photo \in Photo
    BY DEF Task
  <2>2. Becomes(w, started)
    BY <1>1 DEF TaskStarts
  <2> HIDE DEF started
  <2> QED
    BY <1>1, <2>1, <2>2, BecomesTyped DEF TaskStarts, TasksOK
<1>2. CASE TaskMakes(w)
  <2> DEFINE p == task[w].photo
             next == [task[w] EXCEPT !.at = "made", !.new = made[p] + 1]
  <2>1. p \in Photo /\ made[p] + 1 \in 1..MaxKeys
    BY <1>2 DEF TaskMakes, TasksOK
  <2>4. task[w] \in Task
    BY DEF TasksOK
  <2>6. made[p] + 1 \in 0..MaxKeys
    BY <2>1
  <2>5. next \in Task
    BY <2>6, <2>4, KeyTyped, Zenon
  <2>2. next \in Task /\ next.photo \in Photo
    BY <2>1, <2>4, <2>5 DEF Task
  <2>3. Becomes(w, next) /\ made' = [made EXCEPT ![p] = @ + 1]
        /\ objects' = objects \cup {<<p, made[p] + 1>>}
    BY <1>2 DEF TaskMakes
  <2> HIDE DEF next, p
  <2> QED
    BY <1>2, <2>1, <2>2, <2>3, BecomesTyped DEF TaskMakes, TasksOK
<1>3. CASE TaskCommits(w)
  <2> DEFINE p == task[w].photo
             next == [task[w] EXCEPT !.at = "committed", !.had = "completed", !.new = 0]
  <2>1. p \in Photo /\ task[w].new \in 0..MaxKeys
    BY <1>3 DEF TaskCommits, TasksOK, Task
  <2>4. task[w] \in Task
    BY DEF TasksOK
  <2>6. 0 \in 0..MaxKeys
    OBVIOUS
  <2>5. next \in Task
    BY <2>6, <2>4, KeyTyped, Zenon
  <2>2. next \in Task /\ next.photo \in Photo
    BY <2>1, <2>4, <2>5 DEF Task
  <2>3. Becomes(w, next) /\ Written(p)
        /\ key' = [key EXCEPT ![p] = task[w].new]
        /\ \E result \in Proc : proc' = [proc EXCEPT ![p] = result]
    BY <1>3, <2>1 DEF TaskCommits, Proc
  <2> HIDE DEF next, p
  <2> QED
    BY <1>3, <2>1, <2>2, <2>3, BecomesTyped, WrittenTyped DEF TaskCommits, TasksOK
<1>4. CASE TaskCools(w) \/ TaskFails(w)
  <2> DEFINE p == task[w].photo
             next == [NoTask EXCEPT !.at = "counting", !.saw = task[w].saw]
  <2>1. p \in Photo
    BY <1>4 DEF TaskCools, TaskFails, TasksOK
  <2>2. next \in Task /\ next.at = "counting"
    BY NoTaskTyped DEF Task, TasksOK, NoTask
  <2>3. Becomes(w, next) /\ Written(p) /\ frozen' \subseteq Photo
        /\ faults' \in 0..MaxFaults /\ proc' \in [Photo -> Proc]
    BY <1>4, <2>1, BoundsKept DEF TaskCools, TaskFails, Proc
  <2> HIDE DEF next, p
  <2> QED
    BY <1>4, <2>1, <2>2, <2>3, BecomesTyped, WrittenTyped DEF TaskCools, TaskFails, TasksOK
<1>5. CASE TaskRetries(w) \/ TaskDies(w) \/ TaskWrites(w)
  <2>1. Becomes(w, NoTask) /\ faults' \in 0..MaxFaults /\ NoTask.at = "idle"
    BY <1>5, BoundsKept DEF TaskRetries, TaskDies, TaskWrites, NoTask
  <2>2. queue' \in [Photo -> 0..MaxQueue] /\ status' \in Status
    BY <1>5, BoundsKept, WriteTyped DEF TaskRetries, TaskDies, TaskWrites, TasksOK, Task
  <2> QED
    BY <1>5, <2>1, <2>2, NoTaskTyped, BecomesTyped
       DEF TaskRetries, TaskDies, TaskWrites, TasksOK
<1>6. CASE TaskCounts(w)
  <2> DEFINE next == [task[w] EXCEPT !.at = "writing", !.saw = Verdict(task[w].saw)]
  <2>1. task[w] \in Task
    BY DEF TasksOK
  <2>3. Verdict(task[w].saw) \in Status \cup {NoWrite}
    BY <2>1, VerdictTyped DEF Task
  <2>4. next \in Task /\ next.at = "writing"
    BY <2>1, <2>3 DEF Task
  <2>2. Becomes(w, next)
    BY <1>6 DEF TaskCounts
  <2> HIDE DEF next
  <2> QED
    BY <1>6, <2>4, <2>2, BecomesTyped DEF TaskCounts, TasksOK
<1> QED
  BY <1>1, <1>2, <1>3, <1>4, <1>5, <1>6 DEF TaskStep

\* The face run moves photos from its list to the processed ones.
LEMMA RunTyped ==
  ASSUME TypeOK,
         \/ RunRequest \/ RunStep \/ RunDies \/ \E p \in Photo : RunPassesOver(p)
  PROVE  TypeOK'
<1> USE DEF TypeOK, RowsOK, TasksOK, RequestsOK, unchangedByRun, taskVars, archVars, restVars
<1>1. CASE RunRequest
  BY <1>1 DEF RunRequest, Run, NoRun, Status
<1>2. CASE RunLoads
  BY <1>2 DEF RunLoads, Run, Pending
<1>3. ASSUME NEW p \in Photo, RunStores(p) PROVE TypeOK'
  BY <1>3 DEF RunStores, Run
<1>4. CASE RunFinishes
  BY <1>4 DEF RunFinishes, Run
<1>5. CASE RunCounts
  <2>1. PICK previous \in {run.saw, status} :
           run' = [run EXCEPT !.at = "writing", !.saw = Verdict(previous)]
    BY <1>5 DEF RunCounts
  <2>2. Verdict(previous) \in Status \cup {NoWrite}
    BY VerdictTyped DEF Run
  <2>3. run' \in Run /\ run'.at = "writing"
    BY <2>1, <2>2 DEF Run
  <2> QED
    BY <1>5, <2>3 DEF RunCounts
<1>6. CASE RunWrites
  BY <1>6, WriteTyped DEF RunWrites, Run, NoRun
<1>7. CASE RunDies
  BY <1>7, BoundsKept DEF RunDies, Run, NoRun
<1>8. ASSUME NEW p \in Photo, RunPassesOver(p) PROVE TypeOK'
  BY <1>8, BoundsKept DEF RunPassesOver, Run
<1> QED
  BY <1>1, <1>2, <1>3, <1>4, <1>5, <1>6, <1>7, <1>8 DEF RunStep

\* A request changes the status and queues a message.
LEMMA AskTyped ==
  ASSUME TypeOK,
         DailyCheck \/ \E c \in Click : AskReads(c) \/ AskStep(c) \/ AskDies(c)
  PROVE  TypeOK'
<1> USE DEF TypeOK, RowsOK, TasksOK, RequestsOK, unchangedByAsk, rowVars, taskVars, Asks
<1>1. CASE DailyCheck
  BY <1>1, BoundsKept DEF DailyCheck
<1>2. ASSUME NEW c \in Click, AskReads(c) PROVE TypeOK'
  BY <1>2 DEF AskReads
<1>3. ASSUME NEW c \in Click, AskCommits(c) PROVE TypeOK'
  BY <1>3 DEF AskCommits, Status
<1>4. ASSUME NEW c \in Click, AskQueues(c) PROVE TypeOK'
  BY <1>4, BoundsKept DEF AskQueues
<1>5. ASSUME NEW c \in Click, AskDies(c) PROVE TypeOK'
  BY <1>5, BoundsKept DEF AskDies
<1> QED
  BY <1>1, <1>2, <1>3, <1>4, <1>5 DEF AskStep

\* An archive task changes the columns of the rows it loaded.
LEMMA ArchiveTyped ==
  ASSUME TypeOK, NEW a \in Archiver, ArchiveStep(a) \/ ArchiveAborts(a) \/ ArchiveBreaks(a)
  PROVE  TypeOK'
<1> USE DEF TypeOK, RowsOK, TasksOK, unchangedByArchive, taskVars, restVars, askVars, Forgets
<1>1. CASE ArchiveLoads(a)
  <2> DEFINE loaded == [at |-> "moving", rows |-> photos, keys |-> key, settled |-> proxied,
                        gone |-> {}, writes |-> IF status = "archived" THEN NoWrite ELSE "archived"]
  <2>1. loaded \in Archival
    BY DEF Archival, proxied
  <2>2. Goes(a, loaded)
    BY <1>1 DEF ArchiveLoads
  <2> HIDE DEF loaded
  <2> QED
    BY <1>1, <2>1, <2>2, GoesTyped DEF ArchiveLoads, RequestsOK
<1>2. CASE ArchiveMoves(a)
  <2>2. arch[a] \in Archival
    BY DEF RequestsOK
  <2>5. [arch[a] EXCEPT !.at = "deleting"] \in Archival
    BY <2>2 DEF Archival
  <2>3. arch' \in [Archiver -> Archival]
    BY <1>2, <2>5, GoesTyped DEF ArchiveMoves
  <2>4. frozen' \subseteq Photo
    BY <1>2, <2>2 DEF ArchiveMoves, Archival
  <2> QED
    BY <1>2, <2>3, <2>4 DEF ArchiveMoves, RequestsOK
<1>5. CASE ArchiveDeletes(a)
  <2>1. PICK batch \in SUBSET Left(a) : Deletes(a, batch, arch[a].keys)
    BY <1>5 DEF ArchiveDeletes
  <2>2. arch[a] \in Archival /\ batch \subseteq Photo
    BY <2>1 DEF RequestsOK, Left, Archival
  <2>3. arch' \in [Archiver -> Archival] /\ arch'[a] \in Archival
    <3> DEFINE gone == arch[a].gone \cup batch
               at == IF gone = arch[a].rows THEN "committing" ELSE arch[a].at
    <3>1. Goes(a, [[arch[a] EXCEPT !.at = at] EXCEPT !.gone = gone])
      BY <2>1 DEF Deletes, Goes
    <3>2. gone \in SUBSET Photo /\ at \in {"moving", "deleting", "committing", "idle"}
      BY <2>2 DEF Archival
    <3>3. \A r \in Archival : [r EXCEPT !.at = at] \in Archival
      BY <3>2 DEF Archival
    <3>4. \A r \in Archival : [r EXCEPT !.gone = gone] \in Archival
      BY <3>2 DEF Archival
    <3> HIDE DEF gone, at
    <3>5. [[arch[a] EXCEPT !.at = at] EXCEPT !.gone = gone] \in Archival
      BY <2>2, <3>3, <3>4
    <3>6. arch' \in [Archiver -> Archival]
      BY <3>1, <3>5, GoesTyped
    <3> QED
      BY <3>6
  <2>4. objects' \subseteq Photo \X (1..MaxKeys) /\ faults' \in 0..MaxFaults
    BY <2>1 DEF Deletes, Fault, RequestsOK
  <2> QED
    BY <2>1, <2>3, <2>4 DEF Deletes, RequestsOK
<1>3. CASE ArchiveCommits(a)
  <2>1. arch[a] \in Archival
    BY DEF RequestsOK
  <2>2. status' \in Status
    BY <1>3, <2>1, WriteTyped DEF ArchiveCommits, Archival, Status
  <2>3. arch' \in [Archiver -> Archival]
    BY <1>3, GoesTyped, NoArchivalTyped DEF ArchiveCommits
  <2>4. /\ key' \in [Photo -> 0..MaxKeys] /\ proc' \in [Photo -> Proc]
        /\ warm' \subseteq Photo /\ faces' = {}
    BY <1>3 DEF ArchiveCommits, Proc
  <2> QED
    BY <1>3, <2>2, <2>3, <2>4 DEF ArchiveCommits, RequestsOK
<1>4. CASE ArchiveAborts(a) \/ ArchiveBreaks(a)
  <2>1. arch' \in [Archiver -> Archival]
    BY <1>4, GoesTyped, NoArchivalTyped DEF ArchiveAborts, ArchiveBreaks
  <2>2. archives' \in 0..MaxQueue /\ faults' \in 0..MaxFaults
    BY <1>4, BoundsKept DEF ArchiveAborts, ArchiveBreaks, RequestsOK
  <2>4. torn' \subseteq Photo \X (0..MaxKeys) /\ objects' \subseteq objects
    <3>1. CASE ArchiveAborts(a)
      BY <3>1 DEF ArchiveAborts, RequestsOK
    <3>2. CASE ArchiveBreaks(a)
      <4>1. /\ arch[a].gone \subseteq Photo /\ Left(a) \subseteq Photo
            /\ \A p \in Photo : arch[a].keys[p] \in 0..MaxKeys
        BY DEF RequestsOK, Archival, Left
      <4>2. PICK hit \in SUBSET (IF arch[a].at = "deleting" THEN Left(a) ELSE {}) :
              /\ objects' = objects \ {<<p, arch[a].keys[p]>> : p \in hit}
              /\ torn' = torn \cup {<<p, arch[a].keys[p]>> : p \in arch[a].gone \cup hit}
        BY <3>2 DEF ArchiveBreaks
      <4>3. hit \subseteq Photo
        BY <4>1, <4>2
      <4>4. torn \subseteq Photo \X (0..MaxKeys)
        BY DEF RequestsOK
      <4> QED
        BY <4>1, <4>2, <4>3, <4>4
    <3> QED
      BY <1>4, <3>1, <3>2
  <2>3. frozen' \subseteq Photo
    BY <1>4 DEF ArchiveAborts, ArchiveBreaks, RequestsOK, Archival
  <2> QED
    BY <1>4, <2>1, <2>2, <2>3, <2>4 DEF ArchiveAborts, ArchiveBreaks, RequestsOK
<1> QED
  BY <1>1, <1>2, <1>3, <1>4, <1>5 DEF ArchiveStep

\* A restore task changes the status and queues proxy tasks.
LEMMA RestoreTyped ==
  ASSUME TypeOK, RestoreStep \/ RestoreBreaks
  PROVE  TypeOK'
<1> USE DEF TypeOK, RowsOK, TasksOK, RequestsOK, unchangedByRestore, askVars
<1>1. CASE RestoreLoads
  BY <1>1 DEF RestoreLoads, Restore, NoWrite
<1>2. CASE RestoreMoves
  BY <1>2, BoundsKept DEF RestoreMoves, Restore
<1>3. CASE RestoreCommits
  BY <1>3, WriteTyped DEF RestoreCommits, Restore, Status
<1>4. CASE RestoreQueues
  BY <1>4, BoundsKept DEF RestoreQueues, Queues, Restore, NoRestore
<1>5. CASE RestoreBreaks
  BY <1>5, BoundsKept DEF RestoreBreaks, Queues, Restore, NoRestore
<1> QED
  BY <1>1, <1>2, <1>3, <1>4, <1>5 DEF RestoreStep

\* The reconciler changes the status, or queues a face run.
LEMMA ReconcilerTyped ==
  ASSUME TypeOK, ReconcilerStep
  PROVE  TypeOK'
<1> USE DEF TypeOK, RowsOK, TasksOK, RequestsOK, unchangedByRevert, rowVars, taskVars,
            archVars, restVars, askVars
<1>1. CASE RevertLoads
  BY <1>1 DEF RevertLoads
<1>2. CASE RevertCounts
  BY <1>2 DEF RevertCounts
<1>3. CASE RevertWrites
  BY <1>3 DEF RevertWrites, Status
<1>4. CASE Recovers
  BY <1>4 DEF Recovers, Run, NoRun
<1>5. CASE RevertSkips
  BY <1>5 DEF RevertSkips
<1> QED
  BY <1>1, <1>2, <1>3, <1>4, <1>5 DEF ReconcilerStep

LEMMA StepTyped == TypeOK /\ [Next]_vars => TypeOK'
<1> SUFFICES ASSUME TypeOK, [Next]_vars PROVE TypeOK'
  OBVIOUS
<1>1. CASE UNCHANGED vars
  BY <1>1 DEF TypeOK, RowsOK, TasksOK, RequestsOK, vars, rowVars, taskVars, archVars,
              restVars, askVars
<1>2. CASE Next
  BY <1>2, UploadTyped, TaskTyped, RunTyped, AskTyped, ArchiveTyped, RestoreTyped,
     ReconcilerTyped DEF Next, Breaks
<1> QED
  BY <1>1, <1>2

\* The state of an event under archival keeps its types, for every number of photos, tasks
\* and requests.
THEOREM ArchiveTypeCorrect == Spec => []TypeOK
  BY InitTyped, StepTyped, PTL DEF Spec

-----------------------------------------------------------------------------

\* A session that loaded ARCHIVED does not write it back.
VerdictsOK ==
    /\ \A w \in Worker : task[w].at = "writing" => task[w].saw # "archived"
    /\ run.at = "writing" => run.saw # "archived"

\* The rows that an archive task loaded are still what it holds, as far as its commit
\* depends on it, and they are in Glacier once it has moved them.
ArchiversKnow ==
    \A a \in Archiver :
        arch[a].at # "idle" =>
            \A p \in arch[a].rows \ behind[a] :
                /\ key[p] # 0 => arch[a].keys[p] # 0
                /\ proc[p] # "pending" => p \in arch[a].settled
                /\ arch[a].at \in {"deleting", "committing"} => p \in frozen

\* In an archived event a photo that is not warm is cold, and nothing in flight concerns it.
ArchivedIsCold ==
    status = "archived" => \A p \in photos \ warm : Cold(p) /\ ~InFlight(p)

ColdInv == VerdictsOK /\ ArchiversKnow /\ ArchivedIsCold

LEMMA InitCold == Init => ColdInv
  BY DEF Init, ColdInv, VerdictsOK, ArchiversKnow, ArchivedIsCold, NoTask, NoRun, NoArchival

\* Only the two refreshes keep a verdict, and none of them is ARCHIVED.
LEMMA VerdictsKept ==
  ASSUME TypeOK, VerdictsOK, [Next]_vars
  PROVE  VerdictsOK'
<1> USE DEF VerdictsOK, TypeOK, TasksOK
<1>1. ASSUME NEW w \in Worker, TaskStep(w) \/ TaskFails(w) \/ TaskRetries(w) \/ TaskDies(w)
      PROVE  VerdictsOK'
  <2> USE DEF unchangedByTask, Becomes
  <2>1. ASSUME NEW p \in Photo, TaskStarts(w, p) PROVE VerdictsOK'
    BY <2>1 DEF TaskStarts
  <2>2. CASE TaskMakes(w)
    BY <2>2 DEF TaskMakes, Task
  <2>3. CASE TaskCommits(w)
    BY <2>3 DEF TaskCommits, Task
  <2>4. CASE TaskCools(w)
    BY <2>4 DEF TaskCools, NoTask
  <2>5. CASE TaskFails(w)
    BY <2>5 DEF TaskFails, NoTask
  <2>6. CASE TaskRetries(w) \/ TaskDies(w) \/ TaskWrites(w)
    BY <2>6 DEF TaskRetries, TaskDies, TaskWrites, NoTask
  <2>7. CASE TaskCounts(w)
    <3>1. Verdict(task[w].saw) # "archived"
      BY VerdictTyped DEF Task
    <3> QED
      BY <2>7, <3>1 DEF TaskCounts, Task
  <2> QED
    BY <1>1, <2>1, <2>2, <2>3, <2>4, <2>5, <2>6, <2>7 DEF TaskStep
<1>2. CASE RunRequest \/ RunStep \/ RunDies \/ \E p \in Photo : RunPassesOver(p)
  <2> USE DEF unchangedByRun, taskVars
  <2>1. CASE RunRequest \/ RunLoads \/ RunWrites \/ RunDies
    BY <2>1 DEF RunRequest, RunLoads, RunWrites, RunDies, NoRun
  <2>2. ASSUME NEW p \in Photo, RunStores(p) \/ RunPassesOver(p) PROVE VerdictsOK'
    BY <2>2 DEF RunStores, RunPassesOver, Run
  <2>3. CASE RunFinishes
    BY <2>3 DEF RunFinishes, Run
  <2>4. CASE RunCounts
    <3>1. PICK previous \in {run.saw, status} :
             run' = [run EXCEPT !.at = "writing", !.saw = Verdict(previous)]
      BY <2>4 DEF RunCounts
    <3>2. Verdict(previous) # "archived"
      BY VerdictTyped DEF Run, RowsOK
    <3> QED
      BY <2>4, <3>1, <3>2 DEF RunCounts, Run
  <2> QED
    BY <1>2, <2>1, <2>2, <2>3, <2>4 DEF RunStep
<1>3. CASE ReconcilerStep
  BY <1>3 DEF ReconcilerStep, RevertLoads, RevertCounts, RevertWrites, Recovers, RevertSkips,
              unchangedByRevert, taskVars, NoRun
<1>4. ASSUME NEW p \in Photo, UploadReads(p) \/ Upload(p) PROVE VerdictsOK'
  BY <1>4 DEF UploadReads, Upload, taskVars
<1>5. ASSUME NEW c \in Click, AskReads(c) \/ AskStep(c) \/ AskDies(c) PROVE VerdictsOK'
  BY <1>5 DEF AskReads, AskStep, AskCommits, AskQueues, AskDies, unchangedByAsk, taskVars
<1>6. CASE DailyCheck
  BY <1>6 DEF DailyCheck, unchangedByAsk, taskVars
<1>7. ASSUME NEW a \in Archiver, ArchiveStep(a) \/ ArchiveAborts(a) \/ ArchiveBreaks(a)
      PROVE  VerdictsOK'
  BY <1>7 DEF ArchiveStep, ArchiveLoads, ArchiveMoves, ArchiveDeletes, Deletes, ArchiveCommits,
              ArchiveAborts, ArchiveBreaks, unchangedByArchive, taskVars
<1>8. CASE RestoreStep \/ RestoreBreaks
  BY <1>8 DEF RestoreStep, RestoreLoads, RestoreMoves, RestoreCommits, RestoreQueues,
              RestoreBreaks, unchangedByRestore
<1>9. CASE UNCHANGED vars
  BY <1>9 DEF vars, taskVars
<1> QED
  BY <1>1, <1>2, <1>3, <1>4, <1>5, <1>6, <1>7, <1>8, <1>9 DEF Next, Breaks

\* Whoever writes to a photo takes it from what the archive tasks know.
LEMMA KnowledgeKept ==
  ASSUME TypeOK, ArchiversKnow, [Next]_vars
  PROVE  ArchiversKnow'
<1> USE DEF ArchiversKnow, TypeOK
<1>1. ASSUME NEW w \in Worker, TaskStep(w) \/ TaskFails(w) \/ TaskRetries(w) \/ TaskDies(w)
      PROVE  ArchiversKnow'
  <2> USE DEF unchangedByTask
  <2>1. CASE TaskCommits(w)
    <3>1. task[w].photo \in Photo
      BY <2>1 DEF TaskCommits, TasksOK
    <3> QED
      BY <2>1, <3>1 DEF TaskCommits, Written, RowsOK, RequestsOK, Archival
  <2>2. CASE TaskCools(w)
    <3>1. task[w].photo \in Photo
      BY <2>2 DEF TaskCools, TasksOK
    <3> QED
      BY <2>2, <3>1 DEF TaskCools, Written, RowsOK, RequestsOK, Archival
  <2>3. CASE TaskFails(w)
    <3>1. task[w].photo \in Photo
      BY <2>3 DEF TaskFails, TasksOK
    <3> QED
      BY <2>3, <3>1 DEF TaskFails, Written, RowsOK, RequestsOK, Archival
  <2>4. CASE \/ TaskMakes(w) \/ TaskCounts(w) \/ TaskWrites(w) \/ TaskRetries(w)
             \/ TaskDies(w) \/ \E p \in Photo : TaskStarts(w, p)
    <3>1. UNCHANGED <<key, proc, frozen, arch, behind>>
      BY <2>4 DEF TaskMakes, TaskCounts, TaskWrites, TaskRetries, TaskDies, TaskStarts
    <3> QED
      BY <3>1
  <2> QED
    BY <1>1, <2>1, <2>2, <2>3, <2>4 DEF TaskStep
<1>2. ASSUME NEW a \in Archiver, ArchiveStep(a) \/ ArchiveAborts(a) \/ ArchiveBreaks(a)
      PROVE  ArchiversKnow'
  <2> USE DEF Goes, Forgets, RequestsOK, RowsOK
  <2>1. CASE ArchiveLoads(a)
    BY <2>1 DEF ArchiveLoads, proxied
  <2>2. CASE ArchiveMoves(a)
    BY <2>2 DEF ArchiveMoves, Archival
  <2>3. CASE ArchiveDeletes(a)
    BY <2>3 DEF ArchiveDeletes, Deletes, Archival
  <2>4. CASE ArchiveCommits(a)
    BY <2>4 DEF ArchiveCommits, Archival, NoArchival
  <2>5. CASE ArchiveAborts(a)
    BY <2>5 DEF ArchiveAborts, Archival, NoArchival
  <2>6. CASE ArchiveBreaks(a)
    BY <2>6 DEF ArchiveBreaks, NoArchival
  <2> QED
    BY <1>2, <2>1, <2>2, <2>3, <2>4, <2>5, <2>6 DEF ArchiveStep
<1>3. CASE RestoreStep \/ RestoreBreaks
  <2>1. CASE RestoreMoves
    BY <2>1 DEF RestoreMoves, unchangedByRestore, RequestsOK, Restore
  <2>2. CASE RestoreLoads \/ RestoreCommits \/ RestoreQueues \/ RestoreBreaks
    <3>1. UNCHANGED <<key, proc, frozen, arch, behind>>
      BY <2>2 DEF RestoreLoads, RestoreCommits, RestoreQueues, RestoreBreaks,
                  unchangedByRestore
    <3> QED
      BY <3>1
  <2> QED
    BY <1>3, <2>1, <2>2 DEF RestoreStep
<1>4. CASE \/ \E p \in Photo : UploadReads(p) \/ Upload(p) \/ RunPassesOver(p)
           \/ RunRequest \/ RunStep \/ RunDies
           \/ \E c \in Click : AskReads(c) \/ AskStep(c) \/ AskDies(c)
           \/ DailyCheck \/ ReconcilerStep \/ UNCHANGED vars
  <2>1. UNCHANGED <<key, proc, frozen, arch, behind>>
    <3> USE DEF rowVars, archVars
    <3>1. CASE \E p \in Photo : UploadReads(p) \/ Upload(p)
      BY <3>1 DEF UploadReads, Upload
    <3>2. CASE \/ RunRequest \/ RunStep \/ RunDies \/ \E p \in Photo : RunPassesOver(p)
      BY <3>2 DEF RunRequest, RunStep, RunLoads, RunStores, RunFinishes, RunCounts,
                  RunWrites, RunDies, RunPassesOver, unchangedByRun
    <3>3. CASE DailyCheck \/ \E c \in Click : AskReads(c) \/ AskStep(c) \/ AskDies(c)
      BY <3>3 DEF DailyCheck, AskReads, AskStep, AskCommits, AskQueues, AskDies,
                  unchangedByAsk
    <3>4. CASE ReconcilerStep
      BY <3>4 DEF ReconcilerStep, RevertLoads, RevertCounts, RevertWrites, Recovers,
                  RevertSkips, unchangedByRevert
    <3>5. CASE UNCHANGED vars
      BY <3>5 DEF vars
    <3> QED
      BY <1>4, <3>1, <3>2, <3>3, <3>4, <3>5
  <2> QED
    BY <2>1
<1> QED
  BY <1>1, <1>2, <1>3, <1>4 DEF Next, Breaks

\* A step that does not archive the event, and leaves every photo that is cold and at rest
\* cold and at rest, or makes it warm, or takes the event out of the archive.
Keeps ==
    status' = "archived" =>
        /\ status = "archived"
        /\ \A p \in photos' \ warm' :
              /\ p \in photos \ warm
              /\ Cold(p) /\ ~InFlight(p) => Cold(p)' /\ ~InFlight(p)'

LEMMA KeepsCold ==
  ASSUME ArchivedIsCold, Keeps PROVE ArchivedIsCold'
  BY DEF ArchivedIsCold, Keeps

\* A photo task is in flight for its photo until it is over.
LEMMA TaskKeeps ==
  ASSUME TypeOK, VerdictsOK, NEW w \in Worker,
         TaskStep(w) \/ TaskFails(w) \/ TaskRetries(w) \/ TaskDies(w)
  PROVE  Keeps
<1> USE DEF TypeOK, TasksOK, Keeps, InFlight, Cold, unchangedByTask, restVars, askVars,
            Becomes
<1>1. ASSUME NEW p \in Photo, TaskStarts(w, p) PROVE Keeps
  BY <1>1 DEF TaskStarts, RowsOK
<1>2. CASE TaskMakes(w)
  BY <1>2 DEF TaskMakes, Task, RowsOK
<1>3. CASE TaskCommits(w)
  BY <1>3 DEF TaskCommits, Task, RowsOK
<1>4. CASE TaskCools(w)
  BY <1>4 DEF TaskCools, Task, NoTask, RowsOK
<1>5. CASE TaskFails(w)
  BY <1>5 DEF TaskFails, Task, NoTask, RowsOK
<1>6. CASE TaskRetries(w)
  BY <1>6 DEF TaskRetries, NoTask, RowsOK, OneMore
<1>7. CASE TaskDies(w)
  BY <1>7 DEF TaskDies, NoTask, RowsOK
<1>8. CASE TaskCounts(w)
  BY <1>8 DEF TaskCounts, Task, RowsOK
<1>9. CASE TaskWrites(w)
  BY <1>9 DEF TaskWrites, Write, VerdictsOK, NoTask, RowsOK
<1> QED
  BY <1>1, <1>2, <1>3, <1>4, <1>5, <1>6, <1>7, <1>8, <1>9 DEF TaskStep

\* A face run touches what it has loaded, and needs a request or the reconciler to begin.
LEMMA RunKeeps ==
  ASSUME TypeOK, VerdictsOK,
         \/ RunRequest \/ RunStep \/ RunDies \/ \E p \in Photo : RunPassesOver(p)
  PROVE  Keeps
<1> USE DEF TypeOK, RowsOK, TasksOK, Keeps, InFlight, Cold, unchangedByRun, taskVars,
            restVars
<1>1. CASE RunRequest
  BY <1>1 DEF RunRequest
<1>2. CASE RunLoads
  BY <1>2 DEF RunLoads, Pending
<1>3. ASSUME NEW p \in Photo, RunStores(p) PROVE Keeps
  BY <1>3 DEF RunStores, Run
<1>4. CASE RunFinishes
  BY <1>4 DEF RunFinishes, Run
<1>5. CASE RunCounts
  BY <1>5 DEF RunCounts, Run
<1>6. CASE RunWrites
  BY <1>6 DEF RunWrites, Write, VerdictsOK, NoRun
<1>7. CASE RunDies
  BY <1>7 DEF RunDies, NoRun
<1>8. ASSUME NEW p \in Photo, RunPassesOver(p) PROVE Keeps
  BY <1>8 DEF RunPassesOver, Run
<1> QED
  BY <1>1, <1>2, <1>3, <1>4, <1>5, <1>6, <1>7, <1>8 DEF RunStep

\* A restore begins by taking the event out of the archive.
LEMMA AskKeeps ==
  ASSUME TypeOK, DailyCheck \/ \E c \in Click : AskReads(c) \/ AskStep(c) \/ AskDies(c)
  PROVE  Keeps
<1> USE DEF TypeOK, RequestsOK, Keeps, InFlight, Cold, unchangedByAsk, rowVars, taskVars, Asks
<1>1. CASE DailyCheck
  BY <1>1 DEF DailyCheck
<1>2. ASSUME NEW c \in Click, AskReads(c) PROVE Keeps
  BY <1>2 DEF AskReads
<1>3. ASSUME NEW c \in Click, AskCommits(c) PROVE Keeps
  BY <1>3 DEF AskCommits
<1>4. ASSUME NEW c \in Click, AskQueues(c) PROVE Keeps
  BY <1>4 DEF AskQueues, OneMore
<1>5. ASSUME NEW c \in Click, AskDies(c) PROVE Keeps
  BY <1>5 DEF AskDies
<1> QED
  BY <1>1, <1>2, <1>3, <1>4, <1>5 DEF AskStep

\* While a restore is under way it is in flight for every photo.
LEMMA RestoreKeeps ==
  ASSUME TypeOK, RestoreStep \/ RestoreBreaks
  PROVE  Keeps
<1> USE DEF TypeOK, RowsOK, TasksOK, RequestsOK, Keeps, InFlight, Cold, unchangedByRestore,
            askVars
<1>1. CASE RestoreLoads
  BY <1>1 DEF RestoreLoads
<1>2. CASE RestoreMoves
  BY <1>2 DEF RestoreMoves, Restore
<1>3. CASE RestoreCommits
  BY <1>3 DEF RestoreCommits, Write, Restore, NoWrite
<1>4. CASE RestoreQueues
  BY <1>4 DEF RestoreQueues
<1>5. CASE RestoreBreaks
  BY <1>5 DEF RestoreBreaks
<1> QED
  BY <1>1, <1>2, <1>3, <1>4, <1>5 DEF RestoreStep

\* The reconciler visits no archived event, and an upload is warm.
LEMMA OthersKeep ==
  ASSUME TypeOK, \/ ReconcilerStep \/ UNCHANGED vars
                 \/ \E p \in Photo : UploadReads(p) \/ Upload(p)
  PROVE  Keeps
<1> USE DEF TypeOK, RowsOK, TasksOK, Keeps, InFlight, Cold, rowVars, taskVars, archVars,
            restVars, askVars
<1>1. CASE RevertLoads
  BY <1>1 DEF RevertLoads
<1>2. CASE RevertCounts
  BY <1>2 DEF RevertCounts, unchangedByRevert
<1>3. CASE RevertWrites
  BY <1>3 DEF RevertWrites, unchangedByRevert
<1>4. CASE Recovers
  BY <1>4 DEF Recovers, unchangedByRevert, NoRun
<1>5. CASE RevertSkips
  BY <1>5 DEF RevertSkips, unchangedByRevert
<1>6. ASSUME NEW p \in Photo, UploadReads(p) PROVE Keeps
  BY <1>6 DEF UploadReads
<1>7. ASSUME NEW p \in Photo, Upload(p) PROVE Keeps
  BY <1>7 DEF Upload, Write, NoWrite
<1>8. CASE UNCHANGED vars
  BY <1>8 DEF vars
<1> QED
  BY <1>1, <1>2, <1>3, <1>4, <1>5, <1>6, <1>7, <1>8 DEF ReconcilerStep

\* What an archive task knows at its commit makes its rows cold.
LEMMA CommitIsCold ==
  ASSUME TypeOK, ArchiversKnow, NEW a \in Archiver, ArchiveCommits(a)
  PROVE  ArchivedIsCold'
<1> SUFFICES ASSUME NEW p \in photos', p \notin warm'
             PROVE  Cold(p)' /\ ~InFlight(p)'
  BY DEF ArchivedIsCold
<1>1. p \in arch[a].rows \ behind[a] /\ p \in Photo /\ ~InFlight(p)
  BY DEF ArchiveCommits, unchangedByArchive, TypeOK, RowsOK
<1>2. /\ key[p] # 0 => arch[a].keys[p] # 0
      /\ proc[p] # "pending" => p \in arch[a].settled
      /\ p \in frozen
  BY <1>1 DEF ArchiversKnow, ArchiveCommits
<1>3. Cold(p)'
  BY <1>1, <1>2 DEF Cold, ArchiveCommits, unchangedByArchive
<1>4. ~InFlight(p)'
  BY <1>1 DEF InFlight, ArchiveCommits, unchangedByArchive, taskVars, restVars, askVars
<1> QED
  BY <1>3, <1>4

LEMMA ColdKept ==
  ASSUME TypeOK, ColdInv, [Next]_vars
  PROVE  ArchivedIsCold'
<1> USE DEF ColdInv
<1>1. ASSUME NEW a \in Archiver, ArchiveCommits(a) PROVE ArchivedIsCold'
  BY <1>1, CommitIsCold
<1>2. ASSUME NEW a \in Archiver,
             \/ ArchiveLoads(a) \/ ArchiveMoves(a) \/ ArchiveDeletes(a)
             \/ ArchiveAborts(a) \/ ArchiveBreaks(a)
      PROVE  ArchivedIsCold'
  <2>1. /\ UNCHANGED <<photos, warm, status, key, proc, faces, queue, task, run, done, revert,
                       restores, rest, ask>>
        /\ frozen \subseteq frozen'
    BY <1>2 DEF ArchiveLoads, ArchiveMoves, ArchiveDeletes, Deletes, ArchiveAborts, ArchiveBreaks,
                unchangedByArchive, taskVars, restVars, askVars
  <2>2. Keeps
    BY <2>1 DEF Keeps, Cold, InFlight
  <2> QED
    BY <2>2, KeepsCold
<1>3. CASE \/ \E w \in Worker : \/ TaskStep(w) \/ TaskFails(w) \/ TaskRetries(w)
                                \/ TaskDies(w)
           \/ RunRequest \/ RunStep \/ RunDies \/ \E p \in Photo : RunPassesOver(p)
           \/ DailyCheck \/ \E c \in Click : AskReads(c) \/ AskStep(c) \/ AskDies(c)
           \/ RestoreStep \/ RestoreBreaks \/ ReconcilerStep \/ UNCHANGED vars
           \/ \E p \in Photo : UploadReads(p) \/ Upload(p)
  <2>1. Keeps
    BY <1>3, TaskKeeps, RunKeeps, AskKeeps, RestoreKeeps, OthersKeep
  <2> QED
    BY <2>1, KeepsCold
<1> QED
  BY <1>1, <1>2, <1>3 DEF Next, Breaks, ArchiveStep

\* An archived event is cold, with any number of archive tasks, proxy tasks, restores and
\* uploads at work on it: each photo that is not is one that earlier work could still touch.
THEOREM ArchivedStaysCold == Spec => []ColdUnlessWarm
<1>1. Init => TypeOK /\ ColdInv
  BY InitTyped, InitCold
<1>2. TypeOK /\ ColdInv /\ [Next]_vars => (TypeOK /\ ColdInv)'
  BY StepTyped, VerdictsKept, KnowledgeKept, ColdKept DEF ColdInv
<1>3. ColdInv => ColdUnlessWarm
  BY DEF ColdInv, ArchivedIsCold, ColdUnlessWarm
<1> QED
  BY <1>1, <1>2, <1>3, PTL DEF Spec

-----------------------------------------------------------------------------

\* A proxy that no commit has told of yet is in the bucket, and its key is new to all.
KeysFresh ==
    /\ \A p \in Photo : key[p] <= made[p] /\ \A a \in Archiver : arch[a].keys[p] <= made[p]
    /\ \A w \in Worker : task[w].at = "made" =>
          /\ <<task[w].photo, task[w].new>> \in objects
          /\ task[w].new <= made[task[w].photo]
          /\ task[w].new # key[task[w].photo]
          /\ \A a \in Archiver : arch[a].keys[task[w].photo] # task[w].new
          /\ \A v \in Worker \ {w} :
                task[v].at = "made" /\ task[v].photo = task[w].photo
                    => task[v].new # task[w].new

\* Only a task on its way to its commit, or one that failed on it, has deleted a proxy of
\* a row.
Deleter(a, p) ==
    /\ arch[a].at \in {"deleting", "committing"}
    /\ p \in arch[a].gone \cap arch[a].rows /\ arch[a].keys[p] = key[p]

RowsStored ==
    \A p \in Photo : \/ key[p] = 0 \/ <<p, key[p]>> \in objects \cup torn
                     \/ \E a \in Archiver : Deleter(a, p)

KeysInv == KeysFresh /\ RowsStored

LEMMA InitKeys == Init => KeysInv
<1> SUFFICES ASSUME Init PROVE KeysInv
  OBVIOUS
<1>1. KeysFresh
  BY DEF Init, KeysFresh, NoTask, NoArchival
<1>2. RowsStored
  BY DEF Init, RowsStored
<1> QED
  BY <1>1, <1>2 DEF KeysInv

\* Where no key is drawn, committed or deleted, the keys stay as they are.
LEMMA KeysLeft ==
  ASSUME KeysInv, UNCHANGED <<key, objects, made, arch, torn>>,
         \A w \in Worker : task'[w].at = "made" => task'[w] = task[w]
  PROVE  KeysInv'
  BY DEF KeysInv, KeysFresh, RowsStored, Deleter

\* A proxy task draws a key above all others, and commits the one that it drew.
LEMMA TaskKeys ==
  ASSUME TypeOK, KeysInv, NEW w \in Worker,
         TaskStep(w) \/ TaskFails(w) \/ TaskRetries(w) \/ TaskDies(w)
  PROVE  KeysInv'
<1> USE DEF TypeOK, TasksOK, unchangedByTask, Becomes
<1>1. CASE \/ TaskCools(w) \/ TaskFails(w) \/ TaskRetries(w) \/ TaskDies(w) \/ TaskCounts(w)
           \/ TaskWrites(w) \/ \E p \in Photo : TaskStarts(w, p)
  <2>1. UNCHANGED <<key, objects, made, arch, torn>>
    BY <1>1 DEF TaskCools, TaskFails, TaskRetries, TaskDies, TaskCounts, TaskWrites,
                TaskStarts
  <2>2. \A v \in Worker : task'[v].at = "made" => task'[v] = task[v]
    <3>1. CASE TaskCools(w) \/ TaskFails(w)
      <4>1. Becomes(w, [NoTask EXCEPT !.at = "counting", !.saw = task[w].saw])
        BY <3>1 DEF TaskCools, TaskFails
      <4> QED
        BY <4>1 DEF NoTask
    <3>2. CASE TaskRetries(w) \/ TaskDies(w) \/ TaskWrites(w)
      BY <3>2 DEF TaskRetries, TaskDies, TaskWrites, NoTask
    <3>3. CASE TaskCounts(w)
      BY <3>3 DEF TaskCounts, Task
    <3>4. CASE \E p \in Photo : TaskStarts(w, p)
      BY <3>4 DEF TaskStarts
    <3> QED
      BY <1>1, <3>1, <3>2, <3>3, <3>4
  <2> QED
    BY <2>1, <2>2, KeysLeft
<1>2. CASE TaskMakes(w)
  <2> DEFINE p == task[w].photo
  <2>1. p \in Photo /\ made[p] \in 0..MaxKeys /\ task[w] \in Task
    BY <1>2 DEF TaskMakes
  <2>2. /\ made' = [made EXCEPT ![p] = @ + 1]
        /\ objects' = objects \cup {<<p, made[p] + 1>>}
        /\ UNCHANGED <<key, arch, torn>>
    BY <1>2 DEF TaskMakes
  <2>3. /\ task'[w].at = "made" /\ task'[w].photo = p /\ task'[w].new = made[p] + 1
        /\ \A v \in Worker \ {w} : task'[v] = task[v]
    BY <1>2, <2>1 DEF TaskMakes, Task
  <2>4. \A q \in Photo : made[q] \in Nat /\ made'[q] \in Nat /\ made[q] <= made'[q]
    BY <2>1, <2>2
  <2>5. /\ \A q \in Photo : key[q] \in Nat
        /\ \A a \in Archiver, q \in Photo : arch[a].keys[q] \in Nat
        /\ \A v \in Worker : task[v].new \in Nat
    BY DEF RowsOK, RequestsOK, Archival, Task
  <2> HIDE DEF p
  <2>6. \A q \in Photo : key'[q] <= made'[q] /\ \A a \in Archiver : arch'[a].keys[q] <= made'[q]
    BY <2>2, <2>4, <2>5 DEF KeysInv, KeysFresh
  <2>7. ASSUME NEW v \in Worker, task'[v].at = "made"
        PROVE  /\ <<task'[v].photo, task'[v].new>> \in objects'
               /\ task'[v].new <= made'[task'[v].photo]
               /\ task'[v].new # key'[task'[v].photo]
               /\ \A a \in Archiver : arch'[a].keys[task'[v].photo] # task'[v].new
               /\ \A u \in Worker \ {v} :
                     task'[u].at = "made" /\ task'[u].photo = task'[v].photo
                         => task'[u].new # task'[v].new
    <3>1. CASE v = w
      BY <2>1, <2>2, <2>3, <2>4, <2>5, <2>7, <3>1 DEF KeysInv, KeysFresh
    <3>2. CASE v # w
      <4>1. task'[v] = task[v] /\ task[v].photo \in Photo
        BY <2>3, <2>7, <3>2
      <4> QED
        BY <2>1, <2>2, <2>3, <2>4, <2>5, <2>7, <3>2, <4>1 DEF KeysInv, KeysFresh
    <3> QED
      BY <3>1, <3>2
  <2>8. RowsStored'
    BY <2>2 DEF KeysInv, RowsStored, Deleter
  <2> QED
    BY <2>6, <2>7, <2>8 DEF KeysInv, KeysFresh
<1>3. CASE TaskCommits(w)
  <2> DEFINE p == task[w].photo
  <2>1. p \in Photo /\ task[w] \in Task /\ task[w].at = "made"
    BY <1>3 DEF TaskCommits
  <2>2. /\ key' = [key EXCEPT ![p] = task[w].new]
        /\ UNCHANGED <<objects, made, arch, torn>>
    BY <1>3 DEF TaskCommits
  <2>3. /\ task'[w].at = "committed"
        /\ \A v \in Worker \ {w} : task'[v] = task[v]
    BY <1>3, <2>1 DEF TaskCommits, Task
  <2>4. key \in [Photo -> 0..MaxKeys]
    BY DEF RowsOK
  <2> HIDE DEF p
  <2>5. KeysFresh'
    <3>1. \A q \in Photo :
             \/ key'[q] = key[q] /\ key[q] <= made[q]
             \/ q = p /\ key'[q] = task[w].new /\ task[w].new <= made[q]
      <4>1. task[w].new <= made[p] /\ \A q \in Photo : key[q] <= made[q]
        BY <2>1 DEF KeysInv, KeysFresh, p
      <4>2. \A q \in Photo : key'[q] = IF q = p THEN task[w].new ELSE key[q]
        BY <2>1, <2>2, <2>4
      <4> QED
        BY <4>1, <4>2, Zenon
    <3>2. \A q \in Photo : key'[q] <= made[q] /\ \A a \in Archiver : arch[a].keys[q] <= made[q]
      BY <3>1 DEF KeysInv, KeysFresh
    <3>3. ASSUME NEW v \in Worker, task'[v].at = "made"
          PROVE  /\ task'[v] = task[v] /\ v # w
                 /\ task[v].photo \in Photo
                 /\ task[v].new # key'[task[v].photo]
      <4>1. v # w /\ task'[v] = task[v] /\ task[v].photo \in Photo
        BY <2>3, <3>3
      <4>2. /\ task[v].new # key[task[v].photo]
            /\ task[v].photo = p => task[v].new # task[w].new
        BY <2>1, <3>3, <4>1 DEF KeysInv, KeysFresh, p
      <4> QED
        BY <2>1, <2>2, <2>4, <4>1, <4>2
    <3> QED
      BY <2>2, <3>2, <3>3 DEF KeysInv, KeysFresh
  <2>6. RowsStored'
    BY <2>1, <2>2, <2>4 DEF KeysInv, KeysFresh, RowsStored, Deleter, p
  <2> QED
    BY <2>5, <2>6 DEF KeysInv
<1> QED
  BY <1>1, <1>2, <1>3 DEF TaskStep

\* An archive task deletes only the keys of rows, and then forgets the same.
LEMMA ArchiveKeys ==
  ASSUME TypeOK, KeysInv, NEW a \in Archiver,
         ArchiveStep(a) \/ ArchiveAborts(a) \/ ArchiveBreaks(a)
  PROVE  KeysInv'
<1> USE DEF TypeOK, RowsOK, RequestsOK, unchangedByArchive, taskVars, Goes, KeysInv
<1>1. CASE ArchiveLoads(a)
  BY <1>1 DEF ArchiveLoads, KeysFresh, RowsStored, Deleter
<1>2. CASE ArchiveMoves(a)
  BY <1>2 DEF ArchiveMoves, KeysFresh, RowsStored, Deleter, Archival
<1>3. CASE ArchiveDeletes(a)
  <2>1. PICK batch \in SUBSET Left(a) : Deletes(a, batch, arch[a].keys)
    BY <1>3 DEF ArchiveDeletes
  <2>2. /\ UNCHANGED <<key, made, torn, task>> /\ objects' \subseteq objects
        /\ \A x \in objects \ objects' : x \in {<<p, arch[a].keys[p]>> : p \in batch}
    BY <2>1 DEF Deletes
  <2>3. arch[a].at = "deleting" /\ arch[a] \in Archival
    BY <2>1 DEF Deletes
  <2>4. /\ arch'[a].keys = arch[a].keys /\ arch'[a].rows = arch[a].rows
        /\ arch'[a].gone = arch[a].gone \cup batch
        /\ arch'[a].at \in {"deleting", "committing"}
        /\ \A b \in Archiver \ {a} : arch'[b] = arch[b]
    BY <2>1, <2>3 DEF Deletes, Archival
  <2>5. batch \subseteq arch[a].rows /\ arch[a].rows \subseteq Photo
    BY <2>3 DEF Left, Archival
  <2>6. \A b \in Archiver : arch'[b].keys = arch[b].keys
    BY <2>4
  <2>7. KeysFresh'
    <3>1. ASSUME NEW w \in Worker, task[w].at = "made"
          PROVE  <<task[w].photo, task[w].new>> \in objects'
      <4>1. /\ <<task[w].photo, task[w].new>> \in objects /\ task[w].photo \in Photo
            /\ arch[a].keys[task[w].photo] # task[w].new
        BY <3>1 DEF KeysFresh, TasksOK
      <4> QED
        BY <2>2, <4>1
    <3> QED
      BY <2>2, <2>6, <3>1 DEF KeysFresh
  <2>8. ASSUME NEW p \in Photo, key[p] # 0, <<p, key[p]>> \notin objects' \cup torn
        PROVE  \E b \in Archiver : Deleter(b, p)'
    <3>1. CASE <<p, key[p]>> \in objects
      <4>1. p \in batch /\ arch[a].keys[p] = key[p]
        BY <2>2, <2>8, <3>1
      <4> QED
        BY <2>2, <2>4, <2>5, <4>1 DEF Deleter
    <3>2. CASE <<p, key[p]>> \notin objects
      <4>1. PICK b \in Archiver : Deleter(b, p)
        BY <2>8, <3>2 DEF RowsStored
      <4> QED
        BY <2>2, <2>4, <4>1 DEF Deleter
    <3> QED
      BY <3>1, <3>2
  <2> QED
    BY <2>2, <2>7, <2>8 DEF RowsStored
<1>4. CASE ArchiveCommits(a) \/ ArchiveAborts(a) \/ ArchiveBreaks(a)
  <2>0. \E hit \in SUBSET Photo :
           /\ hit = {} \/ ArchiveBreaks(a)
           /\ objects' = objects \ {<<p, arch[a].keys[p]>> : p \in hit}
           /\ ArchiveBreaks(a) =>
                torn' = torn \cup {<<p, arch[a].keys[p]>> : p \in arch[a].gone \cup hit}
    <3>1. CASE ArchiveBreaks(a)
      <4>1. Left(a) \subseteq Photo
        BY DEF Left, Archival
      <4>2. PICK hit \in SUBSET (IF arch[a].at = "deleting" THEN Left(a) ELSE {}) :
              /\ objects' = objects \ {<<p, arch[a].keys[p]>> : p \in hit}
              /\ torn' = torn \cup {<<p, arch[a].keys[p]>> : p \in arch[a].gone \cup hit}
        BY <3>1 DEF ArchiveBreaks
      <4>3. hit \in SUBSET Photo
        BY <4>1, <4>2
      <4> QED
        BY <3>1, <4>2, <4>3
    <3>2. CASE ~ArchiveBreaks(a)
      <4>1. objects' = objects \ {<<p, arch[a].keys[p]>> : p \in {}}
        <5>1. objects' = objects
          BY <1>4, <3>2 DEF ArchiveCommits, ArchiveAborts
        <5>2. {<<p, arch[a].keys[p]>> : p \in {}} = {}
          OBVIOUS
        <5> QED
          BY <5>1, <5>2
      <4>2. {} \in SUBSET Photo
        OBVIOUS
      <4> WITNESS {} \in SUBSET Photo
      <4> QED
        BY <3>2, <4>1
    <3> QED
      BY <3>1, <3>2
  <2>h. PICK hit \in SUBSET Photo :
           /\ hit = {} \/ ArchiveBreaks(a)
           /\ objects' = objects \ {<<p, arch[a].keys[p]>> : p \in hit}
           /\ ArchiveBreaks(a) =>
                torn' = torn \cup {<<p, arch[a].keys[p]>> : p \in arch[a].gone \cup hit}
    BY <2>0
  <2>1. /\ UNCHANGED <<made, task>>
        /\ arch' = [arch EXCEPT ![a] = NoArchival]
        /\ \A q \in Photo : key'[q] = key[q] \/ key'[q] = 0
        /\ torn \subseteq torn'
    BY <1>4, <2>h DEF ArchiveCommits, ArchiveAborts, ArchiveBreaks
  <2>2. /\ \A q \in Photo : key[q] \in Nat /\ made[q] \in Nat
        /\ \A w \in Worker : <<task[w].photo, task[w].new>> \in objects => task[w].new # 0
        /\ \A w \in Worker : task[w].at = "made" => task[w].photo \in Photo
    BY DEF TasksOK
  <2>3. \A b \in Archiver : arch'[b] = arch[b] \/ arch'[b] = NoArchival
    BY <2>1
  <2>4. \A q \in Photo : NoArchival.keys[q] = 0
    BY DEF NoArchival
  <2>5. KeysFresh'
    <3>1. ASSUME NEW w \in Worker, task[w].at = "made"
          PROVE  <<task[w].photo, task[w].new>> \in objects'
      <4>1. /\ <<task[w].photo, task[w].new>> \in objects /\ task[w].photo \in Photo
            /\ arch[a].keys[task[w].photo] # task[w].new
        BY <3>1 DEF KeysFresh, TasksOK
      <4> QED
        BY <2>h, <4>1
    <3> QED
      BY <2>1, <2>2, <2>3, <2>4, <3>1 DEF KeysFresh
  <2>6. RowsStored'
    <3> SUFFICES ASSUME NEW p \in Photo, key'[p] # 0, <<p, key'[p]>> \notin objects' \cup torn'
                 PROVE  \E b \in Archiver : Deleter(b, p)'
      BY DEF RowsStored
    <3>1. key'[p] = key[p] /\ <<p, key[p]>> \notin torn
      BY <2>1
    <3>2. <<p, key[p]>> \notin objects
      <4>1. SUFFICES ASSUME <<p, key[p]>> \in objects PROVE FALSE
        OBVIOUS
      <4>2. PICK q \in hit : <<p, key[p]>> = <<q, arch[a].keys[q]>>
        BY <2>h, <3>1, <4>1
      <4>3. ArchiveBreaks(a) /\ <<p, key[p]>> \in torn'
        BY <2>h, <4>2
      <4> QED
        BY <3>1, <4>3
    <3>3. PICK b \in Archiver : Deleter(b, p)
      BY <3>1, <3>2 DEF RowsStored
    <3>4. ASSUME b = a PROVE FALSE
      <4>1. CASE ArchiveCommits(a)
        BY <3>1, <3>3, <3>4, <4>1 DEF ArchiveCommits, Deleter
      <4>2. CASE ArchiveAborts(a)
        BY <3>3, <3>4, <4>2 DEF ArchiveAborts, Deleter
      <4>3. CASE ArchiveBreaks(a)
        <5>1. <<p, arch[a].keys[p]>> \in torn'
          BY <2>h, <3>3, <3>4, <4>3 DEF Deleter
        <5> QED
          BY <3>1, <3>3, <3>4, <5>1 DEF Deleter
      <4> QED
        BY <1>4, <4>1, <4>2, <4>3
    <3> QED
      BY <2>1, <3>1, <3>3, <3>4 DEF Deleter
  <2> QED
    BY <2>5, <2>6
<1> QED
  BY <1>1, <1>2, <1>3, <1>4 DEF ArchiveStep

\* Nobody else draws, commits or deletes a key.
LEMMA OtherKeys ==
  ASSUME TypeOK, KeysInv,
         \/ \E p \in Photo : UploadReads(p) \/ Upload(p) \/ RunPassesOver(p)
         \/ RunRequest \/ RunStep \/ RunDies
         \/ \E c \in Click : AskReads(c) \/ AskStep(c) \/ AskDies(c)
         \/ DailyCheck \/ RestoreStep \/ RestoreBreaks \/ ReconcilerStep \/ UNCHANGED vars
  PROVE  KeysInv'
<1> USE DEF TypeOK, RequestsOK, Fault, rowVars, taskVars, archVars, askVars, restVars
<1>1. UNCHANGED <<key, objects, made, arch, torn, task>>
  <2>1. CASE \E p \in Photo : UploadReads(p) \/ Upload(p)
    BY <2>1 DEF UploadReads, Upload
  <2>2. CASE RunRequest \/ RunStep
    BY <2>2 DEF RunRequest, RunStep, RunLoads, RunStores, RunFinishes, RunCounts,
                RunWrites, unchangedByRun
  <2>7. CASE RunDies \/ \E p \in Photo : RunPassesOver(p)
    BY <2>7 DEF RunDies, RunPassesOver, unchangedByRun
  <2>3. CASE DailyCheck \/ \E c \in Click : AskReads(c) \/ AskStep(c) \/ AskDies(c)
    BY <2>3 DEF DailyCheck, AskReads, AskStep, AskCommits, AskQueues, AskDies, unchangedByAsk
  <2>4. CASE RestoreStep \/ RestoreBreaks
    BY <2>4 DEF RestoreStep, RestoreLoads, RestoreMoves, RestoreCommits, RestoreQueues,
                RestoreBreaks, unchangedByRestore
  <2>5. CASE ReconcilerStep
    BY <2>5 DEF ReconcilerStep, RevertLoads, RevertCounts, RevertWrites, Recovers,
                RevertSkips, unchangedByRevert
  <2>6. CASE UNCHANGED vars
    BY <2>6 DEF vars
  <2> QED
    BY <2>1, <2>2, <2>3, <2>4, <2>5, <2>6, <2>7
<1> QED
  BY <1>1, KeysLeft

\* However many archive and proxy tasks overlap, fail and are retried, a row refers to a
\* proxy that is gone only while the task that deleted it has yet to commit, or when it
\* failed there.
THEOREM RowsKeepTheirProxies == Spec => []DanglingIsArchiving
<1>1. Init => TypeOK /\ KeysInv
  BY InitTyped, InitKeys
<1>2. TypeOK /\ KeysInv /\ [Next]_vars => (TypeOK /\ KeysInv)'
  BY StepTyped, TaskKeys, ArchiveKeys, OtherKeys DEF Next, Breaks
<1>3. TypeOK /\ KeysInv => DanglingIsArchiving
  <2>1. TypeOK => photos \subseteq Photo
    BY DEF TypeOK, RowsOK
  <2> QED
    BY <2>1, Zenon DEF KeysInv, RowsStored, Deleter, DanglingIsArchiving
<1> QED
  BY <1>1, <1>2, <1>3, PTL DEF Spec
-----------------------------------------------------------------------------
(* What a restore has taken up. *)

\* Nothing has failed, and no archive task is queued or at work.
Calm == faults = 0 /\ archives = 0 /\ \A a \in Archiver : arch[a].at = "idle"

\* A task that will leave photo p completed: what it takes for completed still is.
Completes(w, p) ==
    /\ task[w].photo = p /\ task[w].at \in {"making", "made"}
    /\ task[w].had = "completed" => proc[p] = "completed"

\* The restore, a message or a task has the photo, or it has its proxy.
Handed(p) ==
    \/ rest.at # "idle" /\ p \in rest.rows
    \/ queue[p] > 0
    \/ \E w \in Worker : Completes(w, p)
    \/ Served(p)

\* A photo that a restore (archival_service.py) has taken up passes from the restore to the
\* queue, from there to a task, and so to its proxy; it is dropped nowhere between, whatever
\* other tasks, with their older copies of the row, uploads, runs and the reconciler do,
\* before a call fails or the event is archived again.
NoneForgotten == [][\A p \in Photo : Calm /\ Handed(p) => Handed(p)' \/ ~Calm']_vars

\* Where rows, queue, tasks and the restore keep what they have, a photo stays handed on.
LEMMA HandedLeft ==
  ASSUME NEW p \in Photo, Handed(p), UNCHANGED <<proc, key, objects, task>>,
         queue[p] > 0 => queue'[p] > 0,
         rest.at # "idle" /\ p \in rest.rows
             => queue'[p] > 0 \/ (rest'.at # "idle" /\ rest'.rows = rest.rows)
  PROVE  Handed(p)'
<1>1. \A w \in Worker : Completes(w, p) => Completes(w, p)'
  BY DEF Completes
<1>2. Served(p) => Served(p)'
  BY DEF Served
<1> QED
  BY <1>1, <1>2 DEF Handed

\* A message is taken by a task that reads the row as it is, and a task that commits leaves the
\* photo completed, the tasks with an older copy of the row included.
LEMMA TaskHands ==
  ASSUME TypeOK, KeysInv, NEW p \in Photo, Handed(p), NEW w \in Worker, TaskStep(w)
  PROVE  Handed(p)'
<1> USE DEF TypeOK, RowsOK, TasksOK, unchangedByTask, restVars, Becomes
<1>1. ASSUME NEW q \in Photo, TaskStarts(w, q) PROVE Handed(p)'
  <2>1. \A v \in Worker : Completes(v, p) => Completes(v, p)'
    BY <1>1 DEF TaskStarts, Completes
  <2>2. q = p => Completes(w, p)'
    BY <1>1 DEF TaskStarts, Completes
  <2>3. q # p => queue'[p] = queue[p]
    BY <1>1 DEF TaskStarts
  <2>4. UNCHANGED <<rest, proc, key, objects>>
    BY <1>1 DEF TaskStarts
  <2> QED
    BY <2>1, <2>2, <2>3, <2>4 DEF Handed, Served
<1>2. CASE TaskMakes(w)
  <2>1. task[w] \in Task /\ UNCHANGED <<proc, queue, rest, key>> /\ objects \subseteq objects'
    BY <1>2 DEF TaskMakes
  <2>2. \A v \in Worker : Completes(v, p) => Completes(v, p)'
    BY <1>2, <2>1 DEF TaskMakes, Completes, Task
  <2> QED
    BY <2>1, <2>2 DEF Handed, Served
<1>3. CASE TaskCommits(w)
  <2> DEFINE q == task[w].photo
  <2>1. /\ q \in Photo /\ task[w].new \in 1..MaxKeys /\ <<q, task[w].new>> \in objects
        /\ UNCHANGED <<queue, rest, objects>>
    BY <1>3 DEF TaskCommits, KeysInv, KeysFresh
  <2>2. \A v \in Worker : v # w => task'[v] = task[v]
    BY <1>3 DEF TaskCommits
  <2>3. \A r \in Photo : r # q => proc'[r] = proc[r] /\ key'[r] = key[r]
    BY <1>3, <2>1 DEF TaskCommits
  <2>4. key'[q] = task[w].new
        /\ proc'[q] = IF task[w].had = "completed" THEN proc[q] ELSE "completed"
    BY <1>3, <2>1 DEF TaskCommits
  <2> HIDE DEF q
  <2>5. Served(p) => Served(p)'
    BY <2>1, <2>3, <2>4 DEF Served
  <2>6. Completes(w, p) => Served(p)'
    BY <2>1, <2>4 DEF Served, Completes, q
  <2>7. \A v \in Worker : v # w /\ Completes(v, p) => Completes(v, p)'
    BY <2>2, <2>3, <2>4 DEF Completes
  <2> QED
    BY <2>1, <2>5, <2>6, <2>7 DEF Handed
<1>4. CASE TaskCools(w) \/ TaskCounts(w) \/ TaskWrites(w)
  <2>1. task[w].at \notin {"making", "made"} /\ UNCHANGED <<proc, queue, rest, key, objects>>
    BY <1>4 DEF TaskCools, TaskCounts, TaskWrites
  <2>2. \A v \in Worker : v # w => task'[v] = task[v]
    BY <1>4 DEF TaskCools, TaskCounts, TaskWrites
  <2>3. \A v \in Worker : Completes(v, p) => Completes(v, p)'
    BY <2>1, <2>2 DEF Completes
  <2> QED
    BY <2>1, <2>3 DEF Handed, Served
<1> QED
  BY <1>1, <1>2, <1>3, <1>4 DEF TaskStep

\* A restore lets go of a photo only when its message is in the queue.
LEMMA RestoreHands ==
  ASSUME TypeOK, NEW p \in Photo, Handed(p), RestoreStep
  PROVE  Handed(p)'
<1> USE DEF TypeOK, TasksOK, RequestsOK, unchangedByRestore
<1>1. UNCHANGED <<proc, key, objects, task>>
  BY DEF RestoreStep, RestoreLoads, RestoreMoves, RestoreCommits, RestoreQueues
<1>2. queue[p] > 0 => queue'[p] > 0
  BY ArchiveAssumption
     DEF RestoreStep, RestoreLoads, RestoreMoves, RestoreCommits, RestoreQueues, Queues, OneMore
<1>3. ASSUME rest.at # "idle", p \in rest.rows
      PROVE  queue'[p] > 0 \/ (rest'.at # "idle" /\ rest'.rows = rest.rows)
  <2>1. CASE RestoreMoves
    BY <1>3, <2>1 DEF RestoreMoves, Restore
  <2>2. CASE RestoreCommits
    BY <1>3, <2>2 DEF RestoreCommits, Restore
  <2>3. CASE RestoreQueues
    BY <1>3, <2>3, ArchiveAssumption DEF RestoreQueues, Queues, OneMore
  <2> QED
    BY <1>3, <2>1, <2>2, <2>3 DEF RestoreStep, RestoreLoads
<1> QED
  BY <1>1, <1>2, <1>3, HandedLeft

\* Uploads, runs, requests and the reconciler touch neither proxies nor their tasks.
LEMMA OthersHand ==
  ASSUME TypeOK, NEW p \in Photo, Handed(p),
         \/ \E q \in Photo : UploadReads(q) \/ Upload(q)
         \/ RunRequest \/ RunStep \/ DailyCheck \/ ReconcilerStep
         \/ \E c \in Click : AskReads(c) \/ AskStep(c)
  PROVE  Handed(p)'
<1> USE DEF TypeOK, TasksOK, rowVars, taskVars, restVars
<1>1. UNCHANGED <<proc, key, objects, task, rest>> /\ (queue[p] > 0 => queue'[p] > 0)
  <2>1. CASE \E q \in Photo : UploadReads(q) \/ Upload(q)
    BY <2>1, ArchiveAssumption DEF UploadReads, Upload, OneMore
  <2>2. CASE RunRequest \/ RunStep
    BY <2>2 DEF RunRequest, RunStep, RunLoads, RunStores, RunFinishes, RunCounts,
                RunWrites, unchangedByRun
  <2>3. CASE DailyCheck \/ \E c \in Click : AskReads(c) \/ AskStep(c)
    BY <2>3 DEF DailyCheck, AskReads, AskStep, AskCommits, AskQueues, unchangedByAsk
  <2>4. CASE ReconcilerStep
    BY <2>4 DEF ReconcilerStep, RevertLoads, RevertCounts, RevertWrites, Recovers,
                RevertSkips, unchangedByRevert
  <2> QED
    BY <2>1, <2>2, <2>3, <2>4
<1> QED
  BY <1>1, HandedLeft

\* A call that fails, and an archive task, end the promise.
LEMMA HandedUnless ==
  ASSUME TypeOK, KeysInv, [Next]_vars, NEW p \in Photo, Calm, Handed(p)
  PROVE  Handed(p)' \/ ~Calm'
<1>1. CASE Breaks
  <2>1. Fault \/ \E c \in Click : AskDies(c)
    BY <1>1 DEF Breaks, TaskFails, TaskRetries, TaskDies, AskDies, ArchiveAborts, ArchiveBreaks,
                RunDies, RestoreBreaks, RunPassesOver
  <2>2. faults' # 0
    BY <2>1 DEF AskDies, Fault, TypeOK, RequestsOK
  <2> QED
    BY <2>2 DEF Calm
<1>2. CASE \E a \in Archiver : ArchiveStep(a)
  <2>1. PICK a \in Archiver : ArchiveStep(a)
    BY <1>2
  <2>2. arch[a].at # "idle" \/ archives > 0
    BY <2>1 DEF ArchiveStep, ArchiveLoads, ArchiveMoves, ArchiveDeletes, Deletes, ArchiveCommits
  <2> QED
    BY <2>2 DEF Calm
<1>3. CASE UNCHANGED vars
  BY <1>3, HandedLeft DEF vars, rowVars, taskVars, restVars
<1> QED
  BY <1>1, <1>2, <1>3, TaskHands, RestoreHands, OthersHand DEF Next

\* However many archive tasks, proxy tasks and requests there have been, a restored photo is
\* on its way to its proxy until it has it, a call fails, or the next archival is queued.
THEOREM RestoredAreKept == Spec => NoneForgotten
<1>1. Init => TypeOK /\ KeysInv
  BY InitTyped, InitKeys
<1>2. TypeOK /\ KeysInv /\ [Next]_vars => (TypeOK /\ KeysInv)'
  BY StepTyped, TaskKeys, ArchiveKeys, OtherKeys DEF Next, Breaks
<1>3. TypeOK /\ KeysInv /\ [Next]_vars
          => [\A p \in Photo : Calm /\ Handed(p) => Handed(p)' \/ ~Calm']_vars
  BY HandedUnless
<1> QED
  BY <1>1, <1>2, <1>3, PTL DEF Spec, NoneForgotten
==============================================================================
