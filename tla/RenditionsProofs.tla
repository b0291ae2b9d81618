--------------------------- MODULE RenditionsProofs ---------------------------
(***************************************************************************)
(* Theorems about Renditions, for any photos, workers and requests, and    *)
(* for every bound.                                                        *)
(*                                                                         *)
(* A watermark that a request has brought is nobody's old one before the   *)
(* row names it, so no request deletes it (ProfileInv).  A photo that a    *)
(* backfill has in its batch is one that no photo task works on            *)
(* (AgreeInv), and the photos that still need thumbnails only become fewer *)
(* (ReachInv).  And until a photo is processed again, one message at most  *)
(* is about it, whose task knows what the original shows (MarkInv).        *)
(***************************************************************************)
EXTENDS Renditions, FiniteSetTheorems, TLAPS

USE RenditionsAssumption

-----------------------------------------------------------------------------
(* The inductive invariants *)

Active(r) == upload[r] # Idle

ProfileInv ==
    /\ WatermarkServes
    /\ \A r \in Request : Active(r) => \/ upload[r].new \in assets \ {watermark}
                                 \/ upload[r].new \in named
    /\ \A q, r \in Request :
          Active(q) /\ Active(r) => /\ upload[q].old # upload[r].new \/ upload[r].new \in named
                                    /\ q # r => upload[q].new # upload[r].new

\* A message about the photo waits, or a worker has it.
Waits(p)    == \E n \in 0..MaxTries : <<p, n>> \in queue
OnIt(w, p)  == ~At(w, "idle") /\ task[w].photo = p
Works(p)    == Waits(p) \/ \E w \in Worker : OnIt(w, p)
Bare(p)     == proxy[p] # 0 /\ thumb[p] = 0

\* What the backfill has of a photo is its proxy.
Holds(p, batch) == p \in DOMAIN batch => batch[p] = proxy[p] /\ ~Works(p)

AgreeInv ==
    /\ \A p \in photos \ crossed : thumb[p] \in {0, proxy[p]}
    /\ \A p \in photos : Bare(p) => ~Works(p) /\ shelf # "now"
    /\ backfill.at = "deriving" =>
          \A p \in photos \ crossed :
              /\ Holds(p, backfill.todo) /\ Holds(p, backfill.got)
              /\ p \in DOMAIN backfill.todo \cup DOMAIN backfill.got => shelf # "now"

\* The newest of the photos that need thumbnails are in the batch, unless they can not be made.
ReachInv ==
    /\ Missing # {} => crossed = {}
    /\ backfill.at = "deriving" /\ ~backfill.hit =>
          Batch \subseteq DOMAIN backfill.todo \cup DOMAIN backfill.got \cup Unreadable
    /\ backfill.at = "counting" /\ ~backfill.hit /\ backfill.got = None =>
          Batch \subseteq Unreadable

\* What a worker knows of the photo it has: whether the original is as it was
\* uploaded, and how often its new proxy has been marked.
Fresh(w) == task[w].at \in {"make", "mark", "read", "write"} \/ task[w].logo = 0

Knows(w) ==
    LET t == task[w]
        x == <<t.photo, t.new>>
    IN  /\ Fresh(w) => original[t.photo] = 0
        /\ t.at \in {"mark", "read", "write"} => t.logo # 0
        /\ t.at \in {"mark", "read", "write", "save"} => t.new # proxy[t.photo]
        /\ t.at = "mark" => marks[x] = 0 /\ x \notin plain
        /\ t.at \in {"read", "write"} => marks[x] = 1 /\ x \notin plain
        /\ t.at = "save" => marks[x] = (IF x \in plain THEN 0 ELSE 1)

\* A photo has one message, or one worker, until it is processed again.
Alone(p) ==
    /\ \A m, n \in 0..MaxTries : <<p, m>> \in queue /\ <<p, n>> \in queue => m = n
    /\ \A w \in Worker : OnIt(w, p) => ~Waits(p)
    /\ \A v, w \in Worker : OnIt(v, p) /\ OnIt(w, p) => v = w

KeysInv ==
    /\ \A p \in Photo : proxy[p] <= made[p]
    /\ \A w \in Worker : ~At(w, "idle") => /\ task[w].new <= made[task[w].photo]
                                           /\ At(w, "make") \/ task[w].new # 0

Shown(p) ==
    proxy[p] # 0 => marks[<<p, proxy[p]>>] = (IF <<p, proxy[p]>> \in plain THEN 0 ELSE 1)

Known(p) ==
    /\ Alone(p)
    /\ Waits(p) => original[p] = 0
    /\ \A w \in Worker : OnIt(w, p) => Knows(w)

MarkInv == \A p \in photos \ redone : Shown(p) /\ Known(p)

-----------------------------------------------------------------------------
(* Type correctness *)

LEMMA InitTyped == Init => TypeOK
<1> SUFFICES ASSUME Init PROVE TypeOK
  OBVIOUS
<1> PICK old \in SUBSET Photo : Init!(old)
  BY DEF Init
<1>a. 0 \in OrNone /\ 1 \in OrNone /\ 1 \in Key /\ watermark \in Marks /\ 0 \in Marks
  BY DEF OrNone, Key, Marks
<1>b. /\ status = [p \in Photo |-> IF p \in old THEN "completed" ELSE "pending"]
      /\ proxy = [p \in Photo |-> IF p \in old THEN 1 ELSE 0] /\ made = proxy
      /\ thumb = [p \in Photo |-> 0]
  OBVIOUS
<1>1. RowsOK
  BY <1>a, <1>b DEF RowsOK
<1>c. original \in [Photo -> Marks]
  BY <1>a
<1>d. marks \in [Photo \X Key -> Marks]
  BY <1>a, <1>c
<1>e. plain \subseteq Photo \X Key
  BY <1>a
<1>4. ObjectsOK
  BY <1>a, <1>b, <1>c, <1>d, <1>e DEF ObjectsOK
<1>2. TasksOK /\ ProfileOK
  BY DEF Init, TasksOK, ProfileOK, Tasks, Names, Foreign
<1>3. backfill \in Backfills
  <2>1. None \in [{} -> Key] /\ {} \in SUBSET Photo
    BY DEF None
  <2>2. None \in Batches
    BY <2>1, Zenon DEF Batches
  <2> QED
    BY <2>2 DEF Init, Resting, Backfills
<1> QED
  BY <1>1, <1>2, <1>3, <1>4 DEF TypeOK

\* A worker that is not idle has all there is to know of its run.
LEMMA RunTyped ==
  ASSUME TasksOK, NEW w \in Worker, ~At(w, "idle")
  PROVE  task[w] \in Runs
  BY DEF TasksOK, Tasks, Idle, At

LEMMA FieldsTyped ==
  ASSUME NEW t \in Runs, NEW at \in Steps, NEW n \in OrNone, NEW m \in Marks, NEW l \in Logo
  PROVE  /\ [t EXCEPT !.at = at] \in Runs
         /\ [t EXCEPT !.new = n] \in Runs
         /\ [t EXCEPT !.copy = m] \in Runs
         /\ [t EXCEPT !.logo = l] \in Runs
  BY DEF Runs

\* A worker goes on to a record of its task, or rests.
LEMMA BecomesTyped ==
  ASSUME TasksOK, NEW w \in Worker, NEW t \in Tasks, task' = [task EXCEPT ![w] = t]
  PROVE  task' \in [Worker -> Tasks]
  BY DEF TasksOK

LEMMA GoesTyped ==
  ASSUME TasksOK, NEW w \in Worker, ~At(w, "idle"), NEW at \in Steps, Goes(w, at)
  PROVE  task' \in [Worker -> Tasks]
<1>1. [task[w] EXCEPT !.at = at] \in Tasks
  <2>1. task[w] \in Runs
    BY RunTyped
  <2> QED
    BY <2>1 DEF Runs, Tasks
<1>2. task' = [task EXCEPT ![w] = [task[w] EXCEPT !.at = at]]
  BY DEF Goes
<1> QED
  BY <1>1, <1>2, BecomesTyped

LEMMA RestsTyped ==
  ASSUME TasksOK, NEW w \in Worker, Rests(w)
  PROVE  task' \in [Worker -> Tasks]
  BY BecomesTyped DEF Rests, Tasks

\* The rows, the objects and the batch of the backfill keep their types in a step
\* of a photo task.
LEMMA TaskTyped ==
  ASSUME TypeOK, NEW w \in Worker, TaskStep(w) \/ TaskRetries(w) \/ TaskFails(w) \/ TaskDies(w)
  PROVE  TypeOK'
<1> USE DEF TypeOK, rows, objects, profile, ghosts
<1>0. UNCHANGED <<backfill, profile>> => (backfill \in Backfills /\ ProfileOK)'
  BY DEF ProfileOK, Names
<1>a. faults' = faults \/ Fault => faults' \in 0..MaxFaults
  BY DEF TasksOK, Fault
<1>1. ASSUME NEW p \in Photo, NEW n \in 0..MaxTries, TaskLoads(w, p, n) PROVE TypeOK'
  <2>1. [at |-> "make", photo |-> p, tries |-> n, new |-> 0, copy |-> 0, logo |-> 0] \in Tasks
    BY DEF Tasks, Runs, Steps, OrNone, Marks, Logo
  <2>2. TasksOK'
    BY <1>1, <2>1, BecomesTyped DEF TaskLoads, TasksOK
  <2> QED
    BY <1>0, <1>1, <2>2 DEF TaskLoads, RowsOK, ObjectsOK
<1>2. CASE TaskMakes(w)
  <2> DEFINE p == task[w].photo
             l == watermark
             a == IF watermark = 0 THEN "save" ELSE "mark"
             k == made[p] + 1
  <2>1. task[w] \in Runs /\ p \in Photo
    BY <1>2, RunTyped DEF TaskMakes, At, Runs
  <2>2. k \in Key /\ k \in OrNone /\ l \in Logo /\ a \in Steps
    BY <1>2, <2>1 DEF TaskMakes, ObjectsOK, Key, OrNone, ProfileOK, Names, Foreign, Logo,
                          Steps
  <2>3. [[[task[w] EXCEPT !.new = k] EXCEPT !.logo = l] EXCEPT !.at = a] \in Runs
    <3> HIDE DEF k, l, a
    <3>1. \A t \in Runs : [t EXCEPT !.new = k] \in Runs
      BY <2>2 DEF Runs
    <3>2. \A t \in Runs : [t EXCEPT !.logo = l] \in Runs
      BY <2>2 DEF Runs
    <3>3. \A t \in Runs : [t EXCEPT !.at = a] \in Runs
      BY <2>2 DEF Runs
    <3> QED
      BY <2>1, <3>1, <3>2, <3>3
  <2>4. task' = [task EXCEPT ![w] = [[[task[w] EXCEPT !.new = k] EXCEPT !.logo = l]
                                       EXCEPT !.at = a]]
    BY <1>2 DEF TaskMakes, TasksOK
  <2>5. TasksOK'
    <3> HIDE DEF k, l, a, p
    <3> QED
      BY <1>2, <2>3, <2>4, BecomesTyped DEF TaskMakes, TasksOK, Tasks
  <2>6. made' \in [Photo -> OrNone] /\ marks' \in [Photo \X Key -> Marks]
    <3>1. made' = [made EXCEPT ![p] = k] /\ marks' = [marks EXCEPT ![<<p, k>>] = original[p]]
      BY <1>2 DEF TaskMakes
    <3>2. original[p] \in Marks
      BY <2>1 DEF ObjectsOK
    <3> HIDE DEF k, p
    <3> QED
      BY <2>1, <2>2, <3>1, <3>2 DEF ObjectsOK
  <2>7. plain' \subseteq Photo \X Key
    <3>1. made'[p] = k
      BY <1>2, <2>1 DEF TaskMakes, ObjectsOK
    <3>2. plain' \subseteq plain \cup {<<p, k>>}
      BY <1>2, <3>1 DEF TaskMakes
    <3> HIDE DEF k, p
    <3> QED
      BY <2>1, <2>2, <3>2 DEF ObjectsOK
  <2>8. ObjectsOK'
    BY <1>2, <2>6, <2>7 DEF TaskMakes, ObjectsOK
  <2> QED
    BY <1>0, <1>2, <2>5, <2>8 DEF TaskMakes, RowsOK
<1>b. ASSUME NEW at \in Steps, ~At(w, "idle"), Goes(w, at), UNCHANGED <<queue, faults>>
      PROVE  TasksOK'
  BY <1>b, GoesTyped DEF TasksOK
<1>c. ASSUME Rests(w), queue' \subseteq Photo \X (0..MaxTries), faults' \in 0..MaxFaults
      PROVE  TasksOK'
  BY <1>c, RestsTyped DEF TasksOK
<1>d. {"mark", "read", "write", "save", "cool"} \subseteq Steps
  BY DEF Steps
<1>e. ~At(w, "idle") => /\ task[w] \in Runs /\ task[w].photo \in Photo
                        /\ task[w].new \in OrNone /\ task[w].copy \in Marks
                        /\ task[w].tries \in 0..MaxTries
  BY RunTyped DEF Runs
<1>f. ~At(w, "idle") /\ Overwrites(w) => original' \in [Photo -> Marks]
  BY <1>e DEF Overwrites, ObjectsOK, Marks
<1>3. CASE TaskMarks(w)
  <2> DEFINE x == <<task[w].photo, task[w].new>>
  <2>1. marks' \in [Photo \X Key -> Marks]
    <3>1. \A y \in Photo \X Key : marks[y] + 1 \in Marks
      BY DEF ObjectsOK, Marks
    <3>2. marks' = [marks EXCEPT ![x] = marks[x] + 1]
      BY <1>3 DEF TaskMarks
    <3> HIDE DEF x
    <3>3. CASE x \in Photo \X Key
      BY <3>1, <3>2, <3>3 DEF ObjectsOK
    <3>4. CASE x \notin Photo \X Key
      BY <3>2, <3>4 DEF ObjectsOK
    <3> QED
      BY <3>3, <3>4
  <2> QED
    BY <1>0, <1>3, <1>b, <1>d, <2>1 DEF TaskMarks, At, RowsOK, ObjectsOK
<1>4. CASE TaskReads(w)
  <2> DEFINE c == original[task[w].photo]
  <2>1. c \in Marks /\ task[w] \in Runs
    BY <1>4, <1>e DEF TaskReads, At, ObjectsOK
  <2>2. [[task[w] EXCEPT !.at = "write"] EXCEPT !.copy = c] \in Runs
    <3> HIDE DEF c
    <3>1. [task[w] EXCEPT !.at = "write"] \in Runs
      BY <2>1, <1>d DEF Runs
    <3>2. \A t \in Runs : [t EXCEPT !.copy = c] \in Runs
      BY <2>1 DEF Runs
    <3> QED
      BY <3>1, <3>2
  <2>3. task' = [task EXCEPT ![w] = [[task[w] EXCEPT !.at = "write"] EXCEPT !.copy = c]]
    BY <1>4 DEF TaskReads, TasksOK
  <2>4. TasksOK'
    <3> HIDE DEF c
    <3> QED
      BY <1>4, <2>2, <2>3, BecomesTyped DEF TaskReads, TasksOK, Tasks
  <2> QED
    BY <1>0, <1>4, <2>4 DEF TaskReads, RowsOK, ObjectsOK
<1>5. CASE TaskWrites(w)
  BY <1>0, <1>5, <1>b, <1>d, <1>f DEF TaskWrites, At, RowsOK, ObjectsOK
<1>6. CASE TaskSaves(w)
  <2> DEFINE p == task[w].photo
             k == task[w].new
  <2>1. p \in Photo /\ k \in OrNone /\ ~At(w, "idle")
    BY <1>6, <1>e DEF TaskSaves, At
  <2>2. CASE p \in photos
    <3>1. /\ status' = [status EXCEPT ![p] = "completed"] /\ proxy' = [proxy EXCEPT ![p] = k]
          /\ thumb' = [thumb EXCEPT ![p] = k] /\ Goes(w, "cool")
      BY <1>6, <2>2 DEF TaskSaves, TaskDerives
    <3> HIDE DEF p, k
    <3>2. RowsOK'
      BY <1>6, <2>1, <3>1 DEF TaskSaves, RowsOK
    <3> QED
      BY <1>0, <1>6, <1>b, <1>d, <2>1, <3>1, <3>2 DEF TaskSaves, ObjectsOK
  <2>3. CASE p \notin photos
    BY <1>0, <1>6, <1>c, <2>3 DEF TaskSaves, RowsOK, ObjectsOK, TasksOK
  <2> QED
    BY <2>2, <2>3
<1>7. CASE TaskCools(w)
  BY <1>0, <1>7, <1>c DEF TaskCools, RowsOK, ObjectsOK, TasksOK
<1>8. CASE TaskRetries(w)
  <2> DEFINE p == task[w].photo
             n == task[w].tries
  <2>1. ~At(w, "idle") /\ p \in Photo /\ n \in 0..MaxTries
    BY <1>8, <1>e DEF TaskRetries, At
  <2>2. queue' \subseteq Photo \X (0..MaxTries)
    <3>1. n < MaxTries => n + 1 \in 0..MaxTries
      BY <2>1
    <3>2. queue' \subseteq queue \cup {<<p, n + 1>>} /\ (n < MaxTries \/ queue' = queue)
      BY <1>8 DEF TaskRetries
    <3> HIDE DEF p, n
    <3> QED
      BY <2>1, <3>1, <3>2 DEF TasksOK
  <2>3. redone' \subseteq Photo
    BY <1>8, <2>1 DEF TaskRetries, ObjectsOK
  <2>4. original' \in [Photo -> Marks]
    BY <1>8, <2>1, <1>f DEF TaskRetries, ObjectsOK
  <2>5. faults' \in 0..MaxFaults
    BY <1>8, <1>a DEF TaskRetries
  <2> QED
    BY <1>0, <1>8, <1>c, <2>2, <2>3, <2>4, <2>5 DEF TaskRetries, RowsOK, ObjectsOK
<1>9. CASE TaskFails(w)
  BY <1>0, <1>9, <1>a, <1>c DEF TaskFails, RowsOK, ObjectsOK, TasksOK
<1>10. CASE TaskDies(w)
  BY <1>0, <1>10, <1>a, <1>c DEF TaskDies, RowsOK, ObjectsOK, TasksOK
<1> QED
  BY <1>1, <1>2, <1>3, <1>4, <1>5, <1>6, <1>7, <1>8, <1>9, <1>10 DEF TaskStep

\* A batch is a function from some photos to keys.
LEMMA BatchTyped ==
  ASSUME NEW S \in SUBSET Photo, NEW b \in [S -> Key]
  PROVE  b \in Batches
  BY Zenon DEF Batches

LEMMA BatchIs ==
  ASSUME NEW b \in Batches
  PROVE  DOMAIN b \in SUBSET Photo /\ b \in [DOMAIN b -> Key]
<1>1. PICK D \in SUBSET Photo : b \in [D -> Key]
  BY Zenon DEF Batches
<1>2. DOMAIN b = D
  BY <1>1
<1> QED
  BY <1>1, <1>2

LEMMA BatchStays ==
  ASSUME NEW b \in Batches, NEW p \in Photo, NEW k \in Key
  PROVE  None \in Batches /\ Without(b, p) \in Batches /\ With(b, p, k) \in Batches
<1>1. DOMAIN b \in SUBSET Photo /\ b \in [DOMAIN b -> Key]
  BY BatchIs
<1>2. None \in [{} -> Key]
  BY DEF None
<1>3. Without(b, p) \in [DOMAIN b \ {p} -> Key]
  BY <1>1 DEF Without
<1>4. With(b, p, k) \in [DOMAIN b \cup {p} -> Key]
  BY <1>1 DEF With
<1>5. {} \in SUBSET Photo /\ DOMAIN b \ {p} \in SUBSET Photo /\ DOMAIN b \cup {p} \in SUBSET Photo
  BY <1>1
<1> QED
  BY <1>2, <1>3, <1>4, <1>5, BatchTyped, Zenon

\* What the backfill loads: photos of the event that have a proxy and no thumbnail.
LEMMA BatchLoaded ==
  ASSUME RowsOK
  PROVE  /\ Batch \subseteq {p \in photos : Bare(p)}
         /\ [p \in Batch |-> proxy[p]] \in Batches
<1>1. Batch \subseteq {p \in photos : Bare(p)}
  BY DEF Batch, Missing, Bare
<1>2. \A p \in Batch : proxy[p] \in Key
  BY <1>1 DEF Bare, RowsOK, OrNone, Key
<1>3. Batch \in SUBSET Photo /\ [p \in Batch |-> proxy[p]] \in [Batch -> Key]
  BY <1>1, <1>2 DEF RowsOK
<1> QED
  BY <1>1, <1>3, BatchTyped, Zenon

LEMMA RestingTyped == Resting \in Backfills
<1>1. None \in [{} -> Key] /\ {} \in SUBSET Photo
  BY DEF None
<1>2. None \in Batches
  BY <1>1, BatchTyped, Zenon
<1> QED
  BY <1>2 DEF Resting, Backfills

LEMMA BackfillTyped ==
  ASSUME TypeOK, \/ BackfillCalled \/ BackfillStep \/ BackfillDies
                 \/ \E p \in Photo : BackfillSkips(p)
  PROVE  TypeOK'
<1> USE DEF TypeOK, rows, objects, profile, ghosts
<1>0. UNCHANGED profile => ProfileOK'
  BY DEF ProfileOK, Names
<1>1. backfill \in Backfills /\ backfill.todo \in Batches /\ backfill.got \in Batches
  BY DEF Backfills
<1>a. Fault => faults' \in 0..MaxFaults
  BY DEF Fault, TasksOK
<1>2. CASE BackfillCalled
  <2>1. backfill' \in Backfills
    BY <1>2, RestingTyped DEF BackfillCalled, Backfills
  <2> QED
    BY <1>0, <1>2, <2>1 DEF BackfillCalled, RowsOK, ObjectsOK, TasksOK
<1>3. CASE BackfillLoads
  <2> DEFINE b == [p \in Batch |-> proxy[p]]
  <2>1. b \in Batches /\ None \in Batches
    BY BatchLoaded, RestingTyped DEF Resting, Backfills
  <2>2. backfill' = [backfill EXCEPT !.at = "deriving", !.todo = b, !.got = None]
    BY <1>3 DEF BackfillLoads
  <2>3. backfill' \in Backfills
    <3> HIDE DEF b
    <3> QED
      BY <1>1, <2>1, <2>2 DEF Backfills
  <2> QED
    BY <1>0, <1>3, <2>3 DEF BackfillLoads, RowsOK, ObjectsOK, TasksOK
<1>4. ASSUME NEW p \in Photo, BackfillDerives(p) PROVE TypeOK'
  <2> DEFINE k == backfill.todo[p]
             b == Without(backfill.todo, p)
             c == IF Readable(p, k) THEN With(backfill.got, p, k) ELSE backfill.got
  <2>1. k \in Key
    BY <1>1, <1>4, BatchIs DEF BackfillDerives, Turn
  <2>2. b \in Batches /\ c \in Batches
    <3> HIDE DEF k
    <3> QED
      BY <1>1, <2>1, BatchStays
  <2>3. backfill' = [backfill EXCEPT !.todo = b, !.got = c]
    BY <1>4 DEF BackfillDerives
  <2>4. backfill' \in Backfills
    <3> HIDE DEF b, c
    <3> QED
      BY <1>1, <2>2, <2>3 DEF Backfills
  <2> QED
    BY <1>0, <1>4, <2>4 DEF BackfillDerives, RowsOK, ObjectsOK, TasksOK
<1>5. CASE BackfillCommits
  <2>1. \A p \in DOMAIN backfill.got : backfill.got[p] \in OrNone
    BY <1>1, BatchIs DEF Key, OrNone
  <2>2. thumb' \in [Photo -> OrNone]
    BY <1>5, <2>1 DEF BackfillCommits, RowsOK
  <2>3. backfill' \in Backfills
    BY <1>5 DEF BackfillCommits, Backfills
  <2> QED
    BY <1>0, <1>5, <2>2, <2>3 DEF BackfillCommits, RowsOK, ObjectsOK, TasksOK
<1>6. CASE BackfillBreaks
  BY <1>0, <1>6, RestingTyped DEF BackfillBreaks, RowsOK, ObjectsOK, TasksOK
<1>7. CASE BackfillCounts
  <2>1. backfill' \in Backfills
    BY <1>1, <1>7, RestingTyped DEF BackfillCounts, Backfills
  <2> QED
    BY <1>0, <1>7, <2>1 DEF BackfillCounts, RowsOK, ObjectsOK, TasksOK
<1>8. CASE BackfillDies
  BY <1>0, <1>8, RestingTyped DEF BackfillDies, Fault, RowsOK, ObjectsOK, TasksOK
<1>9. ASSUME NEW p \in Photo, BackfillSkips(p) PROVE TypeOK'
  <2> DEFINE b == Without(backfill.todo, p)
  <2>1. b \in Batches
    BY <1>1, BatchStays, 1 \in Key DEF Key
  <2>2. backfill' = [backfill EXCEPT !.todo = b, !.hit = TRUE]
    BY <1>9 DEF BackfillSkips
  <2>3. backfill' \in Backfills
    <3> HIDE DEF b
    <3> QED
      BY <1>1, <2>1, <2>2 DEF Backfills
  <2> QED
    BY <1>0, <1>9, <1>a, <2>3 DEF BackfillSkips, RowsOK, ObjectsOK, TasksOK
<1> QED
  BY <1>2, <1>3, <1>4, <1>5, <1>6, <1>7, <1>8, <1>9 DEF BackfillStep

\* The names there are become more with every change that is begun, by one key that is new.
LEMMA NamesGrow ==
  ASSUME ProfileOK, Edits
  PROVE  /\ Names \subseteq Names' /\ edits + 2 \in Names' \ {0} /\ edits + 2 \notin Names
         /\ edits' \in 0..MaxEdits
  BY DEF ProfileOK, Edits, Names, Foreign

\* A watermark's number stays within the changes that have been begun.
LEMMA ProfileTyped ==
  ASSUME TypeOK, \/ \E r \in Request : Uploads(r) \/ UploadFails(r)
                 \/ \E name \in Logo : ProfileNames(name)
  PROVE  TypeOK'
<1> DEFINE U == [at : {"drop", "save"}, old : Names, new : Names]
<1> USE DEF TypeOK, rows, objects, ghosts
<1>1. /\ upload \in [Request -> {Idle} \cup U] /\ 0 \in Names
      /\ \A r \in Request : upload[r].at \in {"drop", "save"} => upload[r] \in U
  BY DEF ProfileOK, Idle, Names
<1>a. edits' = edits => Names' = Names
  BY DEF Names
<1>b. Edits => /\ Names \subseteq Names' /\ edits + 2 \in Names' \ {0} /\ edits' \in 0..MaxEdits
  BY NamesGrow
<1>2. ASSUME NEW r \in Request, UploadPuts(r) PROVE TypeOK'
  <2> DEFINE u == [at |-> IF watermark = 0 THEN "save" ELSE "drop", old |-> watermark,
                   new |-> edits + 2]
  <2>1. Edits /\ assets' = assets \cup {edits + 2} /\ upload' = [upload EXCEPT ![r] = u]
        /\ UNCHANGED <<watermark, lost, named>>
    BY <1>2 DEF UploadPuts, Puts
  <2>2. u \in U'
    BY <1>b, <2>1 DEF ProfileOK
  <2>3. U \subseteq U'
    BY <1>b, <2>1
  <2>4. upload' \in [Request -> {Idle} \cup U']
    <3> HIDE DEF u, U
    <3> QED
      BY <1>1, <2>1, <2>2, <2>3
  <2>5. ProfileOK'
    BY <1>b, <2>1, <2>4 DEF ProfileOK
  <2> QED
    BY <1>2, <2>5 DEF UploadPuts, Puts, RowsOK, ObjectsOK, TasksOK
<1>3. ASSUME NEW r \in Request, UploadDrops(r) PROVE TypeOK'
  <2>1. upload[r] \in U
    BY <1>1, <1>3 DEF UploadDrops
  <2>2. [upload[r] EXCEPT !.at = "save"] \in U
    BY <2>1
  <2>3. upload' = [upload EXCEPT ![r] = [upload[r] EXCEPT !.at = "save"]]
    BY <1>3 DEF UploadDrops
  <2>4. upload' \in [Request -> {Idle} \cup U]
    <3> HIDE DEF U
    <3> QED
      BY <1>1, <2>2, <2>3
  <2>5. ProfileOK'
    BY <1>3, <1>a, <2>4 DEF UploadDrops, ProfileOK
  <2> QED
    BY <1>3, <2>5 DEF UploadDrops, RowsOK, ObjectsOK, TasksOK
<1>4. ASSUME NEW r \in Request, UploadSaves(r) PROVE TypeOK'
  <2>1. upload[r].new \in Names
    BY <1>1, <1>4 DEF UploadSaves
  <2>2. upload' \in [Request -> {Idle} \cup U]
    BY <1>1, <1>4 DEF UploadSaves
  <2>3. ProfileOK'
    BY <1>4, <1>a, <2>1, <2>2 DEF UploadSaves, ProfileOK
  <2> QED
    BY <1>4, <2>3 DEF UploadSaves, RowsOK, ObjectsOK, TasksOK
<1>5. ASSUME NEW r \in Request, UploadFails(r) PROVE TypeOK'
  <2>1. upload[r].old \in Names /\ faults' \in 0..MaxFaults
    BY <1>1, <1>5 DEF UploadFails, Fault, TasksOK
  <2>2. upload' \in [Request -> {Idle} \cup U]
    BY <1>1, <1>5 DEF UploadFails
  <2>3. ProfileOK'
    BY <1>5, <1>a, <2>1, <2>2 DEF UploadFails, ProfileOK
  <2> QED
    BY <1>5, <2>1, <2>3 DEF UploadFails, RowsOK, ObjectsOK, TasksOK
<1>6. ASSUME NEW name \in Logo, ProfileNames(name) PROVE TypeOK'
  <2>1. Edits /\ name \in Names /\ watermark' = name /\ named' = named \cup ({name} \ {0})
        /\ UNCHANGED <<assets, upload, lost>>
    BY <1>6 DEF ProfileNames
  <2>2. U \subseteq U'
    BY <1>b, <2>1
  <2>3. upload' \in [Request -> {Idle} \cup U']
    <3> HIDE DEF U
    <3> QED
      BY <1>1, <2>1, <2>2
  <2>4. ProfileOK'
    BY <1>b, <2>1, <2>3 DEF ProfileOK
  <2> QED
    BY <1>6, <2>4 DEF ProfileNames, RowsOK, ObjectsOK, TasksOK
<1> QED
  BY <1>2, <1>3, <1>4, <1>5, <1>6 DEF Uploads

LEMMA PhotosTyped ==
  ASSUME TypeOK, (\E p \in Photo : Deletes(p)) \/ Archives \/ Restores
  PROVE  TypeOK'
<1> USE DEF TypeOK, rows, objects, profile, ghosts
<1>0. UNCHANGED profile => ProfileOK'
  BY DEF ProfileOK, Names
<1>a. 0 \in OrNone
  BY DEF OrNone
<1>1. ASSUME NEW p \in Photo, Deletes(p) PROVE TypeOK'
  <2>1. RowsOK'
    BY <1>1, <1>a DEF Deletes, RowsOK
  <2>2. backfill' \in Backfills
    BY <1>1 DEF Deletes, Backfills
  <2> QED
    BY <1>0, <1>1, <2>1, <2>2 DEF Deletes, ObjectsOK, TasksOK
<1>2. CASE Archives
  <2>1. DOMAIN backfill.todo \subseteq Photo /\ DOMAIN backfill.got \subseteq Photo
    BY BatchIs DEF Backfills
  <2>2. RowsOK'
    BY <1>2, <1>a, <2>1 DEF Archives, RowsOK
  <2>3. \A p \in photos : proxy[p] # 0 => <<p, proxy[p]>> \in Photo \X Key
    BY DEF RowsOK, OrNone, Key
  <2>4. ObjectsOK'
    BY <1>2, <2>3 DEF Archives, ObjectsOK
  <2> QED
    BY <1>0, <1>2, <2>2, <2>4 DEF Archives, TasksOK
<1>3. CASE Restores
  <2>1. queue' \subseteq Photo \X (0..MaxTries) /\ redone' \subseteq Photo
    BY <1>3 DEF Restores, TasksOK, RowsOK, ObjectsOK
  <2> QED
    BY <1>0, <1>3, <2>1 DEF Restores, RowsOK, ObjectsOK, TasksOK
<1> QED
  BY <1>1, <1>2, <1>3

LEMMA NextTyped == TypeOK /\ [Next]_vars => TypeOK'
<1> SUFFICES ASSUME TypeOK, [Next]_vars PROVE TypeOK'
  OBVIOUS
<1>1. CASE Next
  <2>1. ASSUME NEW w \in Worker, TaskStep(w) \/ TaskRetries(w) \/ TaskFails(w) \/ TaskDies(w)
        PROVE  TypeOK'
    BY <2>1, TaskTyped
  <2>2. CASE BackfillCalled \/ BackfillStep \/ BackfillDies \/ \E p \in Photo : BackfillSkips(p)
    BY <2>2, BackfillTyped
  <2>3. CASE \/ \E r \in Request : Uploads(r) \/ UploadFails(r)
             \/ \E k \in Logo : ProfileNames(k)
    BY <2>3, ProfileTyped
  <2>4. CASE (\E p \in Photo : Deletes(p)) \/ Archives \/ Restores
    BY <2>4, PhotosTyped
  <2> QED
    BY <1>1, <2>1, <2>2, <2>3, <2>4, Zenon DEF Next, Breaks
<1>2. CASE UNCHANGED vars
  BY <1>2 DEF vars, rows, objects, profile, ghosts, TypeOK, RowsOK, ObjectsOK, TasksOK,
              ProfileOK, Names
<1> QED
  BY <1>1, <1>2

\* The state of the photos, their tasks and the profile keeps its types.
THEOREM RenditionsTypeCorrect == Spec => []TypeOK
<1> QED
  BY InitTyped, NextTyped, PTL DEF Spec

-----------------------------------------------------------------------------
(* The watermark *)

\* Whatever is not a request of the profile leaves the profile alone.
LEMMA ProfileSteps ==
  ASSUME [Next]_vars
  PROVE  \/ UNCHANGED profile
         \/ \E k \in Logo : ProfileNames(k)
         \/ \E r \in Request : UploadPuts(r) \/ UploadDrops(r) \/ UploadSaves(r) \/ UploadFails(r)
<1>1. ASSUME NEW w \in Worker, TaskStep(w) PROVE UNCHANGED profile
  BY <1>1 DEF TaskStep, TaskLoads, TaskMakes, TaskMarks, TaskReads, TaskWrites, TaskSaves,
              TaskCools
<1>2. ASSUME NEW w \in Worker, TaskRetries(w) \/ TaskFails(w) \/ TaskDies(w)
      PROVE  UNCHANGED profile
  BY <1>2 DEF TaskRetries, TaskFails, TaskDies
<1>3. CASE BackfillCalled \/ BackfillStep \/ BackfillDies \/ \E p \in Photo : BackfillSkips(p)
  BY <1>3 DEF BackfillCalled, BackfillStep, BackfillLoads, BackfillDerives, BackfillCommits,
              BackfillBreaks, BackfillCounts, BackfillDies, BackfillSkips
<1>4. CASE (\E p \in Photo : Deletes(p)) \/ Archives \/ Restores
  BY <1>4 DEF Deletes, Archives, Restores
<1>5. CASE UNCHANGED vars
  BY <1>5 DEF vars
<1> QED
  BY <1>1, <1>2, <1>3, <1>4, <1>5, Zenon DEF Next, Breaks, Uploads

LEMMA ProfileInit == Init => ProfileInv
  BY DEF Init, ProfileInv, WatermarkServes, Active

LEMMA ActiveTyped ==
  ASSUME ProfileOK, NEW r \in Request, Active(r)
  PROVE  upload[r].at \in {"drop", "save"} /\ upload[r].old \in Names
         /\ upload[r].new \in Names
  BY DEF ProfileOK, Active

\* A request that begins has loaded the watermark of the row; what it brings is new.
LEMMA PutsServes ==
  ASSUME TypeOK, ProfileInv, NEW r \in Request, UploadPuts(r)
  PROVE  ProfileInv'
<1> DEFINE k == edits + 2
<1>1. /\ watermark \in Names /\ k \notin Names /\ DOMAIN upload = Request
  BY NamesGrow DEF TypeOK, ProfileOK, UploadPuts, Puts
<1>2. /\ assets' = assets \cup {k} /\ UNCHANGED <<watermark, lost, named>> /\ ~Active(r)
      /\ upload'[r] = [at |-> IF watermark = 0 THEN "save" ELSE "drop", old |-> watermark,
                       new |-> k]
      /\ \A q \in Request \ {r} : upload'[q] = upload[q]
  BY <1>1 DEF UploadPuts, Puts, Active
<1>3. Active(r)' /\ upload'[r].old = watermark /\ upload'[r].new = k
      /\ \A q \in Request \ {r} : Active(q)' <=> Active(q)
  BY <1>2 DEF Active, Idle
<1>4. \A q \in Request : Active(q) => upload[q].new \in Names /\ upload[q].old \in Names
  BY ActiveTyped DEF TypeOK
<1>5. k # watermark /\ \A i \in Names : i # k
  BY <1>1
<1> HIDE DEF k
<1>6. WatermarkServes'
  <2>1. {upload[q].old : q \in {q \in Request : upload[q].at = "save"}}
           \subseteq {upload'[q].old : q \in {q \in Request : upload'[q].at = "save"}}
    BY <1>2 DEF Active, Idle
  <2> QED
    BY <1>2, <2>1 DEF ProfileInv, WatermarkServes
<1>7. \A q \in Request : Active(q)' => \/ upload'[q].new \in assets' \ {watermark'}
                                    \/ upload'[q].new \in named'
  BY <1>2, <1>3, <1>5 DEF ProfileInv
<1>8. ASSUME NEW p \in Request, NEW q \in Request, Active(p)', Active(q)'
      PROVE  /\ upload'[p].old # upload'[q].new \/ upload'[q].new \in named'
             /\ p # q => upload'[p].new # upload'[q].new
  <2>1. CASE p = r /\ q = r
    BY <1>3, <1>5, <2>1
  <2>2. CASE p = r /\ q # r
    <3>1. Active(q) /\ upload'[q] = upload[q]
      BY <1>2, <1>3, <1>8, <2>2
    <3>2. (upload[q].new # watermark \/ upload[q].new \in named) /\ upload[q].new # k
      BY <1>4, <1>5, <3>1 DEF ProfileInv
    <3> QED
      BY <1>2, <1>3, <2>2, <3>1, <3>2
  <2>3. CASE p # r /\ q = r
    <3>1. Active(p) /\ upload'[p] = upload[p]
      BY <1>2, <1>3, <1>8, <2>3
    <3>2. upload[p].new # k /\ upload[p].old # k
      BY <1>4, <1>5, <3>1
    <3> QED
      BY <1>3, <2>3, <3>1, <3>2
  <2>4. CASE p # r /\ q # r
    BY <1>2, <1>3, <1>8, <2>4 DEF ProfileInv
  <2> QED
    BY <2>1, <2>2, <2>3, <2>4
<1> QED
  BY <1>6, <1>7, <1>8 DEF ProfileInv

\* A request deletes the watermark it has loaded, which nobody is about to bring.
LEMMA DropsServes ==
  ASSUME TypeOK, ProfileInv, NEW r \in Request, UploadDrops(r)
  PROVE  ProfileInv'
<1>1. DOMAIN upload = Request /\ Active(r)
  BY DEF TypeOK, ProfileOK, UploadDrops, Active, Idle
<1>2. /\ assets' = assets \ {upload[r].old} /\ UNCHANGED <<watermark, lost, named>>
      /\ upload' = [upload EXCEPT ![r] = [upload[r] EXCEPT !.at = "save"]]
  BY DEF UploadDrops
<1>3. /\ upload'[r].old = upload[r].old /\ upload'[r].new = upload[r].new
      /\ upload'[r].at = "save"
  <2>1. upload[r] \in [at : {"drop", "save"}, old : Names, new : Names]
    BY <1>1 DEF TypeOK, ProfileOK, Active
  <2> QED
    BY <1>1, <1>2, <2>1
<1>4. \A q \in Request : /\ upload'[q].old = upload[q].old /\ upload'[q].new = upload[q].new
                         /\ upload[q].at = "save" => upload'[q].at = "save"
                         /\ Active(q)' => Active(q)
  BY <1>1, <1>2, <1>3 DEF Active
<1>5. WatermarkServes'
  <2>1. {upload[q].old : q \in {q \in Request : upload[q].at = "save"}} \cup {upload[r].old}
           \subseteq {upload'[q].old : q \in {q \in Request : upload'[q].at = "save"}}
    BY <1>3, <1>4
  <2> QED
    BY <1>2, <2>1 DEF ProfileInv, WatermarkServes
<1>6. \A q \in Request : Active(q)' => \/ upload'[q].new \in assets' \ {watermark'}
                                    \/ upload'[q].new \in named'
  BY <1>1, <1>2, <1>4 DEF ProfileInv
<1>7. ASSUME NEW p \in Request, NEW q \in Request, Active(p)', Active(q)'
      PROVE  /\ upload'[p].old # upload'[q].new \/ upload'[q].new \in named'
             /\ p # q => upload'[p].new # upload'[q].new
  BY <1>2, <1>4, <1>7 DEF ProfileInv
<1> QED
  BY <1>5, <1>6, <1>7 DEF ProfileInv

\* Whatever a request that ends leaves behind.
LEMMA EndsServes ==
  ASSUME TypeOK, ProfileInv, NEW r \in Request, UploadSaves(r) \/ UploadFails(r)
  PROVE  ProfileInv'
<1>1. DOMAIN upload = Request /\ Active(r)
  BY DEF TypeOK, ProfileOK, UploadSaves, UploadFails, Active, Idle
<1>2. /\ ~Active(r)' /\ \A q \in Request \ {r} : upload'[q] = upload[q] /\ (Active(q)' <=> Active(q))
      /\ upload'[r] = Idle /\ named' = named
  BY <1>1 DEF UploadSaves, UploadFails, Active
<1>3. ASSUME NEW p \in Request, NEW q \in Request, Active(p)', Active(q)'
      PROVE  /\ upload'[p].old # upload'[q].new \/ upload'[q].new \in named'
             /\ p # q => upload'[p].new # upload'[q].new
  BY <1>2, <1>3 DEF ProfileInv
<1>4. {upload[q].old : q \in {q \in Request : upload[q].at = "save"}}
         \subseteq {upload'[q].old : q \in {q \in Request : upload'[q].at = "save"}}
                   \cup {upload[r].old}
  BY <1>2
<1>5. CASE UploadSaves(r)
  <2>1. watermark' = upload[r].new /\ UNCHANGED <<assets, lost>>
    BY <1>5 DEF UploadSaves
  <2>2. WatermarkServes'
    BY <1>1, <1>2, <2>1 DEF ProfileInv, WatermarkServes
  <2>3. \A q \in Request : Active(q)' => \/ upload'[q].new \in assets' \ {watermark'}
                                    \/ upload'[q].new \in named'
    BY <1>1, <1>2, <2>1 DEF ProfileInv
  <2> QED
    BY <1>3, <2>2, <2>3 DEF ProfileInv
<1>6. CASE UploadFails(r)
  <2>1. CASE upload[r].at = "drop" /\ UNCHANGED <<assets, lost>>
    <3>1. {upload[q].old : q \in {q \in Request : upload[q].at = "save"}}
             \subseteq {upload'[q].old : q \in {q \in Request : upload'[q].at = "save"}}
      BY <1>2, <2>1
    <3>2. WatermarkServes'
      BY <1>6, <2>1, <3>1 DEF UploadFails, ProfileInv, WatermarkServes
    <3>3. \A q \in Request : Active(q)' => \/ upload'[q].new \in assets' \ {watermark'}
                                    \/ upload'[q].new \in named'
      BY <1>2, <1>6, <2>1 DEF UploadFails, ProfileInv
    <3> QED
      BY <1>3, <3>2, <3>3 DEF ProfileInv
  <2>2. CASE assets' = assets \ {upload[r].old} /\ lost' = lost \cup ({upload[r].old} \ {0})
    <3>1. watermark' = watermark
      BY <1>6 DEF UploadFails
    <3>2. WatermarkServes'
      BY <1>2, <1>4, <2>2, <3>1 DEF ProfileInv, WatermarkServes
    <3>3. \A q \in Request : Active(q)' => \/ upload'[q].new \in assets' \ {watermark'}
                                    \/ upload'[q].new \in named'
      BY <1>1, <1>2, <2>2, <3>1 DEF ProfileInv
    <3> QED
      BY <1>3, <3>2, <3>3 DEF ProfileInv
  <2> QED
    BY <1>6, <2>1, <2>2 DEF UploadFails
<1> QED
  BY <1>5, <1>6

LEMMA ProfileKept == TypeOK /\ ProfileInv /\ [Next]_vars => ProfileInv'
<1> SUFFICES ASSUME TypeOK, ProfileInv, [Next]_vars PROVE ProfileInv'
  OBVIOUS
<1>1. CASE UNCHANGED profile
  BY <1>1 DEF profile, ProfileInv, WatermarkServes, Active
<1>2. ASSUME NEW name \in Logo, ProfileNames(name) PROVE ProfileInv'
  <2>1. watermark' = name /\ named' = named \cup ({name} \ {0})
        /\ UNCHANGED <<assets, upload, lost>>
    BY <1>2 DEF ProfileNames
  <2>2. \A r \in Request : Active(r) => upload[r].new # 0
    BY DEF ProfileInv, TypeOK, ProfileOK
  <2> QED
    BY <2>1, <2>2 DEF ProfileInv, WatermarkServes, Active
<1> QED
  BY <1>1, <1>2, ProfileSteps, PutsServes, DropsServes, EndsServes

\* However many requests of the photographer overlap and fail, and whatever strings changes
\* of the profile write, the watermark that the row names can be read unless such a change
\* has named it, but between a request's deletion of the old one and its commit, or after a
\* failure between the two (profile.py:163).
THEOREM WatermarkAlwaysServes == Spec => []WatermarkServes
<1>1. ProfileInv => WatermarkServes
  BY DEF ProfileInv
<1> QED
  BY <1>1, InitTyped, NextTyped, ProfileInit, ProfileKept, PTL DEF Spec

-----------------------------------------------------------------------------
(* The sizes of a photo *)

\* A photo task only goes on with work that was there.
LEMMA NoNewWork ==
  ASSUME TasksOK, NEW w \in Worker,
         TaskStep(w) \/ TaskRetries(w) \/ TaskFails(w) \/ TaskDies(w),
         NEW p \in Photo, Works(p)'
  PROVE  Works(p)
<1> DOMAIN task = Worker
  BY DEF TasksOK
<1> USE DEF Works, Waits, OnIt, At
<1>1. ASSUME NEW q \in Photo, NEW n \in 0..MaxTries, TaskLoads(w, q, n) PROVE Works(p)
  <2>1. /\ <<q, n>> \in queue /\ queue' = queue \ {<<q, n>>}
        /\ \A v \in Worker \ {w} : task'[v] = task[v]
        /\ task'[w] = task[w] \/ task'[w].photo = q
    BY <1>1 DEF TaskLoads
  <2> QED
    BY <2>1
<1>2. CASE TaskMakes(w)
  <2>1. /\ queue' = queue /\ task[w].at = "make"
        /\ \A v \in Worker \ {w} : task'[v] = task[v]
    BY <1>2 DEF TaskMakes
  <2>2. task'[w].photo = task[w].photo
    BY <1>2, RunTyped DEF TaskMakes, Runs
  <2> QED
    BY <2>1, <2>2
<1>3. ASSUME ~At(w, "idle"), queue' = queue, Rests(w) PROVE Works(p)
  BY <1>3 DEF Rests, Idle
<1>4. ASSUME ~At(w, "idle"), queue' = queue, NEW at, Goes(w, at) PROVE Works(p)
  <2>1. task'[w].photo = task[w].photo /\ \A v \in Worker \ {w} : task'[v] = task[v]
    BY <1>4, RunTyped DEF Goes, Runs
  <2> QED
    BY <1>4, <2>1
<1>5. CASE TaskMarks(w) \/ TaskWrites(w)
  BY <1>4, <1>5 DEF TaskMarks, TaskWrites
<1>6. CASE TaskReads(w)
  <2>1. /\ queue' = queue /\ task[w].at = "read"
        /\ \A v \in Worker \ {w} : task'[v] = task[v]
    BY <1>6 DEF TaskReads
  <2>2. task'[w].photo = task[w].photo
    BY <1>6, RunTyped DEF TaskReads, Runs
  <2> QED
    BY <2>1, <2>2
<1>7. CASE TaskSaves(w)
  BY <1>3, <1>4, <1>7 DEF TaskSaves
<1>8. CASE TaskCools(w) \/ TaskFails(w) \/ TaskDies(w)
  BY <1>3, <1>8 DEF TaskCools, TaskFails, TaskDies
<1>9. CASE TaskRetries(w)
  <2>1. /\ task[w].at # "idle" /\ queue' \subseteq queue \cup {<<task[w].photo, task[w].tries + 1>>}
        /\ \A v \in Worker \ {w} : task'[v] = task[v]
        /\ task'[w].at = "idle"
    BY <1>9 DEF TaskRetries, Rests, Idle
  <2> QED
    BY <2>1
<1> QED
  BY <1>1, <1>2, <1>5, <1>6, <1>7, <1>8, <1>9 DEF TaskStep

LEMMA SameWork ==
  ASSUME UNCHANGED <<queue, task>>
  PROVE  \A p \in Photo : Works(p)' = Works(p)
  BY DEF Works, Waits, OnIt, At

LEMMA AgreeInit == Init => AgreeInv
<1> SUFFICES ASSUME Init PROVE AgreeInv
  OBVIOUS
<1> PICK old \in SUBSET Photo : Init!(old)
  BY DEF Init
<1>1. /\ photos = Photo /\ crossed = {} /\ thumb = [p \in Photo |-> 0] /\ shelf = "never"
      /\ proxy = [p \in Photo |-> IF p \in old THEN 1 ELSE 0]
      /\ queue = {<<p, 0>> : p \in Photo \ old} /\ task = [w \in Worker |-> Idle]
      /\ backfill.at = "idle"
  BY DEF Resting
<1>2. ASSUME NEW p \in photos, Bare(p) PROVE ~Works(p)
  <2>1. p \in old
    BY <1>1, <1>2 DEF Bare
  <2> QED
    BY <1>1, <2>1 DEF Works, Waits, OnIt, At, Idle
<1> QED
  BY <1>1, <1>2 DEF AgreeInv

\* Where the photos and the backfill stay as they are, less work changes nothing.
LEMMA AgreeStays ==
  ASSUME TypeOK, AgreeInv, UNCHANGED <<rows, shelf, crossed>>,
         backfill' = backfill \/ backfill'.at # "deriving",
         \A p \in Photo : Works(p)' => Works(p)
  PROVE  AgreeInv'
  BY DEF rows, AgreeInv, Holds, Bare, TypeOK, RowsOK

\* A task saves a photo that has work, so no batch has it.
LEMMA SavesAgrees ==
  ASSUME TypeOK, AgreeInv, NEW w \in Worker, TaskSaves(w)
  PROVE  AgreeInv'
<1> DEFINE p == task[w].photo
           k == task[w].new
<1>1. \A q \in Photo : Works(q)' => Works(q)
  BY NoNewWork DEF TypeOK, TaskStep
<1>2. UNCHANGED <<photos, backfill, shelf, crossed>>
  BY DEF TaskSaves, ghosts
<1>3. CASE p \notin photos
  BY <1>1, <1>2, <1>3, AgreeStays DEF TaskSaves, rows
<1>4. CASE p \in photos
  <2>1. /\ proxy' = [proxy EXCEPT ![p] = k] /\ thumb' = [thumb EXCEPT ![p] = k]
    BY <1>4 DEF TaskSaves, TaskDerives
  <2>2. Works(p)
    BY DEF Works, OnIt, TaskSaves, At
  <2> HIDE DEF p, k
  <2>3. /\ proxy'[p] = k /\ thumb'[p] = k
        /\ \A q \in photos \ {p} : proxy'[q] = proxy[q] /\ thumb'[q] = thumb[q]
    BY <1>4, <2>1 DEF TypeOK, RowsOK
  <2>4. \A q \in photos : q \in Photo
    BY DEF TypeOK, RowsOK
  <2>5. \A q \in photos \ crossed : thumb'[q] \in {0, proxy'[q]}
    BY <2>3 DEF AgreeInv
  <2>6. \A q \in photos : Bare(q)' => ~Works(q)' /\ shelf # "now"
    BY <1>1, <2>3, <2>4 DEF AgreeInv, Bare
  <2>7. ASSUME backfill.at = "deriving", NEW q \in photos \ crossed
        PROVE  /\ Holds(q, backfill.todo)' /\ Holds(q, backfill.got)'
               /\ q \in DOMAIN backfill.todo \cup DOMAIN backfill.got => shelf # "now"
    BY <1>1, <1>2, <2>2, <2>3, <2>4, <2>7 DEF AgreeInv, Holds
  <2> QED
    BY <1>2, <2>5, <2>6, <2>7 DEF AgreeInv
<1> QED
  BY <1>3, <1>4

\* The backfill loads photos that are bare, and commits what it holds.
LEMMA BackfillAgrees ==
  ASSUME TypeOK, AgreeInv, BackfillLoads \/ BackfillCommits \/ \E p \in Photo : BackfillDerives(p)
                                                          \/ BackfillSkips(p)
  PROVE  AgreeInv'
<1>1. UNCHANGED <<photos, proxy, queue, task, shelf, crossed>>
  BY DEF BackfillLoads, BackfillCommits, BackfillDerives, BackfillSkips, rows, ghosts
<1>2. \A p \in Photo : Works(p)' = Works(p)
  BY <1>1, SameWork
<1>3. /\ photos \subseteq Photo /\ backfill.todo \in Batches /\ backfill.got \in Batches
      /\ backfill \in Backfills
  BY DEF TypeOK, RowsOK, Backfills
<1>4. CASE BackfillLoads
  <2>1. /\ backfill'.todo = [p \in Batch |-> proxy[p]] /\ backfill'.got = None
        /\ thumb' = thumb
    BY <1>3, <1>4 DEF BackfillLoads, Backfills, rows
  <2>2. DOMAIN None = {} /\ \A p \in Batch : p \in photos /\ Bare(p)
    BY BatchLoaded DEF None, TypeOK
  <2> QED
    BY <1>1, <1>2, <1>3, <2>1, <2>2 DEF AgreeInv, Holds, Bare
<1>5. ASSUME NEW p \in Photo, BackfillDerives(p) \/ BackfillSkips(p) PROVE AgreeInv'
  <2>1. /\ p \in DOMAIN backfill.todo /\ backfill.at = "deriving" /\ backfill'.at = "deriving"
        /\ backfill'.todo = Without(backfill.todo, p)
        /\ backfill'.got \in {backfill.got, With(backfill.got, p, backfill.todo[p])}
        /\ thumb' = thumb
    BY <1>3, <1>5 DEF BackfillDerives, BackfillSkips, Turn, Backfills, rows
  <2>2. \A q \in DOMAIN backfill'.todo : q \in DOMAIN backfill.todo
                                         /\ backfill'.todo[q] = backfill.todo[q]
    BY <2>1 DEF Without
  <2>3. \A q \in DOMAIN backfill'.got :
           \/ q \in DOMAIN backfill.got /\ backfill'.got[q] = backfill.got[q]
           \/ q = p /\ backfill'.got[q] = backfill.todo[q]
    BY <2>1 DEF With
  <2>4. ASSUME NEW q \in photos \ crossed
        PROVE  /\ Holds(q, backfill'.todo) /\ Holds(q, backfill'.got)
               /\ q \in DOMAIN backfill'.todo \cup DOMAIN backfill'.got => shelf # "now"
    BY <2>1, <2>2, <2>3 DEF AgreeInv, Holds
  <2>6. ASSUME NEW q \in photos \ crossed
        PROVE  Holds(q, backfill.todo)' /\ Holds(q, backfill.got)'
    BY <1>1, <1>2, <1>3, <2>4 DEF Holds
  <2>7. \A q \in photos : Bare(q)' = Bare(q)
    BY <1>1, <2>1 DEF Bare
  <2> QED
    BY <1>1, <1>2, <1>3, <2>1, <2>4, <2>6, <2>7 DEF AgreeInv
<1>6. CASE BackfillCommits
  <2>1. /\ backfill.at = "deriving" /\ backfill'.at = "counting"
        /\ thumb' = [p \in Photo |-> IF p \in DOMAIN backfill.got THEN backfill.got[p]
                                     ELSE thumb[p]]
    BY <1>3, <1>6 DEF BackfillCommits, Backfills
  <2>2. \A p \in DOMAIN backfill.got : backfill.got[p] # 0
    BY <1>3, BatchIs DEF Key
  <2>3. \A p \in photos \ crossed : thumb'[p] \in {0, proxy[p]}
    BY <1>3, <2>1 DEF AgreeInv, Holds
  <2>4. \A p \in photos : Bare(p)' => Bare(p)
    BY <1>1, <1>3, <2>1, <2>2 DEF Bare
  <2> QED
    BY <1>1, <1>2, <1>3, <2>1, <2>3, <2>4 DEF AgreeInv
<1> QED
  BY <1>4, <1>5, <1>6

LEMMA PhotosAgree ==
  ASSUME TypeOK, AgreeInv, (\E p \in Photo : Deletes(p)) \/ Archives \/ Restores
  PROVE  AgreeInv'
<1>1. photos \subseteq Photo /\ backfill \in Backfills
  BY DEF TypeOK, RowsOK
<1>2. ASSUME NEW p \in Photo, Deletes(p) PROVE AgreeInv'
  <2>1. /\ photos' = photos \ {p} /\ crossed' = crossed \ {p} /\ UNCHANGED <<queue, task, shelf>>
        /\ \A q \in photos' : q \in photos /\ thumb'[q] = thumb[q] /\ proxy'[q] = proxy[q]
        /\ backfill'.at = backfill.at
        /\ backfill'.todo = backfill.todo /\ backfill'.got = backfill.got
    BY <1>1, <1>2 DEF Deletes, TypeOK, RowsOK, Backfills
  <2>2. \A q \in Photo : Works(q)' = Works(q)
    BY <2>1, SameWork
  <2>3. \A q \in photos' : Bare(q)' = Bare(q) /\ q \in Photo
    BY <1>1, <2>1 DEF Bare
  <2>4. \A q \in photos' \ crossed' : Holds(q, backfill.todo)' = Holds(q, backfill.todo)
                                    /\ Holds(q, backfill.got)' = Holds(q, backfill.got)
    BY <1>1, <2>1, <2>2 DEF Holds
  <2> QED
    BY <2>1, <2>2, <2>3, <2>4 DEF AgreeInv
<1>3. CASE Archives
  <2>1. /\ photos' = photos /\ backfill' = backfill
        /\ \A q \in photos : thumb'[q] = 0 /\ proxy'[q] = 0
        /\ crossed' = crossed \cup DOMAIN backfill.todo \cup DOMAIN backfill.got
    BY <1>1, <1>3 DEF Archives
  <2> QED
    BY <2>1 DEF AgreeInv, Holds, Bare
<1>4. CASE Restores
  <2>1. /\ shelf = "now" /\ shelf' = "before" /\ UNCHANGED <<rows, task, backfill, crossed>>
    BY <1>4 DEF Restores, ghosts
  <2>2. \A p \in photos : ~Bare(p)
    BY <2>1 DEF AgreeInv
  <2>3. backfill.at = "deriving" =>
           \A p \in photos \ crossed : p \notin DOMAIN backfill.todo \cup DOMAIN backfill.got
    BY <2>1 DEF AgreeInv
  <2> QED
    BY <2>1, <2>2, <2>3 DEF AgreeInv, Holds, Bare, rows
<1> QED
  BY <1>2, <1>3, <1>4

LEMMA AgreeKept == TypeOK /\ AgreeInv /\ [Next]_vars => AgreeInv'
<1> SUFFICES ASSUME TypeOK, AgreeInv, [Next]_vars PROVE AgreeInv'
  OBVIOUS
<1>1. ASSUME NEW w \in Worker, TaskStep(w) \/ TaskRetries(w) \/ TaskFails(w) \/ TaskDies(w)
      PROVE  AgreeInv'
  <2>1. CASE TaskSaves(w)
    BY <2>1, SavesAgrees
  <2>2. CASE ~TaskSaves(w)
    <3>1. /\ UNCHANGED <<photos, proxy, thumb, shelf, crossed, backfill>>
      BY <1>1, <2>2 DEF TaskStep, TaskLoads, TaskMakes, TaskMarks, TaskReads, TaskWrites, TaskCools,
                        TaskRetries, TaskFails, TaskDies, rows, ghosts
    <3>2. \A p \in Photo : Works(p)' => Works(p)
      BY <1>1, NoNewWork DEF TypeOK
    <3> QED
      BY <3>1, <3>2 DEF AgreeInv, Holds, Bare, TypeOK, RowsOK
  <2> QED
    BY <2>1, <2>2
<1>2. CASE BackfillLoads \/ BackfillCommits \/ \E p \in Photo : BackfillDerives(p) \/ BackfillSkips(p)
  BY <1>2, BackfillAgrees
<1>3. CASE BackfillCalled \/ BackfillBreaks \/ BackfillCounts \/ BackfillDies
  <2>1. UNCHANGED <<rows, shelf, crossed, queue, task>> /\ backfill'.at # "deriving"
    BY <1>3 DEF BackfillCalled, BackfillBreaks, BackfillCounts, BackfillDies, ghosts, Resting,
                TypeOK, Backfills
  <2> QED
    BY <2>1, SameWork, AgreeStays
<1>5. CASE \/ \E r \in Request : UploadPuts(r) \/ UploadDrops(r) \/ UploadSaves(r) \/ UploadFails(r)
           \/ (\E k \in Logo : ProfileNames(k)) \/ UNCHANGED vars
  <2>1. UNCHANGED <<rows, shelf, crossed, queue, task, backfill>>
    BY <1>5 DEF UploadPuts, Puts, UploadDrops, UploadSaves, UploadFails, ProfileNames, vars, ghosts
  <2> QED
    BY <2>1, SameWork, AgreeStays
<1>6. (\E p \in Photo : Deletes(p)) \/ Archives \/ Restores => AgreeInv'
  BY PhotosAgree
<1> QED
  BY <1>1, <1>2, <1>3, <1>5, <1>6, Zenon DEF Next, Breaks, Uploads, BackfillStep

\* Every size of a photo shows its present proxy: no photo task works on what a backfill has
\* in its batch, unless an archival has come between (photo_tasks.py:269).
THEOREM SizesAgree == Spec => []RenditionsAgree
<1>1. TypeOK /\ AgreeInv => RenditionsAgree
  <2> SUFFICES ASSUME TypeOK, AgreeInv, NEW p \in photos \ crossed PROVE Urls(p) = {proxy[p]}
    BY DEF RenditionsAgree
  <2>1. thumb[p] \in {0, proxy[p]}
    BY DEF AgreeInv
  <2>2. \A variant \in Variant : Resolve(p, variant) = proxy[p]
    BY <2>1 DEF Resolve, Candidates
  <2> QED
    BY <2>2 DEF Urls, Variant
<1> QED
  BY <1>1, InitTyped, NextTyped, AgreeInit, AgreeKept, PTL DEF Spec

-----------------------------------------------------------------------------
(* What a backfill reaches *)

LEMMA NewerCounted ==
  ASSUME NEW S \in SUBSET Photo, NEW p
  PROVE  /\ Newer(p, S) \in SUBSET Photo /\ IsFiniteSet(Newer(p, S))
         /\ Cardinality(Newer(p, S)) \in Nat
<1>1. Newer(p, S) \in SUBSET Photo
  BY DEF Newer
<1>2. IsFiniteSet(Photo)
  BY FS_Interval DEF Photo
<1> QED
  BY <1>1, <1>2, FS_Subset, FS_CardinalityType

\* Where more than a batch of photos are newer, a whole batch of the newest is.
LEMMA NewestFill ==
  ASSUME NEW S \in SUBSET Photo, NEW p \in S, Cardinality(Newer(p, S)) >= BatchSize
  PROVE  Cardinality(Newer(p, {q \in S : Cardinality(Newer(q, S)) < BatchSize})) >= BatchSize
<1> DEFINE top  == {q \in S : Cardinality(Newer(q, S)) < BatchSize}
           deep == {Newer(q, S) : q \in S \ top}
<1>1. IsFiniteSet(Photo)
  BY FS_Interval DEF Photo
<1>2. \A q \in S : IsFiniteSet(Newer(q, S)) /\ Cardinality(Newer(q, S)) \in Nat
  BY NewerCounted
<1>3. deep \subseteq SUBSET Photo /\ Newer(p, S) \in deep
  <2>1. p \notin top
    BY <1>2
  <2> QED
    BY <2>1 DEF Newer
<1>4. PICK s \in deep : \A t \in deep : <<t, s>> \notin StrictSubsetOrdering(Photo)
  <2>1. SUBSET Photo = FiniteSubsetsOf(Photo)
    BY <1>1, FS_FiniteSubsetsOfFinite
  <2>2. IsWellFoundedOn(StrictSubsetOrdering(Photo), SUBSET Photo)
    BY <2>1, FS_StrictSubsetOrderingWellFounded
  <2> HIDE DEF deep
  <2> QED
    BY <1>3, <2>2, WFMin
<1>5. PICK m \in S \ top : s = Newer(m, S)
  BY <1>4
<1>a. S \subseteq Int
  BY DEF Photo
<1>6. \A q \in Newer(m, S) : q \in top
  <2> SUFFICES ASSUME NEW q \in Newer(m, S), q \notin top PROVE FALSE
    OBVIOUS
  <2>1. q \in S \ top /\ q > m
    BY DEF Newer
  <2>2. Newer(q, S) \subseteq Newer(m, S) /\ q \notin Newer(q, S)
    <3> HIDE DEF top
    <3>1. m \in Int /\ q \in Int
      BY <1>a, <1>5, <2>1
    <3>2. \A r \in S : r > q => r > m /\ r # q
      BY <1>a, <2>1, <3>1
    <3> QED
      BY <3>1, <3>2 DEF Newer
  <2>3. Newer(q, S) \in deep /\ Newer(q, S) # s
    BY <1>5, <2>1, <2>2
  <2>4. <<Newer(q, S), s>> \in StrictSubsetOrdering(Photo)
    BY <1>3, <1>4, <1>5, <2>2, <2>3 DEF StrictSubsetOrdering
  <2> QED
    BY <1>4, <2>3, <2>4
<1>7. Newer(m, S) \subseteq Newer(p, top)
  <2>1. CASE m >= p
    <3> HIDE DEF top
    <3>1. m \in Int /\ p \in Int
      BY <1>a, <1>5
    <3>2. \A q \in Newer(m, S) : q > p
      BY <1>a, <2>1, <3>1 DEF Newer
    <3> QED
      BY <1>6, <3>2 DEF Newer
  <2>2. CASE m < p
    <3>1. p \in Newer(m, S)
      BY <2>2 DEF Newer
    <3>2. p \notin top
      BY <1>2
    <3> QED
      BY <1>6, <3>1, <3>2
  <2> QED
    BY <1>a, <2>1, <2>2
<1>8. Cardinality(Newer(m, S)) <= Cardinality(Newer(p, top)) /\ Cardinality(Newer(p, top)) \in Nat
  <2>1. top \in SUBSET Photo
    OBVIOUS
  <2> HIDE DEF top
  <2> QED
    BY <1>7, <2>1, NewerCounted, FS_Subset
<1>9. Cardinality(Newer(m, S)) >= BatchSize
  BY <1>2, <1>5
<1> QED
  BY <1>2, <1>8, <1>9

\* Where the photos that need thumbnails stay as they are, so does what is known of them.
LEMMA SameMissing ==
  ASSUME Missing' = Missing, \A p \in Missing : proxy'[p] = proxy[p], UNCHANGED <<deleted, spoiled>>
  PROVE  Batch' = Batch /\ Unreadable' = Unreadable
<1>1. Batch' = Batch
  BY DEF Batch, Newer
<1>2. \A p \in Missing : Readable(p, proxy[p])' = Readable(p, proxy[p])
  BY DEF Readable
<1>3. Unreadable' = Unreadable
  BY <1>2 DEF Unreadable
<1> QED
  BY <1>1, <1>3

LEMMA ReachStays ==
  ASSUME ReachInv, Missing' = Missing, \A p \in Missing : proxy'[p] = proxy[p],
         UNCHANGED <<deleted, spoiled, crossed>>,
         backfill' = backfill \/ backfill'.at \notin {"deriving", "counting"}
  PROVE  ReachInv'
  BY SameMissing DEF ReachInv

LEMMA ReachInit == Init => ReachInv
  BY DEF Init, ReachInv, Resting

\* A task saves a photo that has work, so it is none of those that need thumbnails.
LEMMA SavesReach ==
  ASSUME TypeOK, AgreeInv, ReachInv, NEW w \in Worker, TaskSaves(w)
  PROVE  ReachInv'
<1> DEFINE p == task[w].photo
           k == task[w].new
<1>1. UNCHANGED <<photos, backfill, crossed, deleted, spoiled>>
  BY DEF TaskSaves, ghosts, objects
<1>2. CASE p \notin photos
  <2>1. UNCHANGED <<proxy, thumb>>
    BY <1>2 DEF TaskSaves
  <2>2. Missing' = Missing
    BY <1>1, <2>1 DEF Missing
  <2> QED
    BY <1>1, <2>1, <2>2, ReachStays
<1>3. CASE p \in photos
  <2>1. /\ proxy' = [proxy EXCEPT ![p] = k] /\ thumb' = [thumb EXCEPT ![p] = k]
    BY <1>3 DEF TaskSaves, TaskDerives
  <2>2. Works(p)
    BY DEF Works, OnIt, TaskSaves, At
  <2> HIDE DEF p, k
  <2>3. /\ proxy'[p] = k /\ thumb'[p] = k
        /\ \A q \in photos \ {p} : proxy'[q] = proxy[q] /\ thumb'[q] = thumb[q]
    BY <1>3, <2>1 DEF TypeOK, RowsOK
  <2>4. p \notin Missing
    BY <2>2 DEF AgreeInv, Bare, Missing
  <2>5. Missing' = Missing
    BY <1>1, <2>3, <2>4 DEF Missing
  <2>6. \A q \in Missing : proxy'[q] = proxy[q]
    BY <2>3, <2>4 DEF Missing
  <2> QED
    BY <1>1, <2>5, <2>6, ReachStays
<1> QED
  BY <1>2, <1>3

\* A batch is loaded whole, and each of its photos is derived or can not be read.
LEMMA BackfillReach ==
  ASSUME TypeOK, AgreeInv, ReachInv,
         BackfillLoads \/ BackfillCommits \/ \E p \in Photo : BackfillDerives(p) \/ BackfillSkips(p)
  PROVE  ReachInv'
<1>1. UNCHANGED <<photos, proxy, crossed, deleted, spoiled>>
  BY DEF BackfillLoads, BackfillCommits, BackfillDerives, BackfillSkips, rows, ghosts, objects
<1>2. /\ photos \subseteq Photo /\ backfill.todo \in Batches /\ backfill.got \in Batches
      /\ backfill \in Backfills
  BY DEF TypeOK, RowsOK, Backfills
<1>3. CASE BackfillLoads
  <2>1. /\ backfill'.at = "deriving" /\ backfill'.todo = [p \in Batch |-> proxy[p]]
        /\ thumb' = thumb
    BY <1>2, <1>3 DEF BackfillLoads, Backfills, rows
  <2>2. Missing' = Missing
    BY <1>1, <2>1 DEF Missing
  <2>3. Batch' = Batch
    BY <1>1, <2>2, SameMissing
  <2> QED
    BY <1>1, <2>1, <2>2, <2>3 DEF ReachInv
<1>4. ASSUME NEW p \in Photo, BackfillDerives(p) \/ BackfillSkips(p) PROVE ReachInv'
  <2>1. /\ p \in DOMAIN backfill.todo /\ backfill.at = "deriving" /\ backfill'.at = "deriving"
        /\ backfill'.todo = Without(backfill.todo, p) /\ thumb' = thumb
    BY <1>2, <1>4 DEF BackfillDerives, BackfillSkips, Turn, Backfills, rows
  <2>2. \/ backfill'.hit
        \/ /\ backfill'.hit = backfill.hit
           /\ backfill'.got = IF Readable(p, backfill.todo[p])
                              THEN With(backfill.got, p, backfill.todo[p]) ELSE backfill.got
    BY <1>2, <1>4 DEF BackfillDerives, BackfillSkips, Backfills
  <2>3. Missing' = Missing
    BY <1>1, <2>1 DEF Missing
  <2>4. Batch' = Batch /\ Unreadable' = Unreadable
    BY <1>1, <2>3, SameMissing
  <2>5. ASSUME ~backfill.hit, NEW q \in Batch, ~backfill'.hit
        PROVE  q \in DOMAIN backfill'.todo \cup DOMAIN backfill'.got \cup Unreadable
    <3>1. q \in Missing
      BY DEF Batch
    <3>2. CASE q # p
      <4>1. q \in DOMAIN backfill.todo \cup DOMAIN backfill.got \cup Unreadable
        BY <2>1, <2>5 DEF ReachInv
      <4> QED
        BY <2>1, <2>2, <2>5, <3>2, <4>1 DEF Without, With
    <3>3. CASE q = p
      <4>1. p \in photos \ crossed
        BY <3>1, <3>3 DEF ReachInv, Missing
      <4>2. backfill.todo[p] = proxy[p]
        BY <2>1, <4>1 DEF AgreeInv, Holds
      <4>3. CASE Readable(p, proxy[p])
        BY <2>2, <2>5, <3>3, <4>2, <4>3 DEF With
      <4>4. CASE ~Readable(p, proxy[p])
        BY <3>1, <3>3, <4>4 DEF Unreadable
      <4> QED
        BY <4>3, <4>4
    <3> QED
      BY <3>2, <3>3
  <2> QED
    BY <1>1, <2>1, <2>2, <2>3, <2>4, <2>5 DEF ReachInv
<1>5. CASE BackfillCommits
  <2>1. /\ backfill.at = "deriving" /\ backfill.todo = None /\ backfill'.at = "counting"
        /\ backfill'.hit = backfill.hit /\ backfill'.got = backfill.got
        /\ thumb' = [p \in Photo |-> IF p \in DOMAIN backfill.got THEN backfill.got[p]
                                     ELSE thumb[p]]
    BY <1>2, <1>5 DEF BackfillCommits, Backfills
  <2>2. \A p \in DOMAIN backfill.got : backfill.got[p] # 0
    BY <1>2, BatchIs DEF Key
  <2>3. Missing' \subseteq Missing
    BY <1>1, <1>2, <2>1, <2>2 DEF Missing
  <2>4. ASSUME ~backfill.hit, backfill.got = None PROVE Batch' \subseteq Unreadable'
    <3>1. DOMAIN None = {}
      BY DEF None
    <3>2. \A p \in photos : thumb'[p] = thumb[p]
      BY <1>2, <2>1, <2>4, <3>1
    <3>3. Missing' = Missing
      BY <1>1, <3>2 DEF Missing
    <3>4. Batch' = Batch /\ Unreadable' = Unreadable
      BY <1>1, <3>3, SameMissing
    <3> QED
      BY <2>1, <2>4, <3>1, <3>4 DEF ReachInv
  <2> QED
    BY <1>1, <2>1, <2>3, <2>4 DEF ReachInv
<1> QED
  BY <1>3, <1>4, <1>5

LEMMA PhotosReach ==
  ASSUME TypeOK, ReachInv, (\E p \in Photo : Deletes(p)) \/ Archives \/ Restores
  PROVE  ReachInv'
<1>1. photos \subseteq Photo /\ backfill \in Backfills
  BY DEF TypeOK, RowsOK
<1>2. ASSUME NEW p \in Photo, Deletes(p) PROVE ReachInv'
  <2>1. /\ crossed' = crossed \ {p} /\ photos' = photos \ {p}
        /\ \A q \in photos' : thumb'[q] = thumb[q] /\ proxy'[q] = proxy[q]
        /\ backfill'.at = backfill.at /\ (backfill.at # "idle" => backfill'.hit)
    BY <1>1, <1>2 DEF Deletes, TypeOK, RowsOK, Backfills
  <2>2. Missing' \subseteq Missing
    BY <2>1 DEF Missing
  <2> QED
    BY <2>1, <2>2 DEF ReachInv
<1>3. CASE Archives
  <2>1. \A q \in photos' : proxy'[q] = 0
    BY <1>1, <1>3 DEF Archives
  <2>2. Missing' = {}
    BY <2>1 DEF Missing
  <2> QED
    BY <2>2 DEF ReachInv, Batch
<1>4. CASE Restores
  <2>1. UNCHANGED <<photos, proxy, thumb, deleted, spoiled, crossed, backfill>>
    BY <1>4 DEF Restores, rows, objects
  <2>2. Missing' = Missing
    BY <2>1 DEF Missing
  <2> QED
    BY <2>1, <2>2, ReachStays
<1> QED
  BY <1>2, <1>3, <1>4

LEMMA ReachKept == TypeOK /\ AgreeInv /\ ReachInv /\ [Next]_vars => ReachInv'
<1> SUFFICES ASSUME TypeOK, AgreeInv, ReachInv, [Next]_vars PROVE ReachInv'
  OBVIOUS
<1>1. ASSUME UNCHANGED <<photos, proxy, thumb, deleted, spoiled, crossed>>,
             backfill' = backfill \/ backfill'.at \notin {"deriving", "counting"}
      PROVE  ReachInv'
  <2>1. Missing' = Missing
    BY <1>1 DEF Missing
  <2> QED
    BY <1>1, <2>1, ReachStays
<1>2. ASSUME NEW w \in Worker, TaskStep(w) \/ TaskRetries(w) \/ TaskFails(w) \/ TaskDies(w)
      PROVE  ReachInv'
  <2>1. CASE TaskSaves(w)
    BY <2>1, SavesReach
  <2>2. CASE ~TaskSaves(w)
    <3>1. UNCHANGED <<photos, proxy, thumb, deleted, spoiled, crossed, backfill>>
      BY <1>2, <2>2 DEF TaskStep, TaskLoads, TaskMakes, TaskMarks, TaskReads, TaskWrites, TaskCools,
                        TaskRetries, TaskFails, TaskDies, rows, ghosts, objects
    <3> QED
      BY <1>1, <3>1
  <2> QED
    BY <2>1, <2>2
<1>3. CASE BackfillLoads \/ BackfillCommits \/ \E p \in Photo : BackfillDerives(p) \/ BackfillSkips(p)
  BY <1>3, BackfillReach
<1>4. CASE BackfillCalled \/ BackfillBreaks \/ BackfillCounts \/ BackfillDies
  <2>1. /\ UNCHANGED <<photos, proxy, thumb, deleted, spoiled, crossed>>
        /\ backfill'.at \notin {"deriving", "counting"}
    BY <1>4 DEF BackfillCalled, BackfillBreaks, BackfillCounts, BackfillDies, rows, ghosts, objects,
                Resting, TypeOK, Backfills
  <2> QED
    BY <1>1, <2>1
<1>5. CASE \/ \E r \in Request : UploadPuts(r) \/ UploadDrops(r) \/ UploadSaves(r) \/ UploadFails(r)
           \/ (\E k \in Logo : ProfileNames(k)) \/ UNCHANGED vars
  <2>1. UNCHANGED <<photos, proxy, thumb, deleted, spoiled, crossed, backfill>>
    BY <1>5 DEF UploadPuts, Puts, UploadDrops, UploadSaves, UploadFails, ProfileNames, vars,
                rows, ghosts, objects
  <2> QED
    BY <1>1, <2>1
<1>6. (\E p \in Photo : Deletes(p)) \/ Archives \/ Restores => ReachInv'
  BY PhotosReach
<1> QED
  BY <1>2, <1>3, <1>4, <1>5, <1>6, Zenon DEF Next, Breaks, Uploads, BackfillStep

\* A step in which a backfill that met nothing comes to its end.
LEMMA EndReaches ==
  ASSUME TypeOK, ReachInv, [Next]_vars,
         backfill.at = "counting", backfill'.at = "idle", ~backfill.hit, faults' = faults,
         NEW p \in Missing \ Unreadable
  PROVE  Cardinality(Newer(p, Unreadable)) >= BatchSize
<1>1. photos \subseteq Photo /\ backfill \in Backfills /\ faults \in Nat
  BY DEF TypeOK, RowsOK, TasksOK
<1>2. backfill.got = None
  <2>1. \/ BackfillCounts
        \/ backfill' = backfill \/ backfill'.at # "idle"
        \/ \E q \in Photo : Deletes(q)
        \/ faults' = faults + 1
        \/ backfill.at # "counting"
    BY DEF Next, TaskStep, TaskLoads, TaskMakes, TaskMarks, TaskReads, TaskWrites, TaskSaves, TaskCools,
           TaskRetries, TaskFails, TaskDies, BackfillCalled, BackfillStep, BackfillLoads, BackfillDerives,
           BackfillCommits, BackfillBreaks, Breaks, BackfillSkips, BackfillDies, Fault, Uploads, Puts,
           UploadPuts, UploadDrops, UploadSaves, UploadFails, ProfileNames, Archives, Restores, vars
  <2>2. ~\E q \in Photo : Deletes(q)
    BY <1>1 DEF Deletes, Backfills
  <2>3. BackfillCounts
    BY <1>1, <2>1, <2>2
  <2>4. Missing # {}
    OBVIOUS
  <2> QED
    BY <1>1, <2>3, <2>4 DEF BackfillCounts, Continues, Backfills
<1>3. Batch \subseteq Unreadable
  BY <1>2 DEF ReachInv
<1>4. Missing \in SUBSET Photo
  BY <1>1 DEF Missing
<1>5. Cardinality(Newer(p, Missing)) >= BatchSize
  <2>1. p \notin Batch
    BY <1>3
  <2>2. Cardinality(Newer(p, Missing)) \in Nat
    BY <1>4, NewerCounted
  <2> QED
    BY <2>1, <2>2 DEF Batch
<1>6. Cardinality(Newer(p, Batch)) >= BatchSize
  BY <1>4, <1>5, NewestFill DEF Batch
<1>7. /\ Newer(p, Batch) \subseteq Newer(p, Unreadable)
      /\ Unreadable \in SUBSET Photo /\ Batch \in SUBSET Photo
  BY <1>3, <1>4 DEF Newer, Unreadable
<1>8. /\ Cardinality(Newer(p, Batch)) <= Cardinality(Newer(p, Unreadable))
      /\ Cardinality(Newer(p, Unreadable)) \in Nat /\ Cardinality(Newer(p, Batch)) \in Nat
  BY <1>7, NewerCounted, FS_Subset
<1> QED
  BY <1>6, <1>8

\* A backfill that meets no error and no deletion has served every photo whose proxy can be
\* read, but those older than a batch of photos whose proxies can not (photo_tasks.py:241).
THEOREM BackfillServesAll == Spec => BackfillReachesAll
<1>1. ASSUME TypeOK, ReachInv, [Next]_vars
      PROVE  [backfill.at = "counting" /\ backfill'.at = "idle" /\ ~backfill.hit /\ faults' = faults =>
                 \A p \in Missing \ Unreadable :
                     Cardinality(Newer(p, Unreadable)) >= BatchSize]_vars
  BY <1>1, EndReaches
<1> QED
  BY <1>1, InitTyped, NextTyped, AgreeInit, AgreeKept, ReachInit, ReachKept, PTL DEF Spec, BackfillReachesAll

-----------------------------------------------------------------------------
(* The watermarks on a photo *)

LEMMA KeysInit == Init => KeysInv
  BY DEF Init, KeysInv, At, Idle, Photo

\* A worker that has a key had it before.
KeepsKey(v) ==
    \/ At(v, "idle")'
    \/ At(v, "make")' /\ task'[v].new = 0 /\ task'[v].photo \in Photo
    \/ /\ ~At(v, "idle") /\ (~At(v, "make") \/ At(v, "make")')
       /\ task'[v].photo = task[v].photo /\ task'[v].new = task[v].new

\* A proxy has the number of a make.
LEMMA KeysKept == TypeOK /\ KeysInv /\ [Next]_vars => KeysInv'
<1> SUFFICES ASSUME TypeOK, KeysInv, [Next]_vars PROVE KeysInv'
  OBVIOUS
<1>0. /\ made \in [Photo -> OrNone] /\ proxy \in [Photo -> OrNone] /\ DOMAIN task = Worker
      /\ \A q \in Photo : made[q] \in Int /\ proxy[q] \in Int /\ 0 <= made[q]
  BY DEF TypeOK, ObjectsOK, RowsOK, TasksOK, OrNone
<1>e. \A w \in Worker : ~At(w, "idle") => /\ task[w] \in Runs /\ task[w].photo \in Photo
                                        /\ task[w].new \in Int
  BY RunTyped DEF Runs, TypeOK, OrNone
<1>1. ASSUME NEW w \in Worker, TaskMakes(w) PROVE KeysInv'
  <2> DEFINE p == task[w].photo
             k == made[p] + 1
  <2>1. p \in Photo /\ k \in Int /\ k # 0 /\ ~At(w, "idle")
    BY <1>0, <1>1, <1>e DEF TaskMakes, At, OrNone
  <2>2. /\ made'[p] = k /\ \A q \in Photo \ {p} : made'[q] = made[q]
        /\ \A q \in Photo : made[q] <= made'[q] /\ made'[q] \in Int
    BY <1>0, <1>1, <2>1 DEF TaskMakes
  <2>3. /\ task'[w].photo = p /\ task'[w].new = k
        /\ \A v \in Worker \ {w} : task'[v] = task[v]
    BY <1>0, <1>1, <1>e, <2>1 DEF TaskMakes, Runs
  <2>4. proxy' = proxy
    BY <1>1 DEF TaskMakes, rows
  <2> HIDE DEF p, k
  <2>5. \A q \in Photo : proxy'[q] <= made'[q]
    BY <1>0, <2>2, <2>4 DEF KeysInv
  <2>6. ASSUME NEW v \in Worker, ~At(v, "idle")'
        PROVE  task'[v].new <= made'[task'[v].photo] /\ (At(v, "make")' \/ task'[v].new # 0)
    <3>1. CASE v = w
      BY <2>1, <2>2, <2>3, <3>1
    <3>2. CASE v # w
      <4>1. task'[v] = task[v] /\ ~At(v, "idle")
        BY <2>3, <2>6, <3>2 DEF At
      <4> QED
        <5>1. /\ task[v].new <= made[task[v].photo] /\ (At(v, "make") \/ task[v].new # 0)
              /\ made[task[v].photo] <= made'[task[v].photo]
          BY <1>e, <2>2, <4>1 DEF KeysInv
        <5>2. task[v].new \in Int /\ made[task[v].photo] \in Int /\ made'[task[v].photo] \in Int
          BY <1>0, <1>e, <2>2, <4>1
        <5> QED
          BY <4>1, <5>1, <5>2 DEF At
    <3> QED
      BY <3>1, <3>2
  <2> QED
    BY <2>5, <2>6 DEF KeysInv
<1>2. ASSUME NEW w \in Worker, TaskSaves(w) PROVE KeysInv'
  <2>1. /\ made' = made /\ ~At(w, "idle") /\ ~At(w, "make")
        /\ \A v \in Worker \ {w} : task'[v] = task[v]
        /\ At(w, "idle")' \/ (task'[w].photo = task[w].photo /\ task'[w].new = task[w].new)
    BY <1>0, <1>2, <1>e DEF TaskSaves, At, objects, Goes, Rests, Idle, Runs
  <2>2. \A q \in Photo : proxy'[q] <= made[q]
    BY <1>0, <1>2, <1>e, <2>1 DEF TaskSaves, KeysInv
  <2> QED
    BY <2>1, <2>2 DEF KeysInv, At
<1>3. ASSUME UNCHANGED made, \A q \in Photo : proxy'[q] \in {0, proxy[q]},
             \A v \in Worker : KeepsKey(v)
      PROVE  KeysInv'
  <2>1. \A q \in Photo : proxy'[q] <= made'[q] /\ 0 <= made'[q]
    BY <1>0, <1>3 DEF KeysInv
  <2>2. ASSUME NEW v \in Worker, ~At(v, "idle")'
        PROVE  task'[v].new <= made'[task'[v].photo] /\ (At(v, "make")' \/ task'[v].new # 0)
    <3>1. CASE At(v, "make")' /\ task'[v].new = 0 /\ task'[v].photo \in Photo
      BY <2>1, <3>1
    <3>2. CASE /\ ~At(v, "idle") /\ (~At(v, "make") \/ At(v, "make")')
               /\ task'[v].photo = task[v].photo /\ task'[v].new = task[v].new
      BY <1>3, <1>e, <3>2 DEF KeysInv
    <3> QED
      BY <1>3, <2>2, <3>1, <3>2 DEF KeepsKey
  <2> QED
    BY <2>1, <2>2 DEF KeysInv
<1>4. ASSUME NEW v \in Worker, UNCHANGED task[v] PROVE KeepsKey(v)
  BY <1>4, <1>e DEF KeepsKey, At
<1>5. ASSUME NEW w \in Worker, NEW p \in Photo, NEW n \in 0..MaxTries, TaskLoads(w, p, n)
      PROVE  KeysInv'
  <2>1. /\ UNCHANGED <<proxy, made>> /\ \A v \in Worker \ {w} : task'[v] = task[v]
        /\ \/ At(w, "idle")'
           \/ At(w, "make")' /\ task'[w].new = 0 /\ task'[w].photo = p
    BY <1>0, <1>5 DEF TaskLoads, rows, objects, At
  <2>2. KeepsKey(w)
    BY <2>1 DEF KeepsKey
  <2> QED
    BY <1>3, <1>4, <2>1, <2>2
<1>6. ASSUME NEW w \in Worker, TaskMarks(w) \/ TaskReads(w) \/ TaskWrites(w) PROVE KeysInv'
  <2>1. UNCHANGED <<proxy, made>> /\ ~At(w, "idle") /\ ~At(w, "make")
    BY <1>6 DEF TaskMarks, TaskReads, TaskWrites, rows, objects, At
  <2>2. /\ task'[w].photo = task[w].photo /\ task'[w].new = task[w].new
        /\ \A v \in Worker \ {w} : task'[v] = task[v]
    BY <1>0, <1>6, <1>e, <2>1 DEF TaskMarks, TaskReads, TaskWrites, Goes, Runs
  <2>3. KeepsKey(w)
    BY <2>1, <2>2 DEF KeepsKey
  <2> QED
    BY <1>3, <1>4, <2>1, <2>2, <2>3
<1>7. ASSUME NEW w \in Worker, TaskCools(w) \/ TaskRetries(w) \/ TaskFails(w) \/ TaskDies(w)
      PROVE  KeysInv'
  <2>1. /\ UNCHANGED <<proxy, made>> /\ task'[w] = Idle
        /\ \A v \in Worker \ {w} : task'[v] = task[v]
    BY <1>0, <1>7 DEF TaskCools, TaskRetries, TaskFails, TaskDies, rows, objects, Rests
  <2>2. KeepsKey(w)
    BY <2>1 DEF KeepsKey, At, Idle
  <2> QED
    BY <1>3, <1>4, <2>1, <2>2
<1>8. ASSUME UNCHANGED <<made, task>>, \A q \in Photo : proxy'[q] \in {0, proxy[q]} PROVE KeysInv'
  BY <1>3, <1>4, <1>8
<1>9. CASE BackfillCalled \/ BackfillStep \/ BackfillDies \/ \E p \in Photo : BackfillSkips(p)
  BY <1>8, <1>9 DEF BackfillCalled, BackfillStep, BackfillLoads, BackfillDerives, BackfillCommits,
                    BackfillBreaks, BackfillCounts, BackfillDies, BackfillSkips, rows, objects
<1>10. CASE (\E p \in Photo : Deletes(p)) \/ Archives \/ Restores
  <2>1. UNCHANGED <<made, task>> /\ \A q \in Photo : proxy'[q] \in {0, proxy[q]}
    BY <1>0, <1>10 DEF Deletes, Archives, Restores, rows, objects
  <2> QED
    BY <1>8, <2>1
<1>11. CASE \/ \E r \in Request : UploadPuts(r) \/ UploadDrops(r) \/ UploadSaves(r) \/ UploadFails(r)
            \/ (\E k \in Logo : ProfileNames(k)) \/ UNCHANGED vars
  BY <1>8, <1>11 DEF UploadPuts, Puts, UploadDrops, UploadSaves, UploadFails, ProfileNames, vars,
                     rows, objects
<1> QED
  BY <1>1, <1>2, <1>5, <1>6, <1>7, <1>9, <1>10, <1>11, Zenon DEF Next, Breaks, Uploads, TaskStep

LEMMA MarkInit == Init => MarkInv
<1> SUFFICES ASSUME Init PROVE MarkInv
  OBVIOUS
<1> PICK old \in SUBSET Photo : Init!(old)
  BY DEF Init
<1>1. /\ photos = Photo /\ queue = {<<p, 0>> : p \in Photo \ old} /\ task = [w \in Worker |-> Idle]
      /\ proxy = [p \in Photo |-> IF p \in old THEN 1 ELSE 0] /\ 1 \in Key
      /\ original = [p \in Photo |-> IF p \in old THEN watermark ELSE 0]
      /\ marks = [x \in Photo \X Key |-> IF x[2] = 1 THEN original[x[1]] ELSE 0]
      /\ watermark \in {0, 1} /\ plain = (IF watermark = 0 THEN old \X {1} ELSE {})
  BY DEF Key
<1>2. ASSUME NEW p \in Photo PROVE Shown(p)
  BY <1>1 DEF Shown
<1>3. ASSUME NEW p \in Photo PROVE Known(p)
  BY <1>1 DEF Known, Alone, Waits, OnIt, At, Idle
<1> QED
  BY <1>1, <1>2, <1>3 DEF MarkInv

\* What nobody does anything to, but to give it up, stays known.
LEMMA Untouched ==
  ASSUME TypeOK, KeysInv, NEW p \in Photo, Shown(p), Known(p),
         \A n \in 0..MaxTries : <<p, n>> \in queue' => <<p, n>> \in queue,
         \A v \in Worker : OnIt(v, p)' => OnIt(v, p) /\ task'[v] = task[v],
         original'[p] = original[p], proxy'[p] \in {0, proxy[p]},
         \A k \in Key : /\ marks'[<<p, k>>] = marks[<<p, k>>]
                        /\ <<p, k>> \in plain' <=> <<p, k>> \in plain
  PROVE  Shown(p)' /\ Known(p)'
<1>1. proxy[p] # 0 => proxy[p] \in Key
  BY DEF TypeOK, RowsOK, OrNone, Key
<1>2. Shown(p)'
  BY <1>1 DEF Shown
<1>3. Waits(p)' => Waits(p)
  BY DEF Waits
<1>4. Alone(p)'
  <2>1. \A m, n \in 0..MaxTries : <<p, m>> \in queue' /\ <<p, n>> \in queue' => m = n
    BY DEF Known, Alone
  <2> QED
    BY <1>3, <2>1 DEF Known, Alone
<1>5. ASSUME NEW v \in Worker, OnIt(v, p)' PROVE Knows(v)'
  <2>1. OnIt(v, p) /\ Knows(v) /\ task'[v] = task[v] /\ task[v].photo = p
    BY <1>5 DEF Known, OnIt
  <2>2. task[v] \in Runs /\ (At(v, "make") \/ task[v].new # 0)
    BY <2>1, RunTyped DEF OnIt, TypeOK, KeysInv
  <2>3. At(v, "make") \/ task[v].new \in Key
    BY <2>2 DEF Runs, OrNone, Key
  <2> QED
    BY <2>1, <2>2, <2>3 DEF Knows, Fresh, At
<1> QED
  BY <1>2, <1>3, <1>4, <1>5 DEF Known

\* A step of a worker at another photo.
LEMMA OtherPhoto ==
  ASSUME TypeOK, KeysInv, NEW w \in Worker, NEW p \in Photo, Shown(p), Known(p), ~OnIt(w, p),
         \/ TaskMakes(w) \/ TaskMarks(w) \/ TaskReads(w) \/ TaskWrites(w) \/ TaskSaves(w)
         \/ TaskCools(w) \/ TaskRetries(w) \/ TaskFails(w) \/ TaskDies(w)
  PROVE  Shown(p)' /\ Known(p)'
<1> DEFINE q == task[w].photo
<1>1. ~At(w, "idle") /\ task[w] \in Runs /\ q \in Photo /\ q # p
  <2>1. ~At(w, "idle")
    BY DEF TaskMakes, TaskMarks, TaskReads, TaskWrites, TaskSaves, TaskCools, TaskRetries, TaskFails,
           TaskDies, At
  <2> QED
    BY <2>1, RunTyped DEF TypeOK, Runs, OnIt
<1>2. DOMAIN task = Worker
  BY DEF TypeOK, TasksOK
<1>3. /\ \A v \in Worker \ {w} : task'[v] = task[v]
      /\ task'[w].at = "idle" \/ task'[w].photo = q
  BY <1>1, <1>2 DEF TaskMakes, TaskMarks, TaskReads, TaskWrites, TaskSaves, TaskCools,
                    TaskRetries, TaskFails, TaskDies, Goes, Rests, Idle, Runs
<1>4. \A v \in Worker : OnIt(v, p)' => OnIt(v, p) /\ task'[v] = task[v]
  BY <1>1, <1>3 DEF OnIt, At
<1>5. \A n \in 0..MaxTries : <<p, n>> \in queue' => <<p, n>> \in queue
  BY <1>1 DEF TaskMakes, TaskMarks, TaskReads, TaskWrites, TaskSaves, TaskCools, TaskRetries,
              TaskFails, TaskDies
<1>6. original'[p] = original[p]
  BY <1>1 DEF TaskMakes, TaskMarks, TaskReads, TaskWrites, TaskSaves, TaskCools, TaskRetries,
              TaskFails, TaskDies, Overwrites, objects, TypeOK, ObjectsOK
<1>7. proxy'[p] = proxy[p]
  BY <1>1 DEF TaskMakes, TaskMarks, TaskReads, TaskWrites, TaskSaves, TaskCools, TaskRetries,
              TaskFails, TaskDies, rows, TypeOK, RowsOK
<1>8. \A k \in Key : marks'[<<p, k>>] = marks[<<p, k>>]
  BY <1>1 DEF TaskMakes, TaskMarks, TaskReads, TaskWrites, TaskSaves, TaskCools, TaskRetries,
              TaskFails, TaskDies, objects, TypeOK, ObjectsOK
<1>9. \A k \in Key : <<p, k>> \in plain' <=> <<p, k>> \in plain
  BY <1>1 DEF TaskMakes, TaskMarks, TaskReads, TaskWrites, TaskSaves, TaskCools, TaskRetries,
              TaskFails, TaskDies, ghosts
<1> QED
  BY <1>4, <1>5, <1>6, <1>7, <1>8, <1>9, Untouched

\* The one worker that has the photo goes on with it.
LEMMA OnlyOne ==
  ASSUME TypeOK, NEW p \in Photo, Alone(p), NEW w \in Worker, OnIt(w, p), UNCHANGED queue,
         \A v \in Worker \ {w} : task'[v] = task[v],
         Knows(w)', Shown(p)'
  PROVE  Shown(p)' /\ Known(p)'
<1>1. ~Waits(p) /\ ~Waits(p)'
  BY DEF Alone, Waits
<1>2. \A v \in Worker \ {w} : ~OnIt(v, p)'
  BY DEF Alone, OnIt, At
<1> QED
  BY <1>1, <1>2 DEF Known, Alone, Waits

\* A new proxy shows what the original shows, which is nothing yet.
LEMMA MakesKnown ==
  ASSUME TypeOK, KeysInv, NEW w \in Worker, NEW p \in Photo, Shown(p), Known(p), OnIt(w, p),
         TaskMakes(w)
  PROVE  Shown(p)' /\ Known(p)'
<1> DEFINE k == made[p] + 1
           x == <<p, k>>
<1>1. /\ task[w].photo = p /\ task[w] \in Runs /\ DOMAIN task = Worker /\ Knows(w) /\ At(w, "make")
  BY RunTyped DEF OnIt, TypeOK, TasksOK, Known, TaskMakes
<1>2. original[p] = 0
  BY <1>1 DEF Knows, Fresh, At
<1>3. made[p] \in Int /\ proxy[p] \in Int /\ proxy[p] <= made[p] /\ k \in Key
  BY <1>1 DEF KeysInv, TypeOK, ObjectsOK, RowsOK, OrNone, TaskMakes, Key
<1>4. proxy[p] # k
  BY <1>3
<1>5. /\ task'[w].photo = p /\ task'[w].new = k /\ task'[w].logo = watermark
      /\ task'[w].at = (IF watermark = 0 THEN "save" ELSE "mark")
      /\ \A v \in Worker \ {w} : task'[v] = task[v]
  BY <1>1 DEF TaskMakes, Runs
<1>6. /\ made'[p] = k /\ marks' = [marks EXCEPT ![x] = 0]
      /\ UNCHANGED <<queue, original, proxy>>
  BY <1>1, <1>2 DEF TaskMakes, rows, TypeOK, ObjectsOK
<1>7. plain' = {y \in plain : y[1] # p \/ y[2] = proxy[p]} \cup (IF watermark = 0 THEN {x} ELSE {})
  BY <1>1, <1>6 DEF TaskMakes
<1> HIDE DEF k
<1>8. marks'[x] = 0 /\ \A j \in Key \ {k} : marks'[<<p, j>>] = marks[<<p, j>>]
  BY <1>3, <1>6 DEF TypeOK, ObjectsOK
<1>9. x \in plain' <=> watermark = 0
  BY <1>4, <1>7
<1>10. Knows(w)'
  BY <1>2, <1>4, <1>5, <1>6, <1>8, <1>9 DEF Knows, Fresh
<1>11. Shown(p)'
  <2>1. proxy[p] # 0 => proxy[p] \in Key \ {k}
    BY <1>3, <1>4 DEF TypeOK, RowsOK, OrNone, Key
  <2>2. <<p, proxy[p]>> \in plain' <=> <<p, proxy[p]>> \in plain
    BY <1>4, <1>7
  <2> QED
    BY <1>6, <1>8, <2>1, <2>2 DEF Shown
<1> QED
  BY <1>5, <1>6, <1>10, <1>11, OnlyOne DEF Known

\* The new proxy is marked once, and then the original.
LEMMA MarksKnown ==
  ASSUME TypeOK, KeysInv, NEW w \in Worker, NEW p \in Photo, Shown(p), Known(p), OnIt(w, p),
         TaskMarks(w) \/ TaskReads(w) \/ TaskWrites(w)
  PROVE  Shown(p)' /\ Known(p)'
<1> DEFINE k == task[w].new
           x == <<p, k>>
<1>1. /\ task[w].photo = p /\ task[w] \in Runs /\ DOMAIN task = Worker /\ Knows(w)
      /\ task[w].at \in {"mark", "read", "write"}
  BY RunTyped DEF OnIt, TypeOK, TasksOK, Known, TaskMarks, TaskReads, TaskWrites, At
<1>2. k \in Key /\ k # proxy[p] /\ (proxy[p] # 0 => proxy[p] \in Key) /\ task[w].logo # 0
  BY <1>1 DEF Knows, KeysInv, At, Runs, OrNone, Key, TypeOK, RowsOK
<1>3. /\ task'[w].photo = p /\ task'[w].new = k /\ task'[w].logo = task[w].logo
      /\ \A v \in Worker \ {w} : task'[v] = task[v]
  BY <1>1 DEF TaskMarks, TaskReads, TaskWrites, Goes, Runs
<1>4. UNCHANGED <<queue, proxy, plain>>
  BY DEF TaskMarks, TaskReads, TaskWrites, rows, ghosts
<1>5. CASE TaskMarks(w)
  <2>1. marks' = [marks EXCEPT ![x] = @ + 1] /\ original' = original
        /\ task'[w].at = "read" /\ task[w].at = "mark"
    BY <1>1, <1>5 DEF TaskMarks, Goes, Runs, At
  <2>2. marks[x] = 0 /\ x \notin plain /\ original[p] = 0
    BY <1>1, <2>1 DEF Knows, Fresh
  <2> HIDE DEF k
  <2>3. marks'[x] = 1 /\ (proxy[p] # 0 => marks'[<<p, proxy[p]>>] = marks[<<p, proxy[p]>>])
    BY <1>2, <2>1, <2>2 DEF TypeOK, ObjectsOK
  <2>4. Knows(w)'
    BY <1>2, <1>3, <1>4, <2>1, <2>2, <2>3 DEF Knows, Fresh
  <2>5. Shown(p)'
    BY <1>4, <2>3 DEF Shown
  <2> QED
    BY <1>3, <1>4, <2>4, <2>5, OnlyOne DEF Known
<1>6. CASE TaskReads(w) \/ TaskWrites(w)
  <2>1. /\ marks' = marks
        /\ \/ task'[w].at = "write" /\ task[w].at = "read" /\ original' = original
           \/ task'[w].at = "save" /\ task[w].at = "write"
    BY <1>1, <1>6 DEF TaskReads, TaskWrites, Goes, Runs, At, objects
  <2>2. marks[x] = 1 /\ x \notin plain /\ original[p] = 0
    BY <1>1, <2>1 DEF Knows, Fresh
  <2>3. Knows(w)'
    BY <1>2, <1>3, <1>4, <2>1, <2>2 DEF Knows, Fresh
  <2>4. Shown(p)'
    BY <1>4, <2>1 DEF Shown
  <2> QED
    BY <1>3, <1>4, <2>3, <2>4, OnlyOne DEF Known
<1> QED
  BY <1>5, <1>6

\* What is saved is what the task knows its proxy to show.
LEMMA SavesKnown ==
  ASSUME TypeOK, KeysInv, NEW w \in Worker, NEW p \in photos, Shown(p), Known(p), OnIt(w, p),
         TaskSaves(w)
  PROVE  Shown(p)' /\ Known(p)'
<1>1. /\ task[w].photo = p /\ task[w] \in Runs /\ DOMAIN task = Worker /\ Knows(w)
      /\ task[w].at = "save" /\ p \in Photo
  BY RunTyped DEF OnIt, TypeOK, TasksOK, RowsOK, Known, TaskSaves, At
<1>2. /\ UNCHANGED <<queue, original, marks, plain>> /\ proxy' = [proxy EXCEPT ![p] = task[w].new]
      /\ Goes(w, "cool")
  BY <1>1 DEF TaskSaves, objects, ghosts
<1>3. /\ task'[w].photo = p /\ task'[w].logo = task[w].logo /\ task'[w].at = "cool"
      /\ \A v \in Worker \ {w} : task'[v] = task[v]
      /\ proxy'[p] = task[w].new
  BY <1>1, <1>2 DEF Goes, Runs, TypeOK, RowsOK
<1>4. Knows(w)'
  BY <1>1, <1>2, <1>3 DEF Knows, Fresh
<1>5. Shown(p)'
  BY <1>1, <1>2, <1>3 DEF Shown, Knows
<1> QED
  BY <1>1, <1>2, <1>3, <1>4, <1>5, OnlyOne DEF Known

\* A photo whose original may have been overwritten is tried again only as redone.
LEMMA RetriesKnown ==
  ASSUME TypeOK, KeysInv, NEW w \in Worker, NEW p \in Photo, p \notin redone', Shown(p), Known(p),
         OnIt(w, p), TaskRetries(w)
  PROVE  Shown(p)' /\ Known(p)'
<1> DEFINE n == task[w].tries
<1>1. /\ task[w].photo = p /\ task[w] \in Runs /\ DOMAIN task = Worker /\ Knows(w)
      /\ ~Waits(p) /\ \A v \in Worker \ {w} : ~OnIt(v, p)
  BY RunTyped DEF OnIt, TypeOK, TasksOK, Known, Alone, At
<1>2. \A v \in Worker : ~OnIt(v, p)'
  BY <1>1 DEF TaskRetries, Rests, OnIt, At, Idle
<1>3. Shown(p)'
  BY DEF TaskRetries, rows, Shown
<1>4. CASE queue' = queue
  BY <1>1, <1>2, <1>3, <1>4 DEF Known, Alone, Waits
<1>5. CASE n < MaxTries
  <2>1. ~Overwritten(w) /\ queue' = queue \cup {<<p, n + 1>>}
    BY <1>1, <1>5 DEF TaskRetries
  <2>2. Fresh(w) /\ task[w].at # "write"
    BY <1>1, <2>1 DEF Overwritten, Fresh, Runs, Steps, Knows
  <2>3. original'[p] = 0
    BY <1>1, <2>2 DEF TaskRetries, Knows, At
  <2>4. \A m \in 0..MaxTries : <<p, m>> \in queue' => m = n + 1
    BY <1>1, <2>1 DEF Waits
  <2> QED
    BY <1>2, <1>3, <2>3, <2>4 DEF Known, Alone
<1> QED
  BY <1>4, <1>5 DEF TaskRetries

\* A photo that is loaded has no other message.
LEMMA LoadsKnown ==
  ASSUME TypeOK, KeysInv, NEW w \in Worker, NEW p \in photos, Shown(p), Known(p),
         NEW n \in 0..MaxTries, TaskLoads(w, p, n)
  PROVE  Shown(p)' /\ Known(p)'
<1>1. /\ Waits(p) /\ \A v \in Worker : ~OnIt(v, p)
      /\ \A m \in 0..MaxTries : <<p, m>> \in queue => m = n
  BY DEF TaskLoads, Waits, Known, Alone
<1>2. /\ DOMAIN task = Worker /\ UNCHANGED <<proxy, marks, plain, original>>
      /\ queue' = queue \ {<<p, n>>}
      /\ task'[w] = [at |-> "make", photo |-> p, tries |-> n, new |-> 0, copy |-> 0, logo |-> 0]
      /\ \A v \in Worker \ {w} : task'[v] = task[v]
  BY DEF TaskLoads, TypeOK, TasksOK, rows, objects, ghosts
<1>3. original[p] = 0 /\ Shown(p)'
  BY <1>1, <1>2 DEF Known, Shown
<1>4. ~Waits(p)' /\ \A v \in Worker : OnIt(v, p)' => v = w
  BY <1>1, <1>2 DEF Waits, OnIt, At
<1>5. Knows(w)'
  BY <1>2, <1>3 DEF Knows, Fresh
<1> QED
  BY <1>3, <1>4, <1>5 DEF Known, Alone, Waits

LEMMA WorkerKnown ==
  ASSUME TypeOK, KeysInv, NEW w \in Worker, NEW p \in photos, p \notin redone', Shown(p), Known(p),
         TaskStep(w) \/ TaskRetries(w) \/ TaskFails(w) \/ TaskDies(w)
  PROVE  Shown(p)' /\ Known(p)'
<1>0. p \in Photo /\ DOMAIN task = Worker
  BY DEF TypeOK, RowsOK, TasksOK
<1>1. ASSUME NEW q \in Photo, NEW n \in 0..MaxTries, TaskLoads(w, q, n)
      PROVE  Shown(p)' /\ Known(p)'
  <2>1. CASE q = p
    BY <1>1, <2>1, LoadsKnown
  <2>2. CASE q # p
    <3>1. \A v \in Worker : OnIt(v, p)' => OnIt(v, p) /\ task'[v] = task[v]
      BY <1>0, <1>1, <2>2 DEF TaskLoads, OnIt, At
    <3>2. /\ UNCHANGED <<original, proxy, marks, plain>>
          /\ \A m \in 0..MaxTries : <<p, m>> \in queue' => <<p, m>> \in queue
      BY <1>1, <2>2 DEF TaskLoads, rows, objects, ghosts
    <3> QED
      BY <1>0, <3>1, <3>2, Untouched
  <2> QED
    BY <2>1, <2>2
<1>2. CASE ~OnIt(w, p) /\ ~\E q \in Photo, n \in 0..MaxTries : TaskLoads(w, q, n)
  BY <1>0, <1>2, OtherPhoto DEF TaskStep
<1>3. ASSUME OnIt(w, p), TaskCools(w) \/ TaskFails(w) \/ TaskDies(w)
      PROVE  Shown(p)' /\ Known(p)'
  <2>1. \A v \in Worker : OnIt(v, p)' => OnIt(v, p) /\ task'[v] = task[v]
    BY <1>0, <1>3 DEF TaskCools, TaskFails, TaskDies, Rests, OnIt, At, Idle
  <2>2. UNCHANGED <<queue, original, proxy, marks, plain>>
    BY <1>3 DEF TaskCools, TaskFails, TaskDies, rows, objects, ghosts
  <2> QED
    BY <1>0, <2>1, <2>2, Untouched
<1> QED
  BY <1>0, <1>1, <1>2, <1>3, MakesKnown, MarksKnown, SavesKnown, RetriesKnown DEF TaskStep

LEMMA MarkKept == TypeOK /\ KeysInv /\ MarkInv /\ [Next]_vars => MarkInv'
<1> SUFFICES ASSUME TypeOK, KeysInv, MarkInv, [Next]_vars, NEW p \in (photos \ redone)'
             PROVE  Shown(p)' /\ Known(p)'
  BY DEF MarkInv
<1>1. ASSUME NEW w \in Worker, TaskStep(w) \/ TaskRetries(w) \/ TaskFails(w) \/ TaskDies(w)
      PROVE  Shown(p)' /\ Known(p)'
  <2>1. photos' = photos /\ redone \subseteq redone'
    BY <1>1 DEF TaskStep, TaskLoads, TaskMakes, TaskMarks, TaskReads, TaskWrites, TaskSaves,
                TaskCools, TaskRetries, TaskFails, TaskDies, rows, ghosts
  <2>2. p \in photos \ redone /\ p \notin redone'
    BY <2>1
  <2> QED
    BY <1>1, <2>2, WorkerKnown DEF MarkInv
<1>2. ASSUME p \in photos \ redone, UNCHANGED <<queue, task, original, marks>>,
             proxy'[p] \in {0, proxy[p]},
             \A k \in Key : <<p, k>> \in plain' <=> <<p, k>> \in plain
      PROVE  Shown(p)' /\ Known(p)'
  <2>1. p \in Photo /\ \A v \in Worker : OnIt(v, p)' => OnIt(v, p)
    BY <1>2 DEF TypeOK, RowsOK, OnIt, At
  <2> QED
    BY <1>2, <2>1, Untouched DEF MarkInv
<1>3. CASE BackfillCalled \/ BackfillStep \/ BackfillDies \/ \E q \in Photo : BackfillSkips(q)
  BY <1>2, <1>3 DEF BackfillCalled, BackfillStep, BackfillLoads, BackfillDerives, BackfillCommits,
                    BackfillBreaks, BackfillCounts, BackfillDies, BackfillSkips, rows, objects, ghosts
<1>4. CASE \/ \E r \in Request : UploadPuts(r) \/ UploadDrops(r) \/ UploadSaves(r) \/ UploadFails(r)
           \/ (\E k \in Logo : ProfileNames(k)) \/ UNCHANGED vars
  BY <1>2, <1>4 DEF UploadPuts, Puts, UploadDrops, UploadSaves, UploadFails, ProfileNames, vars,
                    rows, objects, ghosts
<1>5. ASSUME NEW q \in Photo, Deletes(q) PROVE Shown(p)' /\ Known(p)'
  <2>1. /\ p \in photos \ redone /\ p # q /\ UNCHANGED <<queue, task, original, marks>>
        /\ proxy' = [proxy EXCEPT ![q] = 0] /\ plain' = {x \in plain : x[1] # q}
    BY <1>5 DEF Deletes, objects
  <2>2. proxy'[p] = proxy[p] /\ \A k \in Key : <<p, k>> \in plain' <=> <<p, k>> \in plain
    BY <2>1 DEF TypeOK, RowsOK
  <2> QED
    BY <1>2, <2>1, <2>2
<1>6. CASE Archives
  <2>1. /\ p \in photos \ redone /\ UNCHANGED <<queue, task, original, marks, plain>>
        /\ proxy' = [q \in Photo |-> 0]
    BY <1>6 DEF Archives
  <2>2. proxy'[p] = 0
    BY <2>1 DEF TypeOK, RowsOK
  <2> QED
    BY <1>2, <2>1, <2>2
<1>7. CASE Restores
  BY <1>7 DEF Restores, rows
<1> QED
  BY <1>1, <1>3, <1>4, <1>5, <1>6, <1>7, Zenon DEF Next, Breaks, Uploads

\* With any number of workers, tries and changes of the watermark, a photo is shown with it
\* burned in once, or not at all if there was none when its proxy was made, until it is
\* processed again after its original has been overwritten (photo_tasks.py:116).
THEOREM PhotosMarkedOnce == Spec => []MarkedOnce
<1>1. MarkInv => MarkedOnce
  BY DEF MarkInv, MarkedOnce, Shown
<1> QED
  BY <1>1, InitTyped, NextTyped, KeysInit, KeysKept, MarkInit, MarkKept, PTL DEF Spec

=============================================================================
