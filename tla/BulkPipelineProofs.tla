-------------------------- MODULE BulkPipelineProofs -------------------------
(***************************************************************************)
(* Theorems about BulkPipeline and PipelineProgress, for every number of   *)
(* photos and faces, every batch size and every number of crashes; and in  *)
(* the last two sections about the host the pipeline runs on, GpuHost,     *)
(* which has no variable in common with the two.                           *)
(***************************************************************************)
EXTENDS PipelineProgress, GpuHost, FiniteSetTheorems, TLAPS

USE BulkAssumption

\* What a photo that waits in the run has: it is still pending unless it was deleted,
\* and its crops are found, then buffered, then stored.
Waiting ==
    /\ \A p \in todo \cup awaiting : outcome[p] \in {"pending", "deleted"}
    /\ \A p \in todo : rows[p] = base[p] /\ passed[p] = 0
    /\ \A p \in Photo : buffer[p] > 0 => p \in awaiting
    /\ \A p \in finishing : buffer[p] = 0
    /\ \A p \in Photo : outcome[p] = "deleted" => rows[p] = base[p]

\* No photo is left to finish once the run has gone on to another step.
Phases == phase # "finishing" => finishing = {}

Inv == PhotosOK /\ RunOK /\ Waiting /\ Phases /\ CropsConserved /\ CountedExactly

-----------------------------------------------------------------------------

\* Every photo set is finite, so counting one gives a natural number.
LEMMA PhotosFinite ==
    \A S \in SUBSET Photo : IsFiniteSet(S) /\ Cardinality(S) \in Nat
PROOF
<1>1. IsFiniteSet(Photo)
  BY FS_Interval DEF Photo
<1> QED
  BY <1>1, FS_Subset, FS_CardinalityType

\* Before the first upload nothing is stored and no run exists.
LEMMA InitInv == Init => Inv
PROOF
  BY DEF Init, Inv, PhotosOK, RunOK, Waiting, Phases, CropsConserved, CountedExactly,
         Nothing, Counts, NotAsked, Exists, Photo

\* Photo ids are the domain of every per-photo function; a step changes those of the
\* photos it names.
LEMMA StepTypes ==
    ASSUME Inv, [Next]_vars PROVE PhotosOK' /\ RunOK'
PROOF
<1> USE DEF Inv, PhotosOK, RunOK, Counts, NotAsked, database, run, vars
<1>1. ASSUME NEW p \in Photo, Upload(p) PROVE PhotosOK' /\ RunOK'
  BY <1>1 DEF Upload
<1>2. ASSUME NEW p \in Photo, DeleteCounts(p) PROVE PhotosOK' /\ RunOK'
  BY <1>2 DEF DeleteCounts
<1>3. ASSUME NEW p \in Photo, DeletePhoto(p) PROVE PhotosOK' /\ RunOK'
  BY <1>3 DEF DeletePhoto
<1>4. ASSUME LoadPendingPhotos PROVE PhotosOK' /\ RunOK'
  BY <1>4 DEF LoadPendingPhotos, Pending, Nothing
<1>5. ASSUME NEW p \in Photo, PhotoFails(p) PROVE PhotosOK' /\ RunOK'
  BY <1>5 DEF PhotoFails, IsNext
<1>6. ASSUME NEW p \in Photo, PhotoWithoutCrops(p) PROVE PhotosOK' /\ RunOK'
  BY <1>6 DEF PhotoWithoutCrops, IsNext, Finish
<1>7. ASSUME NEW p \in Photo, PhotoBuffered(p) PROVE PhotosOK' /\ RunOK'
  BY <1>7 DEF PhotoBuffered, IsNext
<1>8. ASSUME FlushBatch PROVE PhotosOK' /\ RunOK'
  BY <1>8 DEF FlushBatch, IsBatch
<1>9. ASSUME NEW p \in Photo, FinishPhoto(p) PROVE PhotosOK' /\ RunOK'
  BY <1>9 DEF FinishPhoto, Finish
<1>10. ASSUME BatchFinished PROVE PhotosOK' /\ RunOK'
  BY <1>10 DEF BatchFinished
<1>11. ASSUME FailAwaiting PROVE PhotosOK' /\ RunOK'
  BY <1>11, PhotosFinite DEF FailAwaiting, FlushDue, Nothing, Phases
<1>12. ASSUME NextPhoto PROVE PhotosOK' /\ RunOK'
  BY <1>12 DEF NextPhoto
<1>13. ASSUME RunClustering PROVE PhotosOK' /\ RunOK'
  BY <1>13 DEF RunClustering
<1>14. ASSUME BreaksOnDeleted \/ Crashes PROVE PhotosOK' /\ RunOK'
  BY <1>14 DEF BreaksOnDeleted, Crashes, Ends, Nothing
<1>15. ASSUME UNCHANGED vars PROVE PhotosOK' /\ RunOK'
  BY <1>15
<1> QED
  BY <1>1, <1>2, <1>3, <1>4, <1>5, <1>6, <1>7, <1>8, <1>9, <1>10, <1>11, <1>12, <1>13,
     <1>14, <1>15 DEF Next, RunStep

\* Uploads and deletions do not disturb a run's bookkeeping.
LEMMA OutsideInv ==
    ASSUME Inv, NEW p \in Photo, Upload(p) \/ DeleteCounts(p) \/ DeletePhoto(p)
    PROVE  (Waiting /\ Phases /\ CropsConserved /\ CountedExactly)'
PROOF
<1> USE DEF Inv, PhotosOK, RunOK, Counts, NotAsked, database, run, vars,
            Waiting, Phases, CropsConserved, CountedExactly, Exists
<1>1. CASE Upload(p)
  BY <1>1 DEF Upload
<1>2. CASE DeleteCounts(p)
  BY <1>2 DEF DeleteCounts
<1>3. CASE DeletePhoto(p)
  <2>1. Waiting'
    BY <1>3 DEF DeletePhoto
  <2>2. Phases'
    BY <1>3 DEF DeletePhoto
  <2>3. CropsConserved' /\ CountedExactly'
    BY <1>3 DEF DeletePhoto
  <2> QED BY <2>1, <2>2, <2>3
<1> QED BY <1>1, <1>2, <1>3

\* Starting a run, looking at a photo, and ending a run.
LEMMA ScanInv ==
    ASSUME Inv, (PhotosOK /\ RunOK)',
           \/ LoadPendingPhotos \/ BreaksOnDeleted \/ Crashes
           \/ \E p \in Photo : PhotoFails(p) \/ PhotoWithoutCrops(p) \/ PhotoBuffered(p)
    PROVE  (Waiting /\ Phases /\ CropsConserved /\ CountedExactly)'
PROOF
<1> USE DEF Inv, PhotosOK, RunOK, Counts, NotAsked, database, run, vars,
            Waiting, Phases, CropsConserved, CountedExactly, Exists
<1>1. CASE LoadPendingPhotos
  BY <1>1 DEF LoadPendingPhotos, Pending, Nothing
<1>2. CASE BreaksOnDeleted \/ Crashes
  BY <1>2 DEF BreaksOnDeleted, Crashes, Ends, Nothing
<1>3. ASSUME NEW p \in Photo, PhotoFails(p)
      PROVE  (Waiting /\ Phases /\ CropsConserved /\ CountedExactly)'
  BY <1>3 DEF PhotoFails, IsNext
<1>4. ASSUME NEW p \in Photo, PhotoWithoutCrops(p)
      PROVE  (Waiting /\ Phases /\ CropsConserved /\ CountedExactly)'
  BY <1>4 DEF PhotoWithoutCrops, IsNext, Finish
<1>5. ASSUME NEW p \in Photo, PhotoBuffered(p)
      PROVE  (Waiting /\ Phases /\ CropsConserved /\ CountedExactly)'
  BY <1>5 DEF PhotoBuffered, IsNext
<1> QED BY <1>1, <1>2, <1>3, <1>4, <1>5

\* Embedding a batch, finishing its photos, or failing all that wait.
LEMMA FlushInv ==
    ASSUME Inv, (PhotosOK /\ RunOK)',
           \/ FlushBatch \/ BatchFinished \/ FailAwaiting \/ NextPhoto \/ RunClustering
           \/ \E p \in Photo : FinishPhoto(p)
    PROVE  (Waiting /\ Phases /\ CropsConserved /\ CountedExactly)'
PROOF
<1> USE DEF Inv, PhotosOK, RunOK, Counts, NotAsked, database, run, vars,
            Waiting, Phases, CropsConserved, CountedExactly, Exists
<1>1. CASE FlushBatch
  <2>1. PICK batch \in Counts :
           /\ IsBatch(batch)
           /\ \A p \in Photo : batch[p] > 0 => Exists(p)
           /\ rows' = [p \in Photo |-> rows[p] + batch[p]]
           /\ buffer' = [p \in Photo |-> buffer[p] - batch[p]]
           /\ finishing' = {p \in awaiting : batch[p] > 0 /\ batch[p] = buffer[p]}
    BY <1>1 DEF FlushBatch
  <2>2. \A p \in Photo : batch[p] \in Nat /\ batch[p] <= buffer[p]
    BY <2>1 DEF IsBatch
  <2>3. \A p \in Photo : p \notin awaiting => batch[p] = 0
    BY <2>2
  <2>4. \A p \in Photo : outcome[p] = "deleted" => batch[p] = 0
    BY <2>1, <2>2
  <2>5. Waiting'
    BY <1>1, <2>1, <2>2, <2>3, <2>4 DEF FlushBatch
  <2>6. Phases'
    BY <1>1 DEF FlushBatch, FlushDue
  <2>7. CropsConserved'
    BY <1>1, <2>1, <2>2 DEF FlushBatch
  <2>8. CountedExactly'
    <3>1. \A p \in Photo : outcome[p] = "counted" => batch[p] = 0
      BY <2>3
    <3> QED BY <1>1, <2>1, <3>1 DEF FlushBatch
  <2> QED BY <2>5, <2>6, <2>7, <2>8
<1>2. CASE BatchFinished \/ NextPhoto \/ RunClustering
  BY <1>2 DEF BatchFinished, NextPhoto, RunClustering
<1>3. CASE FailAwaiting
  BY <1>3 DEF FailAwaiting, FlushDue, Nothing
<1>4. ASSUME NEW p \in Photo, FinishPhoto(p)
      PROVE  (Waiting /\ Phases /\ CropsConserved /\ CountedExactly)'
  <2>1. p \in awaiting /\ buffer[p] = 0 /\ outcome[p] = "pending"
    BY <1>4 DEF FinishPhoto, Finish
  <2>2. rows[p] = base[p] + passed[p]
    BY <2>1
  <2>3. Waiting' /\ Phases'
    BY <1>4, <2>1 DEF FinishPhoto, Finish
  <2>4. CropsConserved'
    BY <1>4, <2>1 DEF FinishPhoto, Finish
  <2>5. CountedExactly'
    BY <1>4, <2>1, <2>2 DEF FinishPhoto, Finish
  <2> QED BY <2>3, <2>4, <2>5
<1> QED BY <1>1, <1>2, <1>3, <1>4

LEMMA NextInv == Inv /\ [Next]_vars => Inv'
PROOF
<1> SUFFICES ASSUME Inv, [Next]_vars PROVE Inv'
  OBVIOUS
<1>1. PhotosOK' /\ RunOK'
  BY StepTypes
<1>2. CASE UNCHANGED vars
  BY <1>2 DEF Inv, PhotosOK, RunOK, database, run, vars, Waiting, Phases, CropsConserved,
              CountedExactly, Exists
<1>3. CASE Next
  BY <1>1, <1>3, OutsideInv, ScanInv, FlushInv DEF Next, RunStep, Inv
<1> QED BY <1>2, <1>3

THEOREM InvHolds == Spec => []Inv
PROOF
<1>1. Init => Inv
  BY InitInv
<1>2. Inv /\ [Next]_vars => Inv'
  BY NextInv
<1> QED BY <1>1, <1>2, PTL DEF Spec

\* No crop is lost between the buffer and the table and none is stored twice, for any
\* batch size and any way the photos' crops fall into batches.
THEOREM CropsAreConserved == Spec => []CropsConserved
PROOF
<1>1. Inv => CropsConserved
  BY DEF Inv
<1> QED BY <1>1, InvHolds, PTL

\* A photo counted as processed has each crop of its deciding run stored exactly once.
THEOREM CountedIsExact == Spec => []CountedExactly
PROOF
<1>1. Inv => CountedExactly
  BY DEF Inv
<1> QED BY <1>1, InvHolds, PTL

-----------------------------------------------------------------------------

\* What a step may do to a photo whose outcome is known: only a deletion changes it.
LEMMA StepFreezes ==
    ASSUME Inv, [Next]_vars, NEW p \in Photo,
           outcome[p] \in {"counted", "failed"}, outcome'[p] # "deleted"
    PROVE  outcome'[p] = outcome[p] /\ rows'[p] = rows[p] /\ faceCount'[p] = faceCount[p]
PROOF
<1> DEFINE Frozen == /\ outcome'[p] = outcome[p]
                     /\ rows'[p] = rows[p] /\ faceCount'[p] = faceCount[p]
<1> USE DEF Inv, PhotosOK, RunOK, Counts, database, run, vars, Waiting, Exists
<1>1. p \notin todo \cup awaiting /\ buffer[p] = 0
  OBVIOUS
<1>2. ASSUME NEW q \in Photo, Upload(q) \/ DeleteCounts(q) \/ DeletePhoto(q) PROVE Frozen
  BY <1>2 DEF Upload, DeleteCounts, DeletePhoto
<1>3. ASSUME NEW q \in Photo, PhotoFails(q) \/ PhotoWithoutCrops(q) \/ PhotoBuffered(q)
      PROVE  Frozen
  BY <1>1, <1>3 DEF PhotoFails, PhotoWithoutCrops, PhotoBuffered, IsNext, Finish
<1>4. ASSUME NEW q \in Photo, FinishPhoto(q) PROVE Frozen
  BY <1>1, <1>4 DEF FinishPhoto, Finish
<1>5. CASE FlushBatch
  <2>1. PICK batch \in Counts : IsBatch(batch) /\ rows' = [q \in Photo |-> rows[q] + batch[q]]
    BY <1>5 DEF FlushBatch
  <2>2. batch[p] = 0
    BY <1>1, <2>1 DEF IsBatch
  <2> QED BY <1>5, <2>1, <2>2 DEF FlushBatch
<1>6. CASE FailAwaiting
  BY <1>1, <1>6 DEF FailAwaiting
<1>7. CASE LoadPendingPhotos \/ BatchFinished \/ NextPhoto \/ RunClustering
  BY <1>7 DEF LoadPendingPhotos, BatchFinished, NextPhoto, RunClustering
<1>8. CASE BreaksOnDeleted \/ Crashes
  BY <1>8 DEF BreaksOnDeleted, Crashes, Ends
<1>9. CASE UNCHANGED vars
  BY <1>9
<1> QED
  BY <1>2, <1>3, <1>4, <1>5, <1>6, <1>7, <1>8, <1>9 DEF Next, RunStep

\* A decided photo is frozen: no later batch, failure or run writes to it.
THEOREM DecidedStaysFrozen == Spec => DecidedFrozen
PROOF
<1>1. Inv /\ [Next]_vars =>
        [\A p \in Photo : outcome[p] \in {"counted", "failed"} /\ outcome'[p] # "deleted" =>
            /\ outcome'[p] = outcome[p]
            /\ rows'[p] = rows[p] /\ faceCount'[p] = faceCount[p]]_vars
  BY StepFreezes
<1> QED BY <1>1, InvHolds, PTL DEF Spec, DecidedFrozen

-----------------------------------------------------------------------------

\* Moving one photo out of a set, or into it, changes the count by one.
LEMMA CountByOne ==
    ASSUME NEW S \in SUBSET Photo, NEW p \in Photo
    PROVE  /\ p \in S => Cardinality(S \ {p}) = Cardinality(S) - 1
           /\ p \notin S => Cardinality(S \cup {p}) = Cardinality(S) + 1
PROOF
  BY PhotosFinite, FS_RemoveElement, FS_AddElement

LEMMA ProgressStep ==
    ASSUME Inv, ProgressAddsUp, [Next]_vars PROVE ProgressAddsUp'
PROOF
<1> USE DEF Inv, RunOK, database, run, vars, ProgressAddsUp
<1>1. /\ Cardinality(todo) \in Nat /\ Cardinality(awaiting) \in Nat
      /\ Cardinality(loaded) \in Nat /\ Cardinality({}) = 0
  BY PhotosFinite, FS_EmptySet
<1>2. ASSUME NEW p \in Photo, Upload(p) \/ DeleteCounts(p) \/ DeletePhoto(p)
      PROVE  ProgressAddsUp'
  BY <1>2 DEF Upload, DeleteCounts, DeletePhoto
<1>3. CASE LoadPendingPhotos
  <2>1. Cardinality(Pending) \in Nat
    BY PhotosFinite DEF Pending
  <2> QED BY <1>1, <1>3, <2>1 DEF LoadPendingPhotos
<1>4. ASSUME NEW p \in Photo, PhotoFails(p) \/ PhotoWithoutCrops(p) PROVE ProgressAddsUp'
  <2>1. Cardinality(todo') = Cardinality(todo) - 1
    BY <1>4, CountByOne DEF PhotoFails, PhotoWithoutCrops, IsNext
  <2>2. CASE PhotoFails(p)
    BY <1>1, <2>1, <2>2 DEF PhotoFails, IsNext
  <2>3. CASE PhotoWithoutCrops(p)
    BY <1>1, <2>1, <2>3 DEF PhotoWithoutCrops, IsNext, Finish
  <2> QED BY <1>4, <2>2, <2>3
<1>5. ASSUME NEW p \in Photo, PhotoBuffered(p) PROVE ProgressAddsUp'
  <2>1. Cardinality(todo') = Cardinality(todo) - 1
    BY <1>5, CountByOne DEF PhotoBuffered, IsNext
  <2>2. Cardinality(awaiting') = Cardinality(awaiting) + 1
    BY <1>5, CountByOne DEF PhotoBuffered, IsNext
  <2> QED BY <1>1, <1>5, <2>1, <2>2 DEF PhotoBuffered, IsNext
<1>6. ASSUME NEW p \in Photo, FinishPhoto(p) PROVE ProgressAddsUp'
  <2>1. Cardinality(awaiting') = Cardinality(awaiting) - 1
    BY <1>6, CountByOne DEF FinishPhoto
  <2> QED BY <1>1, <1>6, <2>1 DEF FinishPhoto, Finish
<1>7. CASE FailAwaiting
  BY <1>1, <1>7 DEF FailAwaiting, FlushDue
<1>8. CASE FlushBatch \/ BatchFinished \/ NextPhoto
  BY <1>8 DEF FlushBatch, FlushDue, BatchFinished, NextPhoto
<1>9. CASE RunClustering \/ BreaksOnDeleted \/ Crashes
  BY <1>9 DEF RunClustering, BreaksOnDeleted, Crashes, Ends
<1>10. CASE UNCHANGED vars
  BY <1>10
<1> QED
  BY <1>2, <1>3, <1>4, <1>5, <1>6, <1>7, <1>8, <1>9, <1>10 DEF Next, RunStep

\* The progress counters of a run account for each loaded photo exactly once, so progress
\* reaches the total exactly when no photo is left.
THEOREM ProgressIsExact == Spec => []ProgressAddsUp
PROOF
<1>1. Init => ProgressAddsUp
  BY DEF Init, ProgressAddsUp
<1>2. Inv /\ ProgressAddsUp /\ [Next]_vars => ProgressAddsUp'
  BY ProgressStep
<1> QED BY <1>1, <1>2, InvHolds, PTL DEF Spec

-----------------------------------------------------------------------------

\* Each step of the run, upload or deletion is a step of the ledger, or changes nothing
\* that the ledger shows.
LEMMA StepKeepsLedger ==
    ASSUME Inv, Inv', [Next]_vars PROVE [Ledger!Next]_(Ledger!ledger)
PROOF
<1> USE DEF Inv, PhotosOK, RunOK, Counts, database, run, vars, Waiting, Exists,
            Ledger!Next, Ledger!ledger
<1>1. ASSUME NEW p \in Photo, Upload(p) PROVE Ledger!Arrive(p)
  BY <1>1 DEF Upload, Ledger!Arrive
<1>2. ASSUME NEW p \in Photo, DeleteCounts(p) PROVE UNCHANGED Ledger!ledger
  BY <1>2 DEF DeleteCounts
<1>3. ASSUME NEW p \in Photo, DeletePhoto(p) PROVE Ledger!Delete(p)
  BY <1>3 DEF DeletePhoto, Ledger!Delete
<1>4. ASSUME LoadPendingPhotos PROVE Ledger!Restart
  BY <1>4 DEF LoadPendingPhotos, Pending, Ledger!Restart
<1>5. ASSUME NEW p \in Photo, PhotoFails(p) PROVE Ledger!Fail({p})
  <2>1. outcome[p] = "pending"
    BY <1>5 DEF PhotoFails, IsNext
  <2>2. outcome' = [q \in Photo |-> IF q \in {p} THEN "failed" ELSE outcome[q]]
    BY <1>5 DEF PhotoFails
  <2>3. UNCHANGED <<passed, rows, base>>
    BY <1>5 DEF PhotoFails
  <2> QED BY <2>1, <2>2, <2>3 DEF Ledger!Fail
<1>6. ASSUME NEW p \in Photo, PhotoWithoutCrops(p) PROVE Ledger!Count(p)
  <2>1. passed[p] = 0 /\ rows[p] = base[p] /\ outcome[p] = "pending"
    BY <1>6 DEF PhotoWithoutCrops, IsNext, Finish
  <2>2. passed' = passed
    BY <1>6, <2>1 DEF PhotoWithoutCrops
  <2> QED BY <1>6, <2>1, <2>2 DEF PhotoWithoutCrops, Finish, Ledger!Count
<1>7. ASSUME NEW p \in Photo, PhotoBuffered(p) PROVE Ledger!Detect(p)
  <2>1. outcome[p] \in {"pending", "deleted"} /\ rows[p] = base[p]
    BY <1>7 DEF PhotoBuffered, IsNext
  <2>2. passed' \in [Photo -> Nat] /\ \A q \in Photo \ {p} : passed'[q] = passed[q]
    BY <1>7 DEF PhotoBuffered
  <2> QED BY <1>7, <2>1, <2>2 DEF PhotoBuffered, Ledger!Detect
<1>8. ASSUME FlushBatch PROVE Ledger!Store
  <2>1. PICK batch \in Counts :
           /\ IsBatch(batch)
           /\ \A p \in Photo : batch[p] > 0 => Exists(p)
           /\ rows' = [p \in Photo |-> rows[p] + batch[p]]
    BY <1>8 DEF FlushBatch
  <2>2. \A p \in Photo : batch[p] \in Nat /\ batch[p] <= buffer[p]
    BY <2>1 DEF IsBatch
  <2>3. \A p \in Photo : rows'[p] # rows[p] => outcome[p] = "pending"
    BY <2>1, <2>2
  <2>4. rows' \in [Photo -> Nat] /\ \A p \in Photo : rows'[p] >= rows[p]
    BY <2>1, <2>2
  <2> QED BY <1>8, <2>3, <2>4 DEF FlushBatch, Ledger!Store
<1>9. ASSUME NEW p \in Photo, FinishPhoto(p) PROVE Ledger!Count(p)
  <2>1. outcome[p] = "pending" /\ buffer[p] = 0 /\ p \in awaiting
    BY <1>9 DEF FinishPhoto, Finish
  <2>2. rows[p] = base[p] + passed[p]
    BY <2>1 DEF CropsConserved
  <2> QED BY <1>9, <2>1, <2>2 DEF FinishPhoto, Finish, Ledger!Count
<1>10. ASSUME FailAwaiting PROVE Ledger!Fail(awaiting)
  BY <1>10 DEF FailAwaiting, Ledger!Fail
<1>11. ASSUME BatchFinished \/ NextPhoto \/ RunClustering \/ BreaksOnDeleted \/ Crashes
       PROVE  UNCHANGED Ledger!ledger
  BY <1>11 DEF BatchFinished, NextPhoto, RunClustering, BreaksOnDeleted, Crashes, Ends
<1>12. CASE UNCHANGED vars
  BY <1>12
<1>13. awaiting \in SUBSET Photo /\ \A p \in Photo : {p} \in SUBSET Photo
  OBVIOUS
<1> HIDE DEF Inv, PhotosOK, RunOK, Counts, database, run, vars, Waiting, Exists
<1> QED
  BY <1>1, <1>2, <1>3, <1>4, <1>5, <1>6, <1>7, <1>8, <1>9, <1>10, <1>11, <1>12, <1>13
     DEF Next, RunStep

\* Bulk processing implements the ledger: a photo is decided once, from exactly the crops
\* that were stored for it.
THEOREM BulkImplementsLedger == Spec => KeepsLedger
PROOF
<1>1. Init => Ledger!Init
  BY DEF Init, Ledger!Init, Nothing
<1>2. Inv /\ Inv' /\ [Next]_vars => [Ledger!Next]_(Ledger!ledger)
  BY StepKeepsLedger
<1> QED BY <1>1, <1>2, InvHolds, PTL DEF Spec, KeepsLedger, Ledger!Spec

-----------------------------------------------------------------------------
(* Sums over the photos.  Total is the library's fold: a recursive function   *)
(* over the subsets of the photos.  That it exists and what it bounds follows *)
(* by taking a smallest set of photos of which it did not hold.               *)

\* Sets of photos are well founded: of those in a non-empty collection, one is smallest.
LEMMA SmallestSet ==
    ASSUME NEW bad \in SUBSET (SUBSET Photo), bad # {}
    PROVE  \E s \in bad : \A t \in SUBSET s : t # s => t \notin bad
PROOF
<1>1. IsFiniteSet(Photo)
  BY PhotosFinite
<1>2. SUBSET Photo = FiniteSubsetsOf(Photo)
  BY <1>1, FS_FiniteSubsetsOfFinite
<1>3. IsWellFoundedOn(StrictSubsetOrdering(Photo), SUBSET Photo)
  BY <1>2, FS_StrictSubsetOrderingWellFounded
<1>4. PICK s \in bad : \A t \in bad : <<t, s>> \notin StrictSubsetOrdering(Photo)
  BY <1>3, WFMin
<1>5. ASSUME NEW t \in SUBSET s, t # s, t \in bad PROVE FALSE
  <2>1. <<t, s>> \in StrictSubsetOrdering(Photo)
    BY <1>5 DEF StrictSubsetOrdering
  <2> QED
    BY <1>4, <1>5, <2>1
<1> QED
  BY <1>4, <1>5

Pick(s) == CHOOSE p \in s : TRUE
Rest(s) == s \ {Pick(s)}

\* The sums of f over the subsets of T, and those that the fold computes.
SumsOf(f, g, T) ==
    /\ g = [s \in SUBSET T |-> g[s]]
    /\ \A s \in SUBSET T : g[s] = IF s = {} THEN 0 ELSE f[Pick(s)] + g[Rest(s)]

Sums(f) == CHOOSE g : g = [s \in SUBSET DOMAIN f |-> IF s = {} THEN 0 ELSE f[Pick(s)] + g[Rest(s)]]

LEMMA TotalIsTheSum == ASSUME NEW f PROVE Total(f) = Sums(f)[DOMAIN f]
  BY DEF Total, SumFunction, SumFunctionOnSet, FoldFunctionOnSet, MapThenFoldSet, Sums, Pick, Rest

LEMMA RestIsLess ==
    ASSUME NEW s, s # {}
    PROVE  Pick(s) \in s /\ Rest(s) \in SUBSET s /\ Rest(s) # s
  BY DEF Pick, Rest

LEMMA SumsAgree ==
    ASSUME NEW f, NEW T, NEW U, NEW g, NEW h, SumsOf(f, g, T), SumsOf(f, h, U),
           T \subseteq Photo, U \subseteq T
    PROVE  \A s \in SUBSET U : g[s] = h[s]
PROOF
<1> DEFINE bad == {s \in SUBSET U : g[s] # h[s]}
<1>1. ASSUME bad # {} PROVE FALSE
  <2>1. bad \in SUBSET (SUBSET Photo)
    OBVIOUS
  <2>2. PICK s \in bad : \A t \in SUBSET s : t # s => t \notin bad
    <3> HIDE DEF bad
    <3> QED
      BY <1>1, <2>1, SmallestSet
  <2>3. s \in SUBSET U /\ s \in SUBSET T /\ g[s] # h[s]
    OBVIOUS
  <2>4. s # {}
    BY <2>3 DEF SumsOf
  <2>5. Rest(s) \in SUBSET U /\ g[Rest(s)] = h[Rest(s)]
    BY <2>2, <2>3, <2>4, RestIsLess
  <2>6. g[s] = f[Pick(s)] + g[Rest(s)] /\ h[s] = f[Pick(s)] + h[Rest(s)]
    BY <2>3, <2>4 DEF SumsOf
  <2> QED
    BY <2>3, <2>5, <2>6
<1> QED
  BY <1>1

LEMMA SumsExist ==
    ASSUME NEW f, NEW T \in SUBSET Photo PROVE \E g : SumsOf(f, g, T)
PROOF
<1> DEFINE bad == {U \in SUBSET Photo : ~\E g : SumsOf(f, g, U)}
<1>1. ASSUME bad # {} PROVE FALSE
  <2>1. PICK U \in bad : \A V \in SUBSET U : V # U => V \notin bad
    <3>1. bad \in SUBSET (SUBSET Photo)
      OBVIOUS
    <3> HIDE DEF bad
    <3> QED
      BY <1>1, <3>1, SmallestSet
  <2> DEFINE sol(V) == CHOOSE g : SumsOf(f, g, V)
             h == [s \in SUBSET U |-> IF s = {} THEN 0 ELSE f[Pick(s)] + sol(Rest(s))[Rest(s)]]
  <2>2. U \in SUBSET Photo /\ ~\E g : SumsOf(f, g, U)
    OBVIOUS
  <2>3. \A V \in SUBSET U : V # U => SumsOf(f, sol(V), V)
    BY <2>1, <2>2
  <2> HIDE DEF bad, sol
  <2>4. ASSUME NEW s \in SUBSET U, s # {} PROVE h[Rest(s)] = sol(Rest(s))[Rest(s)]
    <3> DEFINE u == Rest(s)
    <3>1. u \in SUBSET U /\ u # U
      BY <2>4, RestIsLess
    <3>2. SumsOf(f, sol(u), u)
      BY <2>3, <3>1
    <3> HIDE DEF u
    <3>3. CASE u = {}
      <4>1. h[u] = 0
        BY <3>1, <3>3
      <4>2. u \in SUBSET u
        OBVIOUS
      <4>3. sol(u)[u] = 0
        BY <3>2, <3>3, <4>2 DEF SumsOf
      <4> QED
        BY <4>1, <4>3 DEF u
    <3>4. CASE u # {}
      <4>1. Rest(u) \in SUBSET u /\ Rest(u) \in SUBSET U /\ Rest(u) # U
        BY <3>1, <3>4, RestIsLess
      <4>2. SumsOf(f, sol(Rest(u)), Rest(u))
        BY <2>3, <4>1
      <4>3. u \in SUBSET Photo /\ Rest(u) \in SUBSET Rest(u)
        BY <2>2, <3>1
      <4> DEFINE g1 == sol(u)
                 g2 == sol(Rest(u))
                 w == Rest(u)
      <4>4. SumsOf(f, g1, u) /\ SumsOf(f, g2, w) /\ w \in SUBSET u /\ w \in SUBSET w
        BY <3>2, <4>1, <4>2
      <4>5. g1[w] = g2[w]
        <5>0. w \subseteq u /\ u \subseteq Photo
          BY <4>3, <4>4
        <5> HIDE DEF g1, g2, w
        <5>2. \A s1 \in SUBSET w : g1[s1] = g2[s1]
          BY <4>4, <5>0, SumsAgree
        <5> QED
          BY <4>4, <5>2
      <4>6. sol(u)[u] = f[Pick(u)] + sol(u)[Rest(u)]
        BY <3>2, <3>4 DEF SumsOf
      <4>7. h[u] = f[Pick(u)] + sol(Rest(u))[Rest(u)]
        BY <3>1, <3>4
      <4> QED
        BY <4>5, <4>6, <4>7 DEF u
    <3> QED
      BY <3>3, <3>4 DEF u
  <2>5. SumsOf(f, h, U)
    <3>1. h = [s \in SUBSET U |-> h[s]]
      OBVIOUS
    <3>2. \A s \in SUBSET U : h[s] = IF s = {} THEN 0 ELSE f[Pick(s)] + sol(Rest(s))[Rest(s)]
      OBVIOUS
    <3> HIDE DEF h
    <3> QED
      BY <2>4, <3>1, <3>2 DEF SumsOf
  <2> QED
    BY <2>2, <2>5
<1> QED
  BY <1>1

LEMMA SumsRecur ==
    ASSUME NEW f, DOMAIN f = Photo PROVE SumsOf(f, Sums(f), Photo)
PROOF
<1> DEFINE step(g) == [s \in SUBSET Photo |-> IF s = {} THEN 0 ELSE f[Pick(s)] + g[Rest(s)]]
<1>1. PICK g : SumsOf(f, g, Photo)
  BY SumsExist
<1>2. g = step(g)
  BY <1>1 DEF SumsOf
<1>3. Sums(f) = step(Sums(f))
  BY <1>2 DEF Sums
<1> QED
  BY <1>3 DEF SumsOf

\* A sum of naturals is a natural, no less than any of them; over zeros it is zero.
LEMMA TotalBounds ==
    ASSUME NEW f \in [Photo -> Nat]
    PROVE  /\ Total(f) \in Nat /\ \A p \in Photo : f[p] <= Total(f)
           /\ (\A p \in Photo : f[p] = 0) => Total(f) = 0
PROOF
<1> DEFINE g == Sums(f)
           Good(s) == /\ g[s] \in Nat /\ \A p \in s : f[p] <= g[s]
                      /\ (\A p \in s : f[p] = 0) => g[s] = 0
           bad == {s \in SUBSET Photo : ~Good(s)}
<1>1. SumsOf(f, g, Photo)
  BY SumsRecur
<1> HIDE DEF g
<1>2. ASSUME bad # {} PROVE FALSE
  <2>1. PICK s \in bad : \A t \in SUBSET s : t # s => t \notin bad
    <3>1. bad \in SUBSET (SUBSET Photo)
      OBVIOUS
    <3> HIDE DEF bad
    <3> QED
      BY <1>2, <3>1, SmallestSet
  <2>2. s \in SUBSET Photo /\ ~Good(s)
    OBVIOUS
  <2>3. s # {}
    <3>1. s = {} => g[s] = 0
      BY <1>1, <2>2 DEF SumsOf
    <3> QED
      BY <2>2, <3>1
  <2>4. Pick(s) \in s /\ Rest(s) \in SUBSET s /\ Rest(s) # s /\ Rest(s) \in SUBSET Photo
    BY <2>2, <2>3, RestIsLess
  <2>5. Good(Rest(s))
    BY <2>1, <2>4
  <2>6. g[s] = f[Pick(s)] + g[Rest(s)] /\ f[Pick(s)] \in Nat
    BY <1>1, <2>2, <2>3, <2>4 DEF SumsOf
  <2>7. \A p \in s : p = Pick(s) \/ p \in Rest(s)
    BY DEF Rest
  <2>8. g[Rest(s)] \in Nat /\ \A p \in Rest(s) : f[p] \in Nat /\ f[p] <= g[Rest(s)]
    BY <2>4, <2>5
  <2>9. g[s] \in Nat /\ \A p \in s : f[p] <= g[s]
    BY <2>6, <2>7, <2>8
  <2>10. (\A p \in s : f[p] = 0) => g[s] = 0
    BY <2>4, <2>5, <2>6
  <2> QED
    BY <2>2, <2>9, <2>10
<1>3. Good(Photo)
  BY <1>2
<1>4. Total(f) = g[Photo]
  BY TotalIsTheSum DEF g
<1> QED
  BY <1>3, <1>4

-----------------------------------------------------------------------------
(* The event's total *)

Undeleted == \A p \in Photo : deleting[p] = NotAsked

\* Until a deletion is asked for, the event's total is the sum, and the copy that a run's
\* session holds is current, so that the comparison with it decides rightly.
TotalsInv ==
    /\ TotalsOK
    /\ Undeleted => /\ totalFaces = Total(faceCount)
                    /\ phase # "idle" => sessionTotal = totalFaces

LEMMA FinishTotals ==
    ASSUME Inv, TotalsInv, PhotosOK', NEW p \in Photo, NEW n, Finish(p, n),
           UNCHANGED deleting, phase # "idle"
    PROVE  TotalsInv'
PROOF
<1>1. faceCount' \in [Photo -> Nat]
  BY DEF PhotosOK, Counts
<1>2. Total(faceCount') \in Nat
  BY <1>1, TotalBounds
<1>3. sessionTotal' = Total(faceCount') /\ totalFaces' \in {totalFaces, Total(faceCount')}
  BY DEF Finish, RefreshTotal
<1>4. Undeleted' => totalFaces' = Total(faceCount')
  <2>1. Undeleted => sessionTotal = totalFaces
    BY DEF TotalsInv
  <2>2. Undeleted' => Undeleted
    BY DEF Undeleted
  <2>3. totalFaces' = IF Total(faceCount') # sessionTotal THEN Total(faceCount') ELSE totalFaces
    BY DEF Finish, RefreshTotal
  <2> QED
    BY <2>1, <2>2, <2>3
<1>5. Total(faceCount)' = Total(faceCount')
  OBVIOUS
<1>6. TotalsOK'
  BY <1>2, <1>3 DEF TotalsInv, TotalsOK
<1> QED
  BY <1>3, <1>4, <1>5, <1>6 DEF TotalsInv

LEMMA TotalsStep ==
    ASSUME Inv, TotalsInv, [Next]_vars PROVE TotalsInv'
PROOF
<1>1. PhotosOK' /\ RunOK'
  BY StepTypes
<1>2. ASSUME NEW p \in Photo, PhotoWithoutCrops(p) \/ FinishPhoto(p) PROVE TotalsInv'
  <2>1. PICK n : Finish(p, n)
    BY <1>2 DEF PhotoWithoutCrops, FinishPhoto
  <2>2. UNCHANGED deleting /\ phase # "idle"
    BY <1>2 DEF PhotoWithoutCrops, FinishPhoto, IsNext
  <2> QED
    BY <1>1, <2>1, <2>2, FinishTotals
<1>3. CASE /\ UNCHANGED <<faceCount, totalFaces, sessionTotal, deleting>>
           /\ phase = "idle" => phase' = "idle"
  BY <1>3 DEF TotalsInv, TotalsOK, Undeleted
<1>4. CASE LoadPendingPhotos
  <2>1. UNCHANGED <<faceCount, totalFaces, deleting>> /\ sessionTotal' = totalFaces
    BY <1>4 DEF LoadPendingPhotos
  <2> QED
    BY <2>1 DEF TotalsInv, TotalsOK, Undeleted
<1>5. ASSUME NEW p \in Photo, DeleteCounts(p) \/ DeletePhoto(p) PROVE TotalsInv'
  <2>1. faceCount[p] \in Nat /\ deleting[p] \in Int /\ NotAsked = -1 /\ deleting \in [Photo -> Int]
    BY DEF Inv, PhotosOK, Counts, NotAsked
  <2>2. deleting'[p] # NotAsked
    BY <1>5, <2>1 DEF DeleteCounts, DeletePhoto
  <2>3. TotalsOK'
    BY <1>5, <2>1 DEF DeleteCounts, DeletePhoto, TotalsInv, TotalsOK, database, run
  <2> QED
    BY <2>2, <2>3 DEF TotalsInv, Undeleted
<1>6. ASSUME NEW p \in Photo, Upload(p) \/ PhotoFails(p) \/ PhotoBuffered(p)
      PROVE  /\ UNCHANGED <<faceCount, totalFaces, sessionTotal, deleting>>
             /\ phase = "idle" => phase' = "idle"
  BY <1>6 DEF Upload, PhotoFails, PhotoBuffered, IsNext, database, run
<1>7. ASSUME FlushBatch \/ BatchFinished \/ FailAwaiting \/ NextPhoto \/ RunClustering
             \/ BreaksOnDeleted \/ Crashes
      PROVE  /\ UNCHANGED <<faceCount, totalFaces, sessionTotal, deleting>>
             /\ phase = "idle" => phase' = "idle"
  BY <1>7 DEF FlushBatch, FlushDue, BatchFinished, FailAwaiting, NextPhoto, RunClustering,
               BreaksOnDeleted, Crashes,
     Ends, database
<1>8. CASE UNCHANGED vars
  BY <1>3, <1>8 DEF vars, database, run
<1> QED
  BY <1>2, <1>3, <1>4, <1>5, <1>6, <1>7, <1>8 DEF Next, RunStep

LEMMA TotalsInit == Init => TotalsInv
PROOF
<1> SUFFICES ASSUME Init PROVE TotalsInv
  OBVIOUS
<1>1. faceCount \in [Photo -> Nat] /\ \A p \in Photo : faceCount[p] = 0
  BY DEF Init, Nothing
<1>2. Total(faceCount) = 0
  BY <1>1, TotalBounds
<1>3. totalFaces = 0 /\ sessionTotal = 0
  BY DEF Init
<1> QED
  BY <1>2, <1>3 DEF TotalsInv, TotalsOK

\* Every state component keeps its type, the totals included.
THEOREM BulkTypeCorrect == Spec => []TypeOK
PROOF
<1>1. Inv /\ TotalsInv => TypeOK
  BY DEF Inv, TotalsInv, TypeOK
<1> QED BY <1>1, TotalsInit, TotalsStep, InvHolds, PTL DEF Spec

\* As long as no deletion has been asked for, the event's total of faces is the sum of the face
\* counts of its photos, although it is only written when it differs from the session's copy
\* (pipeline.py:615).
THEOREM TotalsAreSums == Spec => []TotalIsSum
PROOF
<1>1. TotalsInv => TotalIsSum
  BY DEF TotalsInv, Undeleted, TotalIsSum
<1> QED BY <1>1, TotalsInit, TotalsStep, InvHolds, PTL DEF Spec

-----------------------------------------------------------------------------
(* What the dashboard shows *)

\* A photo waits for crops that are still in the buffer, or was in the last batch; when the run
\* clusters, nothing waits any more.
Settling ==
    /\ \A p \in awaiting : buffer[p] > 0 \/ p \in finishing
    /\ phase = "clustering" => todo = {} /\ awaiting = {}

LEMMA SettlingStep ==
    ASSUME Inv, Settling, [Next]_vars PROVE Settling'
PROOF
<1> USE DEF Settling, database, run, vars
<1>0. /\ buffer \in [Photo -> Nat] /\ awaiting \subseteq Photo /\ todo \subseteq Photo
      /\ (phase # "finishing" => finishing = {})
  BY DEF Inv, RunOK, Counts, Phases
<1>1. ASSUME NEW p \in Photo, Upload(p) \/ DeleteCounts(p) \/ DeletePhoto(p) PROVE Settling'
  BY <1>1 DEF Upload, DeleteCounts, DeletePhoto
<1>2. CASE LoadPendingPhotos \/ BreaksOnDeleted \/ Crashes
  BY <1>2 DEF LoadPendingPhotos, BreaksOnDeleted, Crashes, Ends
<1>3. ASSUME NEW p \in Photo, PhotoFails(p) \/ PhotoWithoutCrops(p) PROVE Settling'
  BY <1>3 DEF PhotoFails, PhotoWithoutCrops, IsNext, Finish
<1>4. ASSUME NEW p \in Photo, PhotoBuffered(p) PROVE Settling'
  BY <1>0, <1>4 DEF PhotoBuffered, IsNext
<1>5. CASE FlushBatch
  <2>1. PICK batch \in Counts :
           /\ IsBatch(batch)
           /\ buffer' = [p \in Photo |-> buffer[p] - batch[p]]
           /\ finishing' = {p \in awaiting : batch[p] > 0 /\ batch[p] = buffer[p]}
    BY <1>5 DEF FlushBatch
  <2>2. \A p \in Photo : batch[p] \in Nat /\ batch[p] <= buffer[p]
    BY <2>1 DEF IsBatch, Counts
  <2>3. phase = "flushing" /\ phase' = "finishing" /\ awaiting' = awaiting
    BY <1>5 DEF FlushBatch, FlushDue
  <2> QED BY <1>0, <2>1, <2>2, <2>3
<1>6. ASSUME NEW p \in Photo, FinishPhoto(p) PROVE Settling'
  BY <1>6 DEF FinishPhoto, Finish
<1>7. CASE BatchFinished
  BY <1>7 DEF BatchFinished
<1>8. CASE FailAwaiting
  BY <1>8 DEF FailAwaiting, FlushDue
<1>9. CASE RunClustering
  BY <1>9 DEF RunClustering
<1>10. CASE NextPhoto
  <2>1. UNCHANGED <<todo, awaiting, buffer, finishing>> /\ phase = "flushing" /\ finishing = {}
    BY <1>0, <1>10 DEF NextPhoto
  <2>2. CASE todo = {}
    <3>1. ~(Total(buffer) > 0)
      BY <1>10, <2>1, <2>2 DEF NextPhoto, FlushDue
    <3>2. Total(buffer) \in Nat /\ \A p \in Photo : buffer[p] <= Total(buffer)
      BY <1>0, TotalBounds
    <3>3. \A p \in Photo : ~(buffer[p] > 0)
      BY <1>0, <3>1, <3>2
    <3>4. awaiting = {}
      BY <1>0, <2>1, <3>3
    <3> QED BY <2>1, <2>2, <3>4
  <2>3. CASE todo # {}
    BY <1>10, <2>1, <2>3 DEF NextPhoto
  <2> QED BY <2>2, <2>3
<1>11. CASE UNCHANGED vars
  BY <1>11
<1> QED
  BY <1>1, <1>2, <1>3, <1>4, <1>5, <1>6, <1>7, <1>8, <1>9, <1>10, <1>11 DEF Next, RunStep

\* The hash is a step of the pipeline behind its own fields.
LEMMA ProgressSteps == [ProgressNext]_progressVars => [Next]_vars
PROOF
<1>1. Visiting \/ Expires \/ MarkError(Run) => UNCHANGED vars
  BY DEF Visiting, StartCounts, StartPasses, StartWrites, Reverts, MarkError, Expires
<1>2. Outside \/ Begins \/ Goes \/ Flushes \/ Updates \/ Completes \/ Breaks \/ Dies => Next
  BY DEF Outside, Begins, Goes, Flushes, Updates, Completes, Breaks, Dies, Next, RunStep
<1> QED BY <1>1, <1>2 DEF ProgressNext, Proceeds, progressVars

\* The pipeline that the dashboard follows is the pipeline.
THEOREM ProgressRunsPipeline == ProgressSpec => Spec
PROOF
<1>1. ProgressInit => Init
  BY DEF ProgressInit
<1> QED BY <1>1, ProgressSteps, PTL DEF ProgressSpec, Spec

Hashes == [status : {"missing", "processing", "clustering", "complete", "error"},
           total : Nat, processed : Nat, failed : Nat]

RunInv == Inv /\ ProgressAddsUp /\ Settling

\* Numbers that fit together.
Fits(hash) == hash \in Hashes /\ hash.failed <= hash.processed /\ hash.processed <= hash.total

Caller == Visitor \cup {Run}

\* What mark_error has read fits, however long ago it was.
VisitsFit ==
    /\ visits \in [Caller -> [at : {"new", "counted", "free", "marking", "over"},
                             total : Nat, hash : Hashes]]
    /\ \A v \in Caller : Fits(visits[v].hash)

\* The run writes its error only once it is over.
RunMarks == visits[Run].at # "new" => phase = "idle"

ShownInv == shown \in Hashes /\ crossed \in BOOLEAN /\ VisitsFit /\ RunMarks /\ ShownIsTrue

LEMMA CountersFit ==
    ASSUME RunInv, phase # "idle",
           NEW shows \in {"missing", "processing", "clustering", "complete", "error"}
    PROVE  /\ Fits(Counters(shows)) /\ Counters(shows).status = shows
           /\ phase = "clustering" => Counters(shows).processed = Counters(shows).total
PROOF
<1>1. /\ Cardinality(loaded) \in Nat /\ Cardinality(todo) \in Nat /\ Cardinality(awaiting) \in Nat
      /\ processed \in Nat /\ failed \in Nat
  BY PhotosFinite DEF RunInv, Inv, RunOK
<1>2. processed + failed + Cardinality(awaiting) + Cardinality(todo) = Cardinality(loaded)
  BY DEF RunInv, ProgressAddsUp
<1>3. phase = "clustering" => processed + failed = Cardinality(loaded)
  <2>1. Cardinality({}) = 0
    BY FS_EmptySet
  <2> QED
    BY <1>1, <1>2, <2>1 DEF RunInv, Settling
<1> DEFINE c == Counters(shows)
<1>4. /\ c.status = shows /\ c.total = Cardinality(loaded) /\ c.processed = processed + failed
      /\ c.failed = failed
      /\ c = [status |-> c.status, total |-> c.total, processed |-> c.processed,
              failed |-> c.failed]
  BY DEF Counters
<1> HIDE DEF c
<1>5. c.total \in Nat /\ c.processed \in Nat /\ c.failed \in Nat
      /\ c.failed <= c.processed /\ c.processed <= c.total
  BY <1>1, <1>2, <1>4
<1>6. c \in Hashes
  BY <1>4, <1>5 DEF Hashes
<1> QED
  BY <1>3, <1>4, <1>5, <1>6 DEF Fits, c

\* A hash that is marked as an error fits as before, and a started one fits.
LEMMA MarkedFits ==
    /\ \A hash : Fits(hash) => /\ Fits([hash EXCEPT !.status = "error"])
                               /\ [hash EXCEPT !.status = "error"].status = "error"
    /\ \A n \in Nat : /\ Fits(Started(n)) /\ Started(n).status = "processing"
                      /\ Started(n) = Started(Started(n).total)
    /\ Fits(Missing) /\ Missing.status = "missing"
PROOF
  BY DEF Fits, Hashes, Started, Missing

\* A visit that begins, goes on, reads the hash or is over keeps what was read fit.
LEMMA VisitStep ==
    ASSUME VisitsFit, NEW v \in Caller, NEW visit, Visits(v, visit),
           visit.at \in {"new", "counted", "free", "marking", "over"},
           visit.total \in Nat, Fits(visit.hash),
           visit = [at |-> visit.at, total |-> visit.total, hash |-> visit.hash]
    PROVE  /\ VisitsFit'
           /\ v # Run => visits'[Run] = visits[Run]
           /\ visits'[v] = visit
PROOF
<1>1. visit.hash \in Hashes
  BY DEF Fits
<1>2. visit \in [at : {"new", "counted", "free", "marking", "over"}, total : Nat, hash : Hashes]
  BY <1>1
<1>3. visits' = [visits EXCEPT ![v] = visit]
  BY DEF Visits
<1>4. \A w \in Caller : visits'[w] = IF w = v THEN visit ELSE visits[w]
  BY <1>3 DEF VisitsFit
<1>5. Run \in Caller
  BY DEF Caller
<1>6. visits' \in [Caller -> [at : {"new", "counted", "free", "marking", "over"},
                             total : Nat, hash : Hashes]]
  BY <1>2, <1>3 DEF VisitsFit
<1>7. \A w \in Caller : Fits(visits'[w].hash)
  BY <1>4 DEF VisitsFit
<1> HIDE DEF Run
<1> QED BY <1>4, <1>5, <1>6, <1>7 DEF VisitsFit, Fits, Hashes

\* The update before the last batch, or none: the hash fits, and says "complete" only if it did.
LEMMA UpdatedFits ==
    ASSUME RunInv, ShownInv, phase # "idle", UpdatesLast
    PROVE  /\ Fits(shown') /\ crossed' \in BOOLEAN /\ shown'.status # "complete"
           /\ crossed' => shown' = shown /\ crossed
PROOF
<1>1. Fits(shown) /\ shown.status # "complete"
  BY DEF ShownInv, ShownIsTrue, Fits
<1>2. Fits(Counters("processing")) /\ Counters("processing").status = "processing"
  BY CountersFit
<1> QED BY <1>1, <1>2 DEF UpdatesLast, Reports, ShownInv

LEMMA ShownStep ==
    ASSUME RunInv, RunInv', ShownInv, [ProgressNext]_progressVars
    PROVE  ShownInv'
PROOF
<1> USE DEF database, run, vars, hashVars
<1>0. /\ phase \in {"idle", "scanning", "flushing", "finishing", "clustering"}
      /\ Fits(shown) /\ VisitsFit /\ Run \in Caller
  BY DEF RunInv, Inv, RunOK, ShownInv, ShownIsTrue, Fits, Caller
<1>1. ASSUME UNCHANGED <<shown, crossed, phase, loaded, processed, failed, aborts>>,
             VisitsFit', visits'[Run] = visits[Run]
      PROVE  ShownInv'
  BY <1>1 DEF ShownInv, ShownIsTrue, Counters, RunMarks
<1>2. ASSUME UNCHANGED hashVars, phase # "idle", phase' \in {"flushing", "finishing"}
      PROVE  ShownInv'
  BY <1>2 DEF ShownInv, ShownIsTrue, VisitsFit, Fits, RunMarks
<1>3. CASE Outside
  <2>1. UNCHANGED <<shown, crossed, visits, phase, loaded, processed, failed, aborts>>
    BY <1>3 DEF Outside, Upload, DeleteCounts, DeletePhoto
  <2>2. VisitsFit'
    BY <1>0, <2>1 DEF VisitsFit, Fits
  <2> QED BY <1>1, <2>1, <2>2
<1>4. CASE Goes
  <2>1. UNCHANGED hashVars /\ phase # "idle" /\ phase' \in {"flushing", "finishing"}
    BY <1>4 DEF Goes, PhotoFails, PhotoWithoutCrops, PhotoBuffered, FinishPhoto, BatchFinished,
                IsNext
  <2> QED BY <1>2, <2>1
<1>5. CASE Begins
  <2>1. phase' = "scanning" /\ loaded' = Pending /\ processed' = 0 /\ failed' = 0
    BY <1>5 DEF Begins, LoadPendingPhotos
  <2>2. /\ shown' = Started(Cardinality(Pending)) /\ crossed' = FALSE /\ UNCHANGED visits
        /\ visits[Run].at = "new"
    BY <1>5 DEF Begins, Reports
  <2>3. Cardinality(Pending) \in Nat
    BY PhotosFinite DEF Pending
  <2>4. Fits(shown') /\ shown'.status = "processing"
    BY <2>2, <2>3, MarkedFits
  <2>5. shown' = Counters("processing")'
    BY <2>1, <2>2 DEF Counters, Started
  <2>6. VisitsFit'
    BY <1>0, <2>2 DEF VisitsFit, Fits
  <2> QED BY <2>1, <2>2, <2>4, <2>5, <2>6 DEF ShownInv, ShownIsTrue, Fits, RunMarks
<1>6. CASE Flushes
  <2>1. phase # "idle" /\ phase' \in {"flushing", "finishing"} /\ UpdatesLast /\ UNCHANGED visits
    BY <1>6 DEF Flushes, FlushBatch, FailAwaiting, FlushDue
  <2>2. VisitsFit'
    BY <1>0, <2>1 DEF VisitsFit, Fits
  <2> QED BY <2>1, <2>2, UpdatedFits DEF Fits, ShownInv, ShownIsTrue, RunMarks
<1>7. CASE Updates
  <2>1. phase = "flushing" /\ phase' \in {"scanning", "clustering"}
        /\ UNCHANGED <<loaded, processed, failed, aborts, visits>>
    BY <1>7 DEF Updates, NextPhoto
  <2>2. shown' = Counters(IF phase' = "clustering" THEN "clustering" ELSE "processing")
        /\ crossed' = FALSE
    BY <1>7 DEF Updates, NextPhoto, Reports
  <2>3. Fits(shown') /\ shown'.status \in {"clustering", "processing"}
    BY <2>1, <2>2, CountersFit
  <2>4. Counters("clustering")' = Counters("clustering")
        /\ Counters("processing")' = Counters("processing")
    BY <2>1 DEF Counters
  <2>5. VisitsFit'
    BY <1>0, <2>1 DEF VisitsFit, Fits
  <2> QED BY <2>1, <2>2, <2>3, <2>4, <2>5 DEF Fits, ShownInv, ShownIsTrue, RunMarks
<1>8. CASE Completes
  <2>1. /\ phase = "clustering" /\ phase' = "idle" /\ UNCHANGED visits
        /\ shown' = Counters("complete") /\ crossed' = FALSE
    BY <1>8 DEF Completes, RunClustering, Reports
  <2>2. Fits(shown') /\ shown'.status = "complete" /\ shown'.processed = shown'.total
    BY <2>1, CountersFit
  <2>3. VisitsFit'
    BY <1>0, <2>1 DEF VisitsFit, Fits
  <2> QED BY <2>1, <2>2, <2>3 DEF Fits, ShownInv, ShownIsTrue, RunMarks
<1>9. ASSUME NEW v \in Caller, ReadsHash(v), Fits(shown')
      PROVE  VisitsFit' /\ visits'[v].at = "marking" /\ (v # Run => visits'[Run] = visits[Run])
  <2> DEFINE visit == [at |-> "marking", total |-> 0, hash |-> shown']
  <2>1. /\ visit.at = "marking" /\ visit.total = 0 /\ visit.hash = shown'
        /\ visit = [at |-> visit.at, total |-> visit.total, hash |-> visit.hash]
    OBVIOUS
  <2>2. Visits(v, visit)
    BY <1>9 DEF ReadsHash
  <2> HIDE DEF visit
  <2> QED BY <1>0, <1>9, <2>1, <2>2, VisitStep
<1>10. CASE Breaks
  <2>1. phase # "idle" /\ phase' = "idle" /\ UpdatesLast /\ ReadsHash(Run)
    BY <1>10 DEF Breaks, BreaksOnDeleted, Ends
  <2>2. /\ Fits(shown') /\ crossed' \in BOOLEAN /\ shown'.status # "complete"
        /\ crossed' => shown' = shown /\ crossed
    BY <2>1, UpdatedFits
  <2>3. VisitsFit' /\ visits'[Run].at = "marking"
    BY <1>0, <1>9, <2>1, <2>2
  <2> QED BY <2>1, <2>2, <2>3 DEF Fits, ShownInv, ShownIsTrue, RunMarks
<1>11. CASE Dies
  <2>1. /\ phase # "idle" /\ phase' = "idle" /\ aborts' # 0
        /\ UpdatesLast \/ UNCHANGED <<shown, crossed>>
        /\ ReadsHash(Run) \/ UNCHANGED visits
    BY <1>11 DEF Dies, Crashes, Ends, RunInv, Inv, RunOK
  <2>2. /\ Fits(shown') /\ crossed' \in BOOLEAN /\ shown'.status # "complete"
        /\ crossed' => shown' = shown /\ crossed
    BY <1>0, <2>1, UpdatedFits DEF ShownInv, ShownIsTrue
  <2>3. VisitsFit'
    BY <1>0, <1>9, <2>1, <2>2 DEF VisitsFit, Fits
  <2> QED BY <2>1, <2>2, <2>3 DEF Fits, ShownInv, ShownIsTrue, RunMarks
<1>12. ASSUME NEW v \in Caller, MarkError(v) PROVE ShownInv'
  <2> DEFINE visit == [New EXCEPT !.at = IF v = Run THEN "new" ELSE "over"]
  <2>1. /\ shown' = [visits[v].hash EXCEPT !.status = "error"] /\ crossed' = (v # Run)
        /\ Visits(v, visit) /\ UNCHANGED vars /\ visits[v].at = "marking"
    BY <1>12 DEF MarkError
  <2>2. /\ visit.at \in {"new", "over"} /\ visit.total = 0 /\ visit.hash = Missing
        /\ visit = [at |-> visit.at, total |-> visit.total, hash |-> visit.hash]
    BY DEF New
  <2>3. Fits(shown') /\ shown'.status = "error"
    BY <1>0, <1>12, <2>1, MarkedFits DEF VisitsFit
  <2>4. VisitsFit'
    <3> HIDE DEF visit
    <3> QED BY <1>0, <1>12, <2>1, <2>2, VisitStep, MarkedFits
  <2>5. crossed' \in BOOLEAN /\ (v = Run => ~crossed') /\ (v # Run => crossed')
    BY <2>1
  <2>6. CASE v = Run
    <3>1. phase = "idle" /\ phase' = "idle"
      BY <2>1, <2>6 DEF ShownInv, RunMarks
    <3> QED BY <2>1, <2>3, <2>4, <2>5, <3>1, <2>6 DEF Fits, ShownInv, ShownIsTrue, RunMarks
  <2>7. CASE v # Run
    <3>1. visits'[Run] = visits[Run]
      <4> HIDE DEF visit
      <4> QED BY <1>0, <1>12, <2>1, <2>2, <2>7, VisitStep, MarkedFits
    <3> QED BY <2>1, <2>3, <2>4, <2>5, <2>7, <3>1 DEF Fits, ShownInv, ShownIsTrue, RunMarks
  <2> QED BY <2>6, <2>7
<1>13. ASSUME NEW v \in Visitor, Reverts(v) PROVE ShownInv'
  <2>1. UNCHANGED <<vars, shown, crossed>> /\ ReadsHash(v) /\ v # Run /\ v \in Caller
    BY <1>13, VisitorAssumption DEF Reverts, Caller
  <2>2. Fits(shown')
    BY <1>0, <2>1
  <2> QED BY <1>1, <1>9, <2>1, <2>2
<1>14. ASSUME NEW v \in Visitor, StartCounts(v) \/ StartPasses(v) PROVE ShownInv'
  <2>1. UNCHANGED <<vars, shown, crossed>> /\ v # Run /\ v \in Caller
    BY <1>14, VisitorAssumption DEF StartCounts, StartPasses, Caller
  <2>2. VisitsFit' /\ visits'[Run] = visits[Run]
    <3>1. CASE StartCounts(v)
      <4> DEFINE visit == [at |-> "counted", total |-> Cardinality(Pending), hash |-> Missing]
      <4>1. Cardinality(Pending) \in Nat
        BY PhotosFinite DEF Pending
      <4>2. /\ visit.at = "counted" /\ visit.total \in Nat /\ visit.hash = Missing
            /\ visit = [at |-> visit.at, total |-> visit.total, hash |-> visit.hash]
        BY <4>1
      <4>3. Visits(v, visit)
        BY <3>1 DEF StartCounts
      <4> HIDE DEF visit
      <4> QED BY <1>0, <2>1, <4>2, <4>3, VisitStep, MarkedFits
    <3>2. CASE StartPasses(v)
      <4> DEFINE visit == [visits[v] EXCEPT !.at = "free"]
      <4>1. visits[v] \in [at : {"new", "counted", "free", "marking", "over"},
                          total : Nat, hash : Hashes]
        BY <1>0, <2>1 DEF VisitsFit
      <4>2. /\ visit.at = "free" /\ visit.total \in Nat /\ visit.hash = visits[v].hash
            /\ visit = [at |-> visit.at, total |-> visit.total, hash |-> visit.hash]
        BY <4>1
      <4>3. Visits(v, visit)
        BY <3>2 DEF StartPasses
      <4>4. Fits(visit.hash)
        BY <1>0, <2>1, <4>2 DEF VisitsFit
      <4> HIDE DEF visit
      <4> QED BY <1>0, <2>1, <4>2, <4>3, <4>4, VisitStep
    <3> QED BY <1>14, <3>1, <3>2
  <2> QED BY <1>1, <2>1, <2>2
<1>15. ASSUME NEW v \in Visitor, StartWrites(v) PROVE ShownInv'
  <2> DEFINE visit == [New EXCEPT !.at = "over"]
  <2>1. /\ shown' = Started(visits[v].total) /\ crossed' = TRUE /\ Visits(v, visit)
        /\ UNCHANGED vars /\ v # Run /\ v \in Caller
    BY <1>15, VisitorAssumption DEF StartWrites, Caller
  <2>2. /\ visit.at = "over" /\ visit.total = 0 /\ visit.hash = Missing
        /\ visit = [at |-> visit.at, total |-> visit.total, hash |-> visit.hash]
    BY DEF New
  <2>3. VisitsFit' /\ visits'[Run] = visits[Run]
    <3> HIDE DEF visit
    <3> QED BY <1>0, <2>1, <2>2, VisitStep, MarkedFits
  <2>4. visits[v].total \in Nat
    BY <1>0, <2>1 DEF VisitsFit
  <2>5. Fits(shown') /\ shown'.status = "processing" /\ shown' = Started(shown'.total)
    BY <2>1, <2>4, MarkedFits
  <2>6. crossed' \in BOOLEAN /\ crossed'
    BY <2>1
  <2> QED BY <2>1, <2>3, <2>5, <2>6 DEF Fits, ShownInv, ShownIsTrue, RunMarks, Started
<1>16. CASE Visiting
  <2> PICK v \in Visitor : StartCounts(v) \/ StartPasses(v) \/ StartWrites(v) \/ Reverts(v)
                          \/ MarkError(v)
    BY <1>16 DEF Visiting
  <2>1. v \in Caller
    BY DEF Caller
  <2> QED BY <1>12, <1>13, <1>14, <1>15, <2>1
<1>17. CASE Expires
  <2>1. phase' = "idle" /\ shown' = Missing /\ crossed' = FALSE /\ UNCHANGED visits
    BY <1>17 DEF Expires
  <2>2. VisitsFit'
    BY <1>0, <2>1 DEF VisitsFit, Fits
  <2> QED BY <2>1, <2>2, MarkedFits DEF Fits, ShownInv, ShownIsTrue, RunMarks
<1>18. CASE UNCHANGED progressVars
  <2>1. UNCHANGED <<shown, crossed, visits, phase, loaded, processed, failed, aborts>>
    BY <1>18 DEF progressVars
  <2>2. VisitsFit'
    BY <1>0, <2>1 DEF VisitsFit, Fits
  <2> QED BY <1>1, <2>1, <2>2
<1> QED
  BY <1>0, <1>3, <1>4, <1>5, <1>6, <1>7, <1>8, <1>10, <1>11, <1>12, <1>16, <1>17, <1>18
     DEF ProgressNext, Proceeds

\* The dashboard never shows more processed than there are, "complete" only when every photo of
\* the last run is accounted for, and between two photos what the run has done unless a start or a
\* revert has written over it since (processing_progress.py, face_processing_service.py), for every
\* number of photos, batch size, number of crashes and number of starts and reverts.
THEOREM ShownStaysTrue == ProgressSpec => []ShownIsTrue
PROOF
<1>1. ProgressInit => RunInv /\ ShownInv
  <2> SUFFICES ASSUME ProgressInit PROVE RunInv /\ ShownInv
    OBVIOUS
  <2>1. Inv
    BY InitInv DEF ProgressInit
  <2>2. ProgressAddsUp /\ Settling
    BY DEF ProgressInit, Init, ProgressAddsUp, Settling
  <2>3. ShownInv
    <3>1. /\ shown = Missing /\ crossed = FALSE /\ phase = "idle" /\ visits \in [Caller -> {New}]
          /\ Run \in Caller
      BY DEF ProgressInit, Init, Caller
    <3>2. \A v \in Caller : visits[v] = New
      BY <3>1
    <3>3. Fits(Missing)
      BY MarkedFits
    <3>4. /\ New \in [at : {"new", "counted", "free", "marking", "over"}, total : Nat,
                     hash : Hashes]
          /\ New.hash = Missing /\ New.at = "new"
      BY <3>3 DEF New, Fits
    <3>5. visits \in [Caller -> [at : {"new", "counted", "free", "marking", "over"},
                               total : Nat, hash : Hashes]]
      BY <3>1, <3>4
    <3>6. VisitsFit /\ RunMarks
      <4>1. \A v \in Caller : Fits(visits[v].hash)
        BY <3>2, <3>3, <3>4
      <4>2. RunMarks
        BY <3>1, <3>2, <3>4 DEF RunMarks
      <4> QED BY <3>5, <4>1, <4>2 DEF VisitsFit
    <3>7. ShownIsTrue
      BY <3>1, <3>3, MarkedFits DEF ShownIsTrue, Fits
    <3> QED BY <3>1, <3>3, <3>6, <3>7 DEF ShownInv, Fits
  <2> QED BY <2>1, <2>2, <2>3 DEF RunInv
<1>2. RunInv /\ [ProgressNext]_progressVars => RunInv'
  BY ProgressSteps, NextInv, ProgressStep, SettlingStep DEF RunInv
<1>3. RunInv /\ RunInv' /\ ShownInv /\ [ProgressNext]_progressVars => ShownInv'
  BY ShownStep
<1>4. ShownInv => ShownIsTrue
  BY DEF ShownInv
<1> QED BY <1>1, <1>2, <1>3, <1>4, PTL DEF ProgressSpec

-----------------------------------------------------------------------------
(* The runs come to an end. *)

\* How far a run is from its end when nothing is left to do.
Place(f) == CASE f = "idle" -> 0 [] f = "clustering" -> 1 [] f = "scanning" -> 2
              [] f = "flushing" -> 3 [] f = "finishing" -> 4

StepsPerPhoto == 2 * MaxFaces + 3

\* The steps that a run can still take, at most: for each photo to come its look, a flush of
\* each of its crops and its finish; the same for what is in the buffer; and the way to the end.
Effort == StepsPerPhoto * Cardinality(todo) + Cardinality(awaiting) + 2 * Total(buffer)
              + Place(phase)

\* A photo that a run has loaded is decided, or still in its hands.
InHand ==
    phase # "idle" => \A p \in loaded :
        outcome[p] \in {"counted", "failed", "deleted"} \/ p \in todo \cup awaiting

\* What can still happen: uploads, requests to delete, deletions, crashes, ...
Unborn  == {p \in Photo : outcome[p] = "absent"}
Unasked == {p \in Photo : deleting[p] = NotAsked}
Kept    == {p \in Photo : outcome[p] # "deleted"}

\* ... runs that break on a deleted photo, and runs of photos that no run has loaded.
Breaking == {p \in Photo : outcome[p] # "deleted" \/ (phase # "idle" /\ p \in loaded)}
Unloaded == {p \in Photo : outcome[p] = "pending" /\ (phase = "idle" \/ p \notin loaded)}

Remaining == <<Cardinality(Unborn), Cardinality(Unasked), Cardinality(Kept), MaxAborts - aborts,
               Cardinality(Breaking), Cardinality(Unloaded), Effort>>

\* Less in the first place where they differ.
LexLess(a, b) == \E i \in 1..7 : a[i] < b[i] /\ \A j \in 1..(i - 1) : a[j] = b[j]

\* Every step of a run, and everything that happens beside it, leaves less that can still happen:
\* bulk processing (ml/pipeline.py) never goes on for ever.
WorkLessens == [][LexLess(Remaining', Remaining)]_vars

\* Every step brings the run that takes it nearer to its end, and no upload or deletion puts
\* the end off (process_event_photos loads the pending photos once).
RunsShorten ==
    [][ /\ LoadPendingPhotos => Effort' = StepsPerPhoto * Cardinality(Pending) + 2
        /\ RunStep \/ Crashes => Effort' < Effort
        /\ (\E p \in Photo : Upload(p) \/ DeleteCounts(p) \/ DeletePhoto(p))
               => Effort' = Effort ]_vars

\* The total of a pointwise sum is the sum of the totals.
LEMMA TotalAdds ==
    ASSUME NEW f \in [Photo -> Nat], NEW g \in [Photo -> Nat], NEW h \in [Photo -> Nat],
           \A p \in Photo : h[p] = f[p] + g[p]
    PROVE  Total(h) = Total(f) + Total(g)
PROOF
<1> DEFINE F == Sums(f)
           G == Sums(g)
           H == Sums(h)
           Good(s) == F[s] \in Nat /\ G[s] \in Nat /\ H[s] = F[s] + G[s]
           bad == {s \in SUBSET Photo : ~Good(s)}
<1>1. SumsOf(f, F, Photo) /\ SumsOf(g, G, Photo) /\ SumsOf(h, H, Photo)
  BY SumsRecur
<1> HIDE DEF F, G, H
<1>2. ASSUME bad # {} PROVE FALSE
  <2>1. PICK s \in bad : \A t \in SUBSET s : t # s => t \notin bad
    <3>1. bad \in SUBSET (SUBSET Photo)
      OBVIOUS
    <3> HIDE DEF bad
    <3> QED
      BY <1>2, <3>1, SmallestSet
  <2>2. s \in SUBSET Photo /\ ~Good(s)
    OBVIOUS
  <2>3. s # {}
    <3>1. s = {} => F[s] = 0 /\ G[s] = 0 /\ H[s] = 0
      BY <1>1, <2>2 DEF SumsOf
    <3> QED
      BY <2>2, <3>1
  <2>4. Pick(s) \in s /\ Rest(s) \in SUBSET s /\ Rest(s) # s /\ Rest(s) \in SUBSET Photo
    BY <2>2, <2>3, RestIsLess
  <2>5. Good(Rest(s))
    BY <2>1, <2>4
  <2>6. /\ F[s] = f[Pick(s)] + F[Rest(s)] /\ G[s] = g[Pick(s)] + G[Rest(s)]
        /\ H[s] = h[Pick(s)] + H[Rest(s)]
    BY <1>1, <2>2, <2>3 DEF SumsOf
  <2>7. f[Pick(s)] \in Nat /\ g[Pick(s)] \in Nat /\ h[Pick(s)] = f[Pick(s)] + g[Pick(s)]
    BY <2>2, <2>4
  <2> QED
    BY <2>2, <2>5, <2>6, <2>7
<1>3. Good(Photo)
  BY <1>2
<1>4. Total(f) = F[Photo] /\ Total(g) = G[Photo] /\ Total(h) = H[Photo]
  BY TotalIsTheSum DEF F, G, H
<1> QED
  BY <1>3, <1>4

\* The total of a function that is zero but for one photo is its value there.
LEMMA TotalOfOne ==
    ASSUME NEW f \in [Photo -> Nat], NEW p \in Photo, \A q \in Photo : q # p => f[q] = 0
    PROVE  Total(f) = f[p]
PROOF
<1> DEFINE F == Sums(f)
           Good(s) == F[s] = IF p \in s THEN f[p] ELSE 0
           bad == {s \in SUBSET Photo : ~Good(s)}
<1>1. SumsOf(f, F, Photo)
  BY SumsRecur
<1> HIDE DEF F
<1>2. ASSUME bad # {} PROVE FALSE
  <2>1. PICK s \in bad : \A t \in SUBSET s : t # s => t \notin bad
    <3>1. bad \in SUBSET (SUBSET Photo)
      OBVIOUS
    <3> HIDE DEF bad
    <3> QED
      BY <1>2, <3>1, SmallestSet
  <2>2. s \in SUBSET Photo /\ ~Good(s)
    OBVIOUS
  <2>3. s # {}
    <3>1. s = {} => F[s] = 0
      BY <1>1, <2>2 DEF SumsOf
    <3> QED
      BY <2>2, <3>1
  <2>4. Pick(s) \in s /\ Rest(s) \in SUBSET s /\ Rest(s) # s /\ Rest(s) \in SUBSET Photo
    BY <2>2, <2>3, RestIsLess
  <2>5. Good(Rest(s))
    BY <2>1, <2>4
  <2>6. F[s] = f[Pick(s)] + F[Rest(s)]
    BY <1>1, <2>2, <2>3 DEF SumsOf
  <2>7. CASE Pick(s) = p
    <3>1. p \notin Rest(s) /\ p \in s
      BY <2>4, <2>7 DEF Rest
    <3> QED
      BY <2>2, <2>5, <2>6, <2>7, <3>1
  <2>8. CASE Pick(s) # p
    <3>1. f[Pick(s)] = 0 /\ (p \in Rest(s) <=> p \in s)
      BY <2>2, <2>4, <2>8 DEF Rest
    <3> QED
      BY <2>2, <2>5, <2>6, <3>1
  <2> QED
    BY <2>7, <2>8
<1>3. Good(Photo)
  BY <1>2
<1>4. Total(f) = F[Photo]
  BY TotalIsTheSum DEF F
<1> QED
  BY <1>3, <1>4

\* A photo once loaded stays in the run's hands until it is decided.
LEMMA InHandStep ==
    ASSUME Inv, InHand, [Next]_vars PROVE InHand'
PROOF
<1> USE DEF InHand, Inv, PhotosOK, RunOK, database, run, vars
<1>1. ASSUME NEW p \in Photo, Upload(p) \/ DeleteCounts(p) \/ DeletePhoto(p) PROVE InHand'
  BY <1>1 DEF Upload, DeleteCounts, DeletePhoto
<1>2. CASE LoadPendingPhotos \/ BreaksOnDeleted \/ Crashes \/ RunClustering
  BY <1>2 DEF LoadPendingPhotos, BreaksOnDeleted, Crashes, Ends, RunClustering
<1>3. ASSUME NEW p \in Photo, PhotoFails(p) \/ PhotoWithoutCrops(p) \/ PhotoBuffered(p)
      PROVE  InHand'
  BY <1>3 DEF PhotoFails, PhotoWithoutCrops, PhotoBuffered, IsNext, Finish
<1>4. ASSUME NEW p \in Photo, FinishPhoto(p) PROVE InHand'
  BY <1>4 DEF FinishPhoto, Finish
<1>5. CASE FlushBatch \/ BatchFinished \/ NextPhoto
  BY <1>5 DEF FlushBatch, FlushDue, BatchFinished, NextPhoto
<1>6. CASE FailAwaiting
  BY <1>6 DEF FailAwaiting, FlushDue
<1>7. CASE UNCHANGED vars
  BY <1>7
<1> QED
  BY <1>1, <1>2, <1>3, <1>4, <1>5, <1>6, <1>7 DEF Next, RunStep

\* What a run has left is a number.
EffortOK ==
    /\ Effort \in Nat /\ Total(buffer) \in Nat /\ Place(phase) \in 0..4
    /\ Cardinality(todo) \in Nat /\ Cardinality(awaiting) \in Nat
    /\ buffer \in [Photo -> Nat] /\ todo \subseteq Photo /\ awaiting \subseteq Photo

LEMMA EffortIsNat == Inv => EffortOK
PROOF
<1> SUFFICES ASSUME Inv PROVE EffortOK
  OBVIOUS
<1>1. buffer \in [Photo -> Nat] /\ todo \subseteq Photo /\ awaiting \subseteq Photo
  BY DEF Inv, RunOK, Counts
<1>2. Total(buffer) \in Nat
  BY <1>1, TotalBounds
<1>3. Cardinality(todo) \in Nat /\ Cardinality(awaiting) \in Nat
  BY <1>1, PhotosFinite
<1>4. Place(phase) \in 0..4
  BY DEF Inv, RunOK, Place
<1>5. StepsPerPhoto * Cardinality(todo) \in Nat
  BY <1>3 DEF StepsPerPhoto
<1> QED BY <1>1, <1>2, <1>3, <1>4, <1>5 DEF Effort, EffortOK

\* One photo less, one product less.
LEMMA OneLess ==
    ASSUME NEW c \in Nat, NEW k \in Nat, NEW j \in Nat, j = k - 1
    PROVE  c * j = c * k - c
PROOF
  OBVIOUS

\* A photo that is looked at leaves more room than its crops take.
LEMMA LookShortens ==
    ASSUME Inv, Inv', NEW p \in Photo, PhotoFails(p) \/ PhotoWithoutCrops(p) \/ PhotoBuffered(p)
    PROVE  Effort' < Effort
PROOF
<1>1. RunOK /\ Waiting
  BY DEF Inv
<1>2. EffortOK /\ StepsPerPhoto \in Nat /\ MaxFaces \in Nat
  BY EffortIsNat DEF StepsPerPhoto
<1>3. EffortOK'
  BY EffortIsNat, PTL
<1> USE DEF EffortOK
<1>4. p \in todo /\ todo' = todo \ {p} /\ phase = "scanning" /\ phase' = "flushing"
  BY DEF PhotoFails, PhotoWithoutCrops, PhotoBuffered, IsNext
<1>5. Cardinality(todo') = Cardinality(todo) - 1
  BY <1>2, <1>4, PhotosFinite, FS_RemoveElement
<1>6. StepsPerPhoto * Cardinality(todo') = StepsPerPhoto * Cardinality(todo) - StepsPerPhoto
  BY <1>2, <1>3, <1>5, OneLess
<1>7. Place(phase) = 2 /\ Place(phase') = 3
  BY <1>4 DEF Place
<1>8. /\ Cardinality(awaiting') <= Cardinality(awaiting) + 1
      /\ Total(buffer') <= Total(buffer) + MaxFaces
  <2>1. CASE PhotoFails(p) \/ PhotoWithoutCrops(p)
    <3>1. UNCHANGED <<awaiting, buffer>>
      BY <2>1 DEF PhotoFails, PhotoWithoutCrops
    <3> QED BY <1>2, <3>1
  <2>2. CASE PhotoBuffered(p)
    <3>0. PICK n \in 1..MaxFaces : \E m \in 1..n : buffer' = [buffer EXCEPT ![p] = m]
      BY <2>2 DEF PhotoBuffered
    <3>1. PICK m \in 1..MaxFaces : buffer' = [buffer EXCEPT ![p] = m]
      <4>1. PICK m \in 1..n : buffer' = [buffer EXCEPT ![p] = m]
        BY <3>0
      <4>2. m \in 1..MaxFaces
        BY <4>1
      <4> QED BY <4>1, <4>2
    <3>2. p \notin awaiting /\ buffer[p] = 0
      BY <1>1, <1>2, <1>4 DEF RunOK, Waiting
    <3>3. Cardinality(awaiting') = Cardinality(awaiting) + 1
      <4>1. awaiting' = awaiting \cup {p}
        BY <2>2 DEF PhotoBuffered
      <4> QED BY <1>2, <3>2, <4>1, PhotosFinite, FS_AddElement
    <3> DEFINE own == [q \in Photo |-> IF q = p THEN m ELSE 0]
    <3>4. own \in [Photo -> Nat] /\ \A q \in Photo : buffer'[q] = buffer[q] + own[q]
      BY <1>2, <3>1, <3>2
    <3>5. own[p] = m /\ \A q \in Photo : q # p => own[q] = 0
      OBVIOUS
    <3> HIDE DEF own
    <3>6. Total(own) = m
      BY <3>4, <3>5, TotalOfOne
    <3>7. Total(buffer') = Total(buffer) + Total(own)
      BY <1>2, <1>3, <3>4, TotalAdds
    <3> QED BY <1>2, <3>1, <3>3, <3>6, <3>7
  <2> QED BY <2>1, <2>2
<1> QED
  BY <1>2, <1>3, <1>6, <1>7, <1>8 DEF Effort, StepsPerPhoto

\* A batch takes crops out of the buffer, a failed one all of them.
LEMMA FlushShortens ==
    ASSUME Inv, Inv', FlushBatch \/ FailAwaiting
    PROVE  Effort' < Effort
PROOF
<1>2. EffortOK /\ StepsPerPhoto \in Nat
  BY EffortIsNat DEF StepsPerPhoto
<1>3. EffortOK'
  BY EffortIsNat, PTL
<1> USE DEF EffortOK
<1>4. StepsPerPhoto * Cardinality(todo) \in Nat
  BY <1>2
<1>5. Total(buffer) > 0 /\ todo' = todo /\ phase = "flushing" /\ Place(phase) = 3
  BY <1>2, BulkAssumption DEF FlushBatch, FailAwaiting, FlushDue, Place
<1>6. CASE FlushBatch
  <2>1. PICK batch \in Counts :
           IsBatch(batch) /\ buffer' = [p \in Photo |-> buffer[p] - batch[p]]
    BY <1>6 DEF FlushBatch
  <2>2. batch \in [Photo -> Nat] /\ \A p \in Photo : buffer[p] = buffer'[p] + batch[p]
    BY <1>2, <2>1 DEF Counts
  <2>3. Total(buffer) = Total(buffer') + Total(batch)
    BY <1>2, <1>3, <2>2, TotalAdds
  <2>4. Total(batch) >= 1 /\ Total(batch) \in Nat
    BY <1>2, <1>5, <2>1, BulkAssumption DEF IsBatch, Lesser
  <2>5. awaiting' = awaiting /\ phase' = "finishing" /\ Place(phase') = 4
    BY <1>6 DEF FlushBatch, Place
  <2> QED BY <1>2, <1>3, <1>4, <1>5, <2>3, <2>4, <2>5 DEF Effort
<1>7. CASE FailAwaiting
  <2>1. awaiting' = {} /\ phase' = phase /\ buffer' = Nothing
    BY <1>7 DEF FailAwaiting
  <2>2. Cardinality(awaiting') = 0
    BY <2>1, FS_EmptySet
  <2>3. Total(buffer') = 0
    BY <1>3, <2>1, TotalBounds DEF Nothing
  <2> QED BY <1>2, <1>3, <1>4, <1>5, <2>1, <2>2, <2>3 DEF Effort
<1> QED BY <1>6, <1>7

\* An end of the run, whichever it is, leaves nothing to do; every other step comes nearer to it.
LEMMA EndShortens ==
    ASSUME Inv, Inv', phase # "idle",
           RunClustering \/ BatchFinished \/ NextPhoto \/ BreaksOnDeleted \/ Crashes
    PROVE  Effort' < Effort
PROOF
<1>1. EffortOK /\ StepsPerPhoto \in Nat /\ StepsPerPhoto * Cardinality(todo) \in Nat
  BY EffortIsNat DEF StepsPerPhoto, EffortOK
<1>2. EffortOK'
  BY EffortIsNat, PTL
<1>3. CASE RunClustering \/ BatchFinished \/ NextPhoto
  <2>1. UNCHANGED <<todo, awaiting, buffer>>
    BY <1>3 DEF RunClustering, BatchFinished, NextPhoto
  <2>2. UNCHANGED <<Cardinality(todo), Cardinality(awaiting), Total(buffer)>>
    BY <2>1
  <2>3. Place(phase') < Place(phase)
    BY <1>3 DEF RunClustering, BatchFinished, NextPhoto, Place
  <2> QED BY <1>1, <1>2, <2>2, <2>3 DEF Effort, EffortOK
<1>4. CASE BreaksOnDeleted \/ Crashes
  <2>1. todo' = {} /\ awaiting' = {} /\ buffer' = Nothing /\ phase' = "idle"
    BY <1>4 DEF BreaksOnDeleted, Crashes, Ends
  <2>2. Cardinality(todo') = 0 /\ Cardinality(awaiting') = 0
    BY <2>1, FS_EmptySet
  <2>3. Total(buffer') = 0
    BY <1>2, <2>1, TotalBounds DEF Nothing, EffortOK
  <2>4. Place(phase') = 0 /\ Place(phase) >= 1
    BY <2>1 DEF Inv, RunOK, Place
  <2> QED BY <1>1, <1>2, <2>2, <2>3, <2>4 DEF Effort, EffortOK
<1> QED BY <1>3, <1>4

\* A photo finished is one that no longer waits.
LEMMA FinishShortens ==
    ASSUME Inv, Inv', NEW p \in Photo, FinishPhoto(p)
    PROVE  Effort' < Effort
PROOF
<1>1. EffortOK /\ StepsPerPhoto \in Nat /\ StepsPerPhoto * Cardinality(todo) \in Nat
  BY EffortIsNat DEF StepsPerPhoto, EffortOK
<1>2. EffortOK'
  BY EffortIsNat, PTL
<1>3. UNCHANGED <<phase, todo, buffer>> /\ awaiting' = awaiting \ {p} /\ p \in awaiting
  BY DEF FinishPhoto, Finish, Inv, RunOK
<1>4. Cardinality(awaiting') = Cardinality(awaiting) - 1
  BY <1>1, <1>3, PhotosFinite, FS_RemoveElement DEF EffortOK
<1>5. UNCHANGED <<Cardinality(todo), Total(buffer), Place(phase)>>
  BY <1>3
<1> QED BY <1>1, <1>2, <1>4, <1>5 DEF Effort, EffortOK

\* Every step of a run shortens it, whatever its photos are like and however it breaks.
LEMMA StepShortens ==
    ASSUME Inv, Inv', RunStep \/ Crashes
    PROVE  Effort' < Effort
PROOF
<1>1. phase # "idle"
  BY DEF RunStep, Crashes, PhotoFails, PhotoWithoutCrops, PhotoBuffered, IsNext, FinishPhoto,
         FlushBatch, FailAwaiting, FlushDue, BatchFinished, NextPhoto, RunClustering,
         BreaksOnDeleted, Ends
<1> QED
  BY <1>1, LookShortens, FlushShortens, EndShortens, FinishShortens DEF RunStep

\* A run begins with its photos before it and an empty buffer.
LEMMA BeginsWith ==
    ASSUME Inv', LoadPendingPhotos
    PROVE  Effort' = StepsPerPhoto * Cardinality(Pending) + 2
PROOF
<1>1. EffortOK'
  BY EffortIsNat, PTL
<1>2. todo' = Pending /\ awaiting' = {} /\ buffer' = Nothing /\ phase' = "scanning"
  BY DEF LoadPendingPhotos
<1>3. Cardinality(awaiting') = 0 /\ Cardinality(todo') = Cardinality(Pending)
  BY <1>2, FS_EmptySet
<1>4. Total(buffer') = 0
  BY <1>1, <1>2, TotalBounds DEF Nothing, EffortOK
<1>5. Place(phase') = 2
  BY <1>2 DEF Place
<1>6. StepsPerPhoto * Cardinality(Pending) \in Nat
  BY <1>1, <1>3 DEF EffortOK, StepsPerPhoto
<1> QED BY <1>3, <1>4, <1>5, <1>6 DEF Effort

\* Uploads and deletions leave a run as long as it was.
LEMMA OutsideLeaves ==
    ASSUME UNCHANGED run PROVE Effort' = Effort
PROOF
<1>1. UNCHANGED <<todo, awaiting, buffer, phase>>
  BY DEF run
<1> QED BY <1>1 DEF Effort, Place

\* process_event_photos (ml/pipeline.py) ends: for k pending photos of at most MaxFaces faces a
\* run takes no more than StepsPerPhoto * k + 2 steps, whatever fails, and whatever the
\* photographer uploads or deletes meanwhile.
THEOREM RunsEnd == Spec => RunsShorten
PROOF
<1> DEFINE Shortens ==
        /\ LoadPendingPhotos => Effort' = StepsPerPhoto * Cardinality(Pending) + 2
        /\ RunStep \/ Crashes => Effort' < Effort
        /\ (\E p \in Photo : Upload(p) \/ DeleteCounts(p) \/ DeletePhoto(p)) => Effort' = Effort
<1>1. Inv /\ Inv' /\ [Next]_vars => [Shortens]_vars
  <2>1. (\E p \in Photo : Upload(p) \/ DeleteCounts(p) \/ DeletePhoto(p)) => UNCHANGED run
    BY DEF Upload, DeleteCounts, DeletePhoto
  <2> QED BY <2>1, StepShortens, BeginsWith, OutsideLeaves
<1> QED BY <1>1, InvHolds, PTL DEF Spec, RunsShorten

\* A difference in one place, and none before it, decides.
LEMMA LexBy ==
    ASSUME NEW a, NEW b, NEW i \in 1..7, a[i] < b[i], \A j \in 1..7 : j < i => a[j] = b[j]
    PROVE  LexLess(a, b)
PROOF
<1>1. \A j \in 1..(i - 1) : a[j] = b[j]
  OBVIOUS
<1> QED BY <1>1 DEF LexLess

\* A set of photos that loses one, and gains none.
LEMMA SetShrinks ==
    ASSUME NEW s \in SUBSET Photo, NEW t \in SUBSET s
    PROVE  /\ Cardinality(t) <= Cardinality(s)
           /\ t # s => Cardinality(t) < Cardinality(s)
PROOF
<1>1. IsFiniteSet(s) /\ IsFiniteSet(t) /\ Cardinality(s) \in Nat /\ Cardinality(t) \in Nat
  BY PhotosFinite
<1>2. Cardinality(t) <= Cardinality(s)
  BY <1>1, FS_Subset
<1>3. Cardinality(t) = Cardinality(s) => t = s
  BY <1>1, FS_Subset
<1> QED BY <1>1, <1>2, <1>3

\* What can still happen, counted.
LEMMA RemainingIsNat == Inv => Remaining \in [1..7 -> Nat]
PROOF
<1> SUFFICES ASSUME Inv PROVE Remaining \in [1..7 -> Nat]
  OBVIOUS
<1>1. /\ Cardinality(Unborn) \in Nat /\ Cardinality(Unasked) \in Nat /\ Cardinality(Kept) \in Nat
      /\ Cardinality(Breaking) \in Nat /\ Cardinality(Unloaded) \in Nat
  BY PhotosFinite DEF Unborn, Unasked, Kept, Breaking, Unloaded
<1>2. Effort \in Nat /\ MaxAborts - aborts \in Nat
  BY EffortIsNat, BulkAssumption DEF EffortOK, Inv, RunOK
<1> QED BY <1>1, <1>2 DEF Remaining

\* The photographer has only so much to upload and to delete.
LEMMA OutsideLessens ==
    ASSUME Inv, NEW p \in Photo, Upload(p) \/ DeleteCounts(p) \/ DeletePhoto(p)
    PROVE  LexLess(Remaining', Remaining)
PROOF
<1> USE DEF Remaining
<1>0. PhotosOK
  BY DEF Inv
<1>1. CASE Upload(p)
  <2>1. Unborn' \subseteq Unborn /\ p \in Unborn /\ p \notin Unborn'
    BY <1>0, <1>1 DEF Upload, Unborn, PhotosOK
  <2>2. Cardinality(Unborn') < Cardinality(Unborn)
    BY <2>1, SetShrinks DEF Unborn
  <2> QED BY <2>2, LexBy
<1>2. CASE DeleteCounts(p)
  <2>1. Unasked' \subseteq Unasked /\ p \in Unasked /\ p \notin Unasked' /\ Unborn' = Unborn
    BY <1>0, <1>2
       DEF DeleteCounts, Unasked, Unborn, PhotosOK, database, Exists, Counts, NotAsked
  <2>2. Cardinality(Unasked') < Cardinality(Unasked)
    BY <2>1, SetShrinks DEF Unasked
  <2>3. Cardinality(Unborn') = Cardinality(Unborn)
    BY <2>1
  <2> QED BY <2>2, <2>3, LexBy
<1>3. CASE DeletePhoto(p)
  <2>1. Kept' \subseteq Kept /\ p \in Kept /\ p \notin Kept' /\ Unasked' = Unasked
        /\ Unborn' = Unborn
    BY <1>0, <1>3 DEF DeletePhoto, Kept, Unasked, Unborn, PhotosOK, Exists
  <2>2. Cardinality(Kept') < Cardinality(Kept)
    BY <2>1, SetShrinks DEF Kept
  <2>3. UNCHANGED <<Cardinality(Unborn), Cardinality(Unasked)>>
    BY <2>1
  <2> QED BY <2>2, <2>3, LexBy
<1> QED BY <1>1, <1>2, <1>3

\* A run brings no photo into being, and deletes none.
LEMMA RunKeepsPhotos ==
    ASSUME Inv, LoadPendingPhotos \/ RunStep \/ Crashes
    PROVE  /\ UNCHANGED <<Unborn, Unasked, Kept>>
           /\ \A p \in Photo : outcome'[p] = "pending" => outcome[p] = "pending"
PROOF
<1> USE DEF Inv, PhotosOK, RunOK, database, run
<1>1. UNCHANGED deleting
  BY DEF RunStep, LoadPendingPhotos, Crashes, PhotoFails, PhotoWithoutCrops, PhotoBuffered,
         FinishPhoto, FlushBatch, FailAwaiting, BatchFinished, NextPhoto, RunClustering,
         BreaksOnDeleted, Ends
<1> DEFINE Same == \A p \in Photo : /\ outcome'[p] = "absent" <=> outcome[p] = "absent"
                                    /\ outcome'[p] = "deleted" <=> outcome[p] = "deleted"
                                    /\ outcome'[p] = "pending" => outcome[p] = "pending"
<1>2. ASSUME UNCHANGED outcome PROVE Same
  BY <1>2
<1>3. ASSUME NEW p \in Photo, PhotoFails(p) \/ PhotoWithoutCrops(p) \/ FinishPhoto(p) PROVE Same
  BY <1>3 DEF PhotoFails, PhotoWithoutCrops, FinishPhoto, Finish, Exists
<1>4. ASSUME FailAwaiting PROVE Same
  BY <1>4 DEF FailAwaiting, Exists
<1>5. Same
  <2>1. CASE \E p \in Photo : PhotoFails(p) \/ PhotoWithoutCrops(p) \/ FinishPhoto(p)
    BY <1>3, <2>1
  <2>2. CASE ~ \E p \in Photo : PhotoFails(p) \/ PhotoWithoutCrops(p) \/ FinishPhoto(p)
    <3>1. UNCHANGED outcome \/ FailAwaiting
      BY <2>2
         DEF RunStep, LoadPendingPhotos, Crashes, PhotoBuffered, FlushBatch, BatchFinished,
             NextPhoto, RunClustering, BreaksOnDeleted, Ends
    <3> QED BY <1>2, <1>4, <3>1
  <2> QED BY <2>1, <2>2
<1> HIDE DEF Same
<1>6. UNCHANGED <<Unborn, Kept>> /\ UNCHANGED Unasked
  BY <1>1, <1>5 DEF Same, Unborn, Kept, Unasked
<1> QED BY <1>5, <1>6 DEF Same

\* A run that goes on takes nothing up that it had not loaded, and when it is over, all it had
\* loaded is decided.
LEMMA RunLeaves ==
    ASSUME Inv, Settling, InHand, RunStep
    PROVE  Breaking' \subseteq Breaking /\ (~BreaksOnDeleted => Unloaded' \subseteq Unloaded)
PROOF
<1> USE DEF Inv, PhotosOK, RunOK
<1>1. /\ UNCHANGED <<Unborn, Unasked, Kept>>
      /\ \A p \in Photo : outcome'[p] = "pending" => outcome[p] = "pending"
  BY RunKeepsPhotos
<1>2. phase # "idle" /\ UNCHANGED loaded
  BY DEF RunStep, PhotoFails, PhotoWithoutCrops, PhotoBuffered, IsNext, FinishPhoto, FlushBatch,
         FailAwaiting, FlushDue, BatchFinished, NextPhoto, RunClustering, BreaksOnDeleted, Ends
<1>3. Breaking' \subseteq Breaking
  BY <1>1, <1>2 DEF Breaking, Kept
<1>4. CASE RunClustering
  <2>1. \A p \in loaded : outcome[p] # "pending"
    BY <1>2, <1>4 DEF RunClustering, Settling, InHand
  <2> QED BY <1>1, <1>2, <1>3, <2>1 DEF Unloaded
<1>5. CASE ~RunClustering /\ ~BreaksOnDeleted
  <2>1. phase' # "idle"
    BY <1>5
       DEF RunStep, PhotoFails, PhotoWithoutCrops, PhotoBuffered, IsNext, FinishPhoto, FlushBatch,
           FailAwaiting, FlushDue, BatchFinished, NextPhoto
  <2> QED BY <1>1, <1>2, <1>3, <2>1 DEF Unloaded
<1> QED BY <1>3, <1>4, <1>5

\* A run takes up what is pending, its steps bring it to its end, and it breaks no more often
\* than processes die and photos are deleted under it.
LEMMA RunLessens ==
    ASSUME Inv, Inv', Settling, InHand, LoadPendingPhotos \/ RunStep \/ Crashes
    PROVE  LexLess(Remaining', Remaining)
PROOF
<1> USE DEF Remaining
<1>1. UNCHANGED <<Unborn, Unasked, Kept>>
  BY RunKeepsPhotos
<1>2. UNCHANGED <<Cardinality(Unborn), Cardinality(Unasked), Cardinality(Kept)>>
  BY <1>1
<1>3. CASE Crashes
  <2>1. MaxAborts - aborts' < MaxAborts - aborts
    BY <1>3, BulkAssumption DEF Crashes, Inv, RunOK
  <2> QED BY <1>2, <2>1, LexBy
<1>4. CASE LoadPendingPhotos
  <2>1. UNCHANGED <<outcome, aborts>> /\ phase = "idle" /\ loaded' = Pending /\ phase' # "idle"
    BY <1>4 DEF LoadPendingPhotos
  <2>2. Breaking' = Breaking
    BY <2>1 DEF Breaking, Pending
  <2>3. Unloaded' = {} /\ Unloaded # {}
    BY <1>4, <2>1 DEF Unloaded, Pending, LoadPendingPhotos
  <2>4. Cardinality(Unloaded') < Cardinality(Unloaded)
    BY <2>3, SetShrinks DEF Unloaded
  <2>5. UNCHANGED <<Cardinality(Breaking), MaxAborts - aborts>>
    BY <2>1, <2>2
  <2> QED BY <1>2, <2>4, <2>5, LexBy
<1>5. CASE RunStep
  <2>1. UNCHANGED aborts
    BY <1>5 DEF RunStep, PhotoFails, PhotoWithoutCrops, PhotoBuffered, FinishPhoto, FlushBatch,
         FailAwaiting, BatchFinished, NextPhoto, RunClustering, BreaksOnDeleted
  <2>2. UNCHANGED (MaxAborts - aborts)
    BY <2>1
  <2>3. Breaking' \subseteq Breaking
    BY <1>5, RunLeaves
  <2>4. CASE Breaking' # Breaking
    <3>1. Cardinality(Breaking') < Cardinality(Breaking)
      BY <2>3, <2>4, SetShrinks DEF Breaking
    <3> QED BY <1>2, <2>2, <3>1, LexBy
  <2>5. CASE Breaking' = Breaking
    <3>1. Cardinality(Breaking') = Cardinality(Breaking)
      BY <2>5
    <3>2. ~BreaksOnDeleted
      <4> SUFFICES ASSUME BreaksOnDeleted PROVE FALSE
        OBVIOUS
      <4>1. PICK p \in Touched : ~Exists(p)
        BY DEF BreaksOnDeleted
      <4>2. p \in todo \cup awaiting /\ p \in loaded /\ p \in Photo
        BY <4>1 DEF Touched, Inv, RunOK
      <4>3. outcome[p] = "deleted"
        BY <4>1, <4>2 DEF Inv, Waiting, Exists
      <4>4. phase # "idle" /\ phase' = "idle" /\ outcome' = outcome
        BY DEF BreaksOnDeleted, Ends, database
      <4>5. p \in Breaking /\ p \notin Breaking'
        BY <4>2, <4>3, <4>4 DEF Breaking
      <4> QED BY <2>5, <4>5
    <3>3. Unloaded' \subseteq Unloaded
      BY <1>5, <3>2, RunLeaves
    <3>4. CASE Unloaded' # Unloaded
      <4>1. Cardinality(Unloaded') < Cardinality(Unloaded)
        BY <3>3, <3>4, SetShrinks DEF Unloaded
      <4> QED BY <1>2, <2>2, <3>1, <4>1, LexBy
    <3>5. CASE Unloaded' = Unloaded
      <4>1. Cardinality(Unloaded') = Cardinality(Unloaded)
        BY <3>5
      <4>2. Effort' < Effort
        BY <1>5, StepShortens
      <4> QED BY <1>2, <2>2, <3>1, <4>1, <4>2, LexBy
    <3> QED BY <3>4, <3>5
  <2> QED BY <2>4, <2>5
<1> QED BY <1>3, <1>4, <1>5

\* Whatever is uploaded, deleted or crashes, what bulk processing (ml/pipeline.py) can still do
\* becomes less with every step, in the order of natural numbers taken place by place, which has
\* no infinite descent: no photo is loaded over and over.
THEOREM WorkRunsOut == Spec => [](Remaining \in [1..7 -> Nat]) /\ WorkLessens
PROOF
<1> DEFINE IInv == Inv /\ Settling /\ InHand
<1>1. Init => IInv
  BY InitInv DEF Init, Settling, InHand
<1>2. IInv /\ [Next]_vars => IInv'
  BY NextInv, SettlingStep, InHandStep
<1>3. IInv => Remaining \in [1..7 -> Nat]
  BY RemainingIsNat
<1>4. IInv /\ IInv' /\ [Next]_vars => [LexLess(Remaining', Remaining)]_vars
  BY OutsideLessens, RunLessens DEF Next
<1> QED BY <1>1, <1>2, <1>3, <1>4, PTL DEF Spec, WorkLessens

-----------------------------------------------------------------------------
(* The host of the workers (GpuHost). *)

\* The runs that a stop would take with it now began after the check had read the locks.
RunsAreRaced ==
    stop \in {"queue", "timer", "stops"} \/ host = "stopping" => running \subseteq raced

\* A run needs a host, and has the lock that the check reads.
RunsAreSeen ==
    /\ running # {} => host \in {"running", "stopping"}
    /\ \A e \in running : lock[e] > 0

\* The inductive invariant.
HostIInv == HostTypeOK /\ RunsAreSeen /\ RunsAreRaced /\ KillsOnlyRacing

\* Every step of the host, its callers and its workers keeps the types.
LEMMA HostTypeStep ==
    ASSUME HostTypeOK, [HostNext]_hostVars
    PROVE  HostTypeOK'
PROOF
<1> USE HostAssumption
    DEF HostTypeOK, jobs, runs, watch, machine, beats, bounds, history
<1>1. ASSUME HostNext PROVE HostTypeOK'
  <2>1. CASE Boots
    BY <2>1 DEF Boots
  <2>2. CASE Halts
    <3>1. queue' \in [Event -> 0..MaxJobs]
      BY <2>2 DEF Halts, Plus
    <3>2. counting' = [e \in Event |-> 0] /\ due' = [e \in Event |-> 0]
      BY <2>2 DEF Halts
    <3>3. {queue, counting, due}' \subseteq [Event -> 0..MaxJobs]
      BY <3>1, <3>2
    <3> QED BY <2>2, <3>3 DEF Halts
  <2>3. CASE TaskBegins
    BY <2>3 DEF TaskBegins, Ensure
  <2>4. CASE RecRequeues
    BY <2>4 DEF RecRequeues, Plus
  <2>5. CASE StopDescribes
    BY <2>5 DEF StopDescribes
  <2>6. CASE StopSeesLocks
    BY <2>6 DEF StopSeesLocks, StopUnchanged
  <2>7. CASE StopSeesQueue
    BY <2>7 DEF StopSeesQueue, StopUnchanged
  <2>8. CASE StopReadsTimer
    BY <2>8 DEF StopReadsTimer, StopUnchanged
  <2>9. CASE StopStops
    BY <2>9 DEF StopStops, StopUnchanged
  <2>10. CASE StopClears
    BY <2>10 DEF StopClears, StopUnchanged
  <2>11. CASE StopErrs
    BY <2>11 DEF StopErrs, Fault
  <2>12. CASE Tick
    BY <2>12 DEF Tick, Plus, Older, Less
  <2>13. ASSUME NEW e \in Event, StartRequest(e) PROVE HostTypeOK'
    BY <2>13 DEF StartRequest, Plus
  <2>14. ASSUME NEW e \in Event, RunBegins(e) PROVE HostTypeOK'
    BY <2>14 DEF RunBegins, Takes
  <2>15. ASSUME NEW e \in Event, RunRefused(e) PROVE HostTypeOK'
    BY <2>15 DEF RunRefused, Takes, Plus
  <2>16. ASSUME NEW e \in Event, RunEnds(e) PROVE HostTypeOK'
    BY <2>16 DEF RunEnds
  <2>17. ASSUME NEW e \in Event, RunFails(e) PROVE HostTypeOK'
    BY <2>17 DEF RunFails, Fault
  <2>18. ASSUME NEW e \in Event, RecHealthy(e) PROVE HostTypeOK'
    BY <2>18 DEF RecHealthy, Looks
  <2>19. ASSUME NEW e \in Event, RecGivesUp(e) PROVE HostTypeOK'
    BY <2>19 DEF RecGivesUp, Looks
  <2>20. ASSUME NEW e \in Event, RecRecovers(e) PROVE HostTypeOK'
    BY <2>20 DEF RecRecovers, Looks, Ensure
  <2>21. ASSUME NEW x \in Starter, EnsureDescribes(x) PROVE HostTypeOK'
    BY <2>21 DEF EnsureDescribes, Ensure
  <2>22. ASSUME NEW x \in Starter, EnsureWaits(x) PROVE HostTypeOK'
    BY <2>22 DEF EnsureWaits, Ensure
  <2>23. ASSUME NEW x \in Starter, EnsureStarts(x) PROVE HostTypeOK'
    BY <2>23 DEF EnsureStarts, Ensure
  <2>24. ASSUME NEW x \in Starter, EnsureBoots(x) PROVE HostTypeOK'
    BY <2>24 DEF EnsureBoots, Ensure
  <2>25. ASSUME NEW x \in Starter, EnsureGivesUp(x) PROVE HostTypeOK'
    BY <2>25 DEF EnsureGivesUp, Ensure
  <2>26. ASSUME NEW x \in Starter, EnsureClears(x) PROVE HostTypeOK'
    BY <2>26 DEF EnsureClears, Ensure
  <2>27. ASSUME NEW x \in Starter, EnsureErrs(x) PROVE HostTypeOK'
    BY <2>27 DEF EnsureErrs, Fault, Ensure
  <2> QED
    BY <1>1, <2>1, <2>2, <2>3, <2>4, <2>5, <2>6, <2>7, <2>8, <2>9, <2>10, <2>11, <2>12, <2>13,
       <2>14, <2>15, <2>16, <2>17, <2>18, <2>19, <2>20, <2>21, <2>22, <2>23, <2>24, <2>25, <2>26,
       <2>27
       DEF HostNext, HostStep, WorkerStep, TaskStep, RecStep, EnsureStep, StopStep, Starter
<1>2. CASE UNCHANGED hostVars
  BY <1>2 DEF hostVars
<1> QED
  BY <1>1, <1>2

\* Runs stay seen by the check, or known to have begun behind its back.
LEMMA HostStepKeeps ==
    ASSUME HostIInv, [HostNext]_hostVars
    PROVE  (RunsAreSeen /\ RunsAreRaced /\ KillsOnlyRacing)'
PROOF
<1>0. HostTypeOK /\ RunsAreSeen /\ RunsAreRaced /\ KillsOnlyRacing
  BY DEF HostIInv
<1> DEFINE Goal == RunsAreSeen /\ RunsAreRaced /\ KillsOnlyRacing
<1>t. /\ lock \in [Event -> 0..LockTtl] /\ LockTtl \in Nat \ {0} /\ running \subseteq Event
      /\ host \in {"stopped", "pending", "running", "stopping"}
  BY <1>0, HostAssumption DEF HostTypeOK
<1> USE DEF RunsAreSeen, RunsAreRaced, KillsOnlyRacing,
            jobs, runs, watch, machine, beats, bounds, history
<1>1. ASSUME NEW e \in Event, RunBegins(e) PROVE Goal'
  BY <1>0, <1>t, <1>1 DEF RunBegins, Takes
<1>2. ASSUME NEW e \in Event, RunEnds(e) \/ RunFails(e) PROVE Goal'
  <2>1. running' = running \ {e} /\ lock' \in {lock, [lock EXCEPT ![e] = 0]}
    BY <1>2 DEF RunEnds, RunFails
  <2>2. UNCHANGED <<host, stop, raced, killed>>
    BY <1>2 DEF RunEnds, RunFails
  <2> QED BY <1>0, <1>t, <2>1, <2>2
<1>3. CASE Boots
  BY <1>0, <1>3 DEF Boots
<1>4. CASE Halts
  BY <1>0, <1>4 DEF Halts
<1>5. ASSUME NEW x \in Starter, EnsureStarts(x) PROVE Goal'
  BY <1>0, <1>5 DEF EnsureStarts, Ensure
<1>6. CASE StopSeesLocks
  BY <1>0, <1>t, <1>6 DEF StopSeesLocks, StopUnchanged
<1>7. CASE StopDescribes \/ StopSeesQueue \/ StopReadsTimer \/ StopClears \/ StopErrs
  <2>1. UNCHANGED <<host, running, lock, raced, killed>>
    BY <1>7 DEF StopDescribes, StopSeesQueue, StopReadsTimer, StopClears, StopErrs, StopUnchanged
  <2>2. stop' \in {"queue", "timer", "stops"} => stop \in {"queue", "timer", "stops"}
    BY <1>7 DEF StopDescribes, StopSeesQueue, StopReadsTimer, StopClears, StopErrs
  <2> QED BY <1>0, <2>1, <2>2
<1>8. CASE StopStops
  BY <1>0, <1>8 DEF StopStops, StopUnchanged
<1>9. CASE Tick
  <2>1. stop' = "off" /\ (host' = "stopping" => raced' = raced)
        /\ UNCHANGED <<host, running, killed>>
    BY <1>9 DEF Tick, Prompt
  <2>2. \A e \in running : lock'[e] = LockTtl
    BY <1>t, <1>9 DEF Tick
  <2> QED BY <1>0, <1>t, <2>1, <2>2
<1>10. ASSUME UNCHANGED <<host, stop, running, lock, raced, killed>> PROVE Goal'
  BY <1>0, <1>10
<1>11. ASSUME NEW e \in Event,
              \/ StartRequest(e) \/ RunRefused(e)
              \/ RecHealthy(e) \/ RecGivesUp(e) \/ RecRecovers(e)
       PROVE  UNCHANGED <<host, stop, running, lock, raced, killed>>
  BY <1>11 DEF StartRequest, RunRefused, RecHealthy, RecGivesUp, RecRecovers
<1>12. ASSUME NEW x \in Starter,
              \/ EnsureDescribes(x) \/ EnsureWaits(x) \/ EnsureBoots(x) \/ EnsureGivesUp(x)
              \/ EnsureClears(x) \/ EnsureErrs(x)
       PROVE  UNCHANGED <<host, stop, running, lock, raced, killed>>
  BY <1>12 DEF EnsureDescribes, EnsureWaits, EnsureBoots, EnsureGivesUp, EnsureClears, EnsureErrs
<1>13. ASSUME TaskBegins \/ RecRequeues \/ UNCHANGED hostVars
       PROVE  UNCHANGED <<host, stop, running, lock, raced, killed>>
  BY <1>13 DEF TaskBegins, RecRequeues, hostVars
<1> QED
  BY <1>1, <1>2, <1>3, <1>4, <1>5, <1>6, <1>7, <1>8, <1>9, <1>10, <1>11, <1>12, <1>13
     DEF HostNext, HostStep, WorkerStep, TaskStep, RecStep, EnsureStep, StopStep, Starter

\* A host that is stopped runs nothing.
LEMMA HostStarts == HostInit => HostIInv
PROOF
<1> SUFFICES ASSUME HostInit PROVE HostIInv
  OBVIOUS
<1> USE HostAssumption DEF HostInit
<1>1. {queue, counting, due} \subseteq [Event -> 0..MaxJobs]
  <2>1. queue \in [Event -> 0..MaxJobs]
    OBVIOUS
  <2> QED BY <2>1
<1>2. /\ pend \in [Event -> BOOLEAN] /\ beaten \in [Event -> BOOLEAN]
      /\ status \in [Event -> {"processing", "open"}]
      /\ lock \in [Event -> 0..LockTtl] /\ quiet \in [Event -> 0..StallAfter]
      /\ requeued \in [Event -> 0..RequeueAfter]
  OBVIOUS
<1>3. /\ ensure \in [Starter -> {"off", "asks", "waits", "starts", "boots", "clears"}]
      /\ starts \in 0..MaxStarts /\ faults \in 0..MaxFaults
  OBVIOUS
<1>4. /\ host \in {"stopped", "pending", "running", "stopping"} /\ slow \in BOOLEAN
      /\ idle \in 0..IdleAfter \cup {None} /\ asked \in BOOLEAN
      /\ stop \in {"off", "locks", "queue", "timer", "stops", "clears"}
      /\ rec \in Event \cup {None}
      /\ running = {} /\ ahead = {} /\ raced = {} /\ killed = {} /\ reverted = {}
  OBVIOUS
<1>5. HostTypeOK
  BY ONLY <1>1, <1>2, <1>3, <1>4 DEF HostTypeOK
<1> QED BY <1>5 DEF HostIInv, RunsAreSeen, RunsAreRaced, KillsOnlyRacing

\* The host, its timer, the list of the queue, the locks and the callers of ensure_running and
\* stop_if_idle are always in the states of the code, for every number of events and every bound.
THEOREM HostTypeCorrect == HostSpec => []HostTypeOK
PROOF
<1>1. HostTypeOK /\ [HostNext]_hostVars => HostTypeOK'
  BY HostTypeStep
<1>2. HostInit => HostTypeOK
  BY HostStarts DEF HostIInv
<1> QED BY <1>1, <1>2, PTL DEF HostSpec

\* stop_if_idle (gpu_host_service.py) takes a live run with the host only when that run began
\* after the check had read the locks, whatever fails and however long anything takes.
THEOREM StopKillsOnlyRacing == HostSpec => []KillsOnlyRacing
PROOF
<1>1. HostIInv /\ [HostNext]_hostVars => HostIInv'
  BY HostTypeStep, HostStepKeeps DEF HostIInv
<1>2. HostIInv => KillsOnlyRacing
  BY DEF HostIInv
<1> QED BY HostStarts, <1>1, <1>2, PTL DEF HostSpec

-----------------------------------------------------------------------------
(* GpuHost, and the time that the reconciler has.  An event whose run is gone comes to a new    *)
(* one in a few ticks: Lateness counts them from where nothing can look alive any more, Stages  *)
(* says how far the event is after each of them, and a fault sends it back to the start.        *)

\* How long what is gone can look alive: a run to its lock or its heartbeat, a message to the
\* debounce key of its requeue.
Lease == CHOOSE n \in {LockTtl, FreshAfter, RequeueAfter} :
             \A m \in {LockTtl, FreshAfter, RequeueAfter} : m <= n

\* Ticks that a watch has gone on after that.  Every fault buys six more.
Lateness(e) == quiet[e] - (Lease + 6 * faults)

HostIsUp == host \in {"pending", "running"}

Recovery == ensure["reconciler"]

\* The event is in work and no run has it.
Stranded(e) == status[e] = "processing" /\ e \notin running

\* Its message is at a live worker, and the check cannot stop the host without seeing it.
Reached(e) == host = "running" /\ queue[e] > 0 /\ stop \notin {"timer", "stops"}

\* The timer is at most n old, or is about to be cleared.
Young(n) == stop # "stops" /\ (idle \in 0..n \cup {None} \/ stop = "clears")

\* How the parts of the program hold together whatever fails.
HostTies ==
    /\ stop \in {"locks", "queue", "timer", "stops"} => host = "running"
    /\ Recovery # "off" => rec # None
    /\ \A e \in Event : lock[e] > 0 => lock[e] + quiet[e] <= LockTtl
    /\ \A e \in running : quiet[e] = 0
    /\ \A e \in Event :
          requeued[e] > 0 => \/ requeued[e] + quiet[e] <= RequeueAfter
                             \/ lock[e] = 0 /\ (Stranded(e) => queue[e] > 0)

\* The timer of a host that is not running is cleared, or the next check will clear it.
TimerIsSeen == host # "running" => idle = None \/ stop # "off" \/ "stop" \in ahead

\* It is cleared, and no idle stop can cross the reconciler's way through ensure_running.
HostIsCalm ==
    /\ host # "running" => idle = None \/ stop = "clears"
    /\ Recovery \in {"waits", "starts", "boots"} => Young(0)
    /\ Recovery = "boots" => HostIsUp
    /\ Recovery = "starts" => host # "stopping"

\* What has become of a stranded event, from one tick to the next.
Stages(e) ==
    /\ Lateness(e) >= -1 => TimerIsSeen
    /\ Lateness(e) >= 0 =>
        /\ HostIsCalm
        /\ queue[e] = 0 /\ e \notin ahead /\ rec # e => HostIsUp /\ Young(0)
    /\ Lateness(e) >= 1 /\ queue[e] = 0 => Young(1) /\ (host = "stopping" => slow)
    /\ Lateness(e) >= 2 /\ queue[e] = 0 =>
        /\ Lateness(e) = 2 /\ Recovery # "waits" /\ (e \in ahead \/ rec = e)
        /\ host = "running" \/ (host = "pending" /\ slow)
    /\ Lateness(e) >= 3 =>
        /\ queue[e] > 0 /\ stop \notin {"timer", "stops"} /\ (host = "stopping" => slow)
        /\ ~HostIsUp /\ e \notin ahead => Recovery \in {"asks", "waits", "starts"}
    /\ Lateness(e) >= 4 => host = "pending" /\ slow
    /\ Lateness(e) < 5

\* Until more than n calls or processes have failed, nothing is given up.
Survives(n) == faults <= n => reverted = {}

\* Until then a stranded event is reached in time, and each fault costs it six ticks at most.
Timely(n) == faults <= n => \A e \in Event :
                 Stranded(e) => Reached(e) \/ quiet[e] < Lease + 5 + 6 * faults

RecoveryIInv(n) ==
    /\ HostTypeOK /\ HostTies
    /\ faults = 0 => HostIsCalm
    /\ faults <= n => \A e \in Event : Stranded(e) /\ ~Reached(e) => Stages(e)
    /\ Survives(n)

\* What the reconciler needs to make good n faults: a timer that outlives the check that starts
\* it, and for each fault six ticks in which nothing can look alive, besides five.
Slack(n) == IdleAfter >= 2 /\ StallAfter >= Lease + 5 + 6 * n

\* The types that the steps below use.
LEMMA HostKinds ==
    ASSUME HostTypeOK
    PROVE  /\ host \in {"stopped", "pending", "running", "stopping"} /\ slow \in BOOLEAN
           /\ idle \in 0..IdleAfter \cup {None}
           /\ queue \in [Event -> Nat]
           /\ running \subseteq Event /\ lock \in [Event -> 0..LockTtl]
           /\ status \in [Event -> {"processing", "open"}]
           /\ quiet \in [Event -> 0..StallAfter] /\ beaten \in [Event -> BOOLEAN]
           /\ ensure \in [Starter -> {"off", "asks", "waits", "starts", "boots", "clears"}]
           /\ stop \in {"off", "locks", "queue", "timer", "stops", "clears"}
           /\ rec \in Event \cup {None} /\ requeued \in [Event -> 0..RequeueAfter]
           /\ ahead \subseteq Event \cup {"stop"} /\ faults \in Nat /\ MaxJobs \in Nat \ {0}
           /\ LockTtl \in Nat \ {0} /\ IdleAfter \in Nat \ {0} /\ FreshAfter \in Nat \ {0}
           /\ StallAfter \in Nat \ {0} /\ RequeueAfter \in Nat \ {0}
           /\ None \notin Event /\ None \notin Nat /\ "stop" \notin Event
PROOF
<1>1. queue \in [Event -> 0..MaxJobs]
  BY DEF HostTypeOK
<1>2. MaxJobs \in Nat \ {0}
  BY HostAssumption
<1>3. queue \in [Event -> Nat]
  BY <1>1, <1>2
<1> QED BY <1>2, <1>3, HostAssumption DEF HostTypeOK

\* Nothing looks alive for longer.
LEMMA LeaseBounds ==
    /\ Lease \in Nat \ {0}
    /\ Lease >= LockTtl /\ Lease >= FreshAfter /\ Lease >= RequeueAfter
PROOF
<1> DEFINE Lives == {LockTtl, FreshAfter, RequeueAfter}
<1>1. Lives \subseteq Nat \ {0}
  BY HostAssumption
<1>2. \E n \in Lives : \A m \in Lives : m <= n
  <2>1. CASE LockTtl >= FreshAfter /\ LockTtl >= RequeueAfter
    BY <1>1, <2>1
  <2>2. CASE FreshAfter >= LockTtl /\ FreshAfter >= RequeueAfter
    BY <1>1, <2>2
  <2>3. CASE RequeueAfter >= LockTtl /\ RequeueAfter >= FreshAfter
    BY <1>1, <2>3
  <2> QED BY <1>1, <2>1, <2>2, <2>3
<1>3. Lease \in Lives /\ \A m \in Lives : m <= Lease
  BY <1>2 DEF Lease
<1> QED BY <1>1, <1>3

\* The timer of a host is calm as long as nothing fails.
LEMMA CalmStep ==
    ASSUME HostTypeOK, HostTies, HostIsCalm, IdleAfter >= 2, HostNext, faults' = faults
    PROVE  HostIsCalm'
PROOF
<1> USE HostKinds DEF HostTies, HostIsCalm, Recovery, Young, HostIsUp
<1>1. CASE Boots
  BY <1>1 DEF Boots
<1>2. CASE Halts
  BY <1>2 DEF Halts
<1>3. ASSUME NEW x \in Starter, EnsureDescribes(x) PROVE HostIsCalm'
  BY <1>3 DEF EnsureDescribes, Ensure, Starter, machine
<1>4. ASSUME NEW x \in Starter, EnsureWaits(x) PROVE HostIsCalm'
  BY <1>4 DEF EnsureWaits, Ensure, Starter, machine
<1>5. ASSUME NEW x \in Starter, EnsureStarts(x) PROVE HostIsCalm'
  BY <1>5 DEF EnsureStarts, Ensure, Starter, machine
<1>6. ASSUME NEW x \in Starter, EnsureBoots(x) \/ EnsureGivesUp(x) PROVE HostIsCalm'
  BY <1>6 DEF EnsureBoots, EnsureGivesUp, Ensure, Starter, machine
<1>7. ASSUME NEW x \in Starter, EnsureClears(x) PROVE HostIsCalm'
  BY <1>7 DEF EnsureClears, Ensure, Starter, machine
<1>8. CASE StopDescribes \/ StopSeesLocks \/ StopSeesQueue \/ StopClears
  BY <1>8 DEF StopDescribes, StopSeesLocks, StopSeesQueue, StopClears, StopUnchanged, machine
<1>9. CASE StopReadsTimer
  BY <1>9 DEF StopReadsTimer, StopUnchanged, machine
<1>10. CASE StopStops
  BY <1>10 DEF StopStops, StopUnchanged, machine
<1>11. CASE Tick
  <2>1. stop = "off" /\ UNCHANGED <<host, ensure, stop>> /\ (idle = None => idle' = None)
    BY <1>11 DEF Tick, Prompt
  <2>2. \/ Recovery = "off"
        \/ Recovery = "waits" /\ host = "stopping"
        \/ Recovery = "boots" /\ host = "pending"
    BY <1>11 DEF Tick, Prompt, Starter
  <2>3. host # "running" => idle' = None
    BY <2>1
  <2>4. Recovery' \in {"waits", "starts", "boots"} => host # "running"
    BY <2>1, <2>2
  <2>5. Recovery' = "boots" => host = "pending"
    BY <2>1, <2>2
  <2>6. Recovery' # "starts"
    BY <2>1, <2>2
  <2> QED BY ONLY <2>1, <2>3, <2>4, <2>5, <2>6 DEF HostIsCalm, Young, HostIsUp
<1>12. ASSUME NEW e \in Event, RecRecovers(e) PROVE HostIsCalm'
  BY <1>12 DEF RecRecovers, Ensure, Starter, machine
<1>13. CASE TaskBegins
  BY <1>13 DEF TaskBegins, Ensure, Starter, machine
<1>14. ASSUME NEW e \in Event,
              \/ StartRequest(e) \/ RunBegins(e) \/ RunRefused(e) \/ RunEnds(e)
              \/ RecHealthy(e) \/ RecGivesUp(e)
       PROVE  HostIsCalm'
  BY <1>14 DEF StartRequest, RunBegins, RunRefused, RunEnds, RecHealthy, RecGivesUp, machine
<1>15. CASE RecRequeues
  BY <1>15 DEF RecRequeues, machine
<1>16. ASSUME Fault PROVE FALSE
  BY <1>16 DEF Fault
<1>17. ASSUME NEW e \in Event, RunFails(e) PROVE FALSE
  BY <1>16, <1>17 DEF RunFails
<1>18. ASSUME NEW x \in Starter, EnsureErrs(x) PROVE FALSE
  BY <1>16, <1>18 DEF EnsureErrs
<1>19. CASE StopErrs
  BY <1>16, <1>19 DEF StopErrs
<1> QED
  BY <1>1, <1>2, <1>3, <1>4, <1>5, <1>6, <1>7, <1>8, <1>9, <1>10, <1>11, <1>12, <1>13, <1>14,
     <1>15, <1>17, <1>18, <1>19
     DEF HostNext, HostStep, WorkerStep, TaskStep, RecStep, EnsureStep, StopStep, Starter

\* The ties hold after every step, those that fail among them.
LEMMA TiesStep ==
    ASSUME HostTypeOK, HostTies, HostNext
    PROVE  HostTies'
PROOF
<1> USE HostKinds DEF HostTies, Recovery, Stranded
<1>1. CASE Boots
  BY <1>1 DEF Boots, runs, watch, jobs, beats
<1>2. CASE Halts
  <2>1. \A e \in Event : queue'[e] \in Nat /\ queue'[e] >= queue[e]
    BY <1>2 DEF Halts, Plus
  <2>2. /\ running' = {} /\ stop' \in {"off", "clears"}
        /\ UNCHANGED <<lock, quiet, ensure, rec, status, requeued>>
    BY <1>2 DEF Halts, beats, watch
  <2> QED BY <2>1, <2>2
<1>3. ASSUME NEW x \in Starter,
             \/ EnsureDescribes(x) \/ EnsureWaits(x) \/ EnsureStarts(x) \/ EnsureBoots(x)
             \/ EnsureGivesUp(x) \/ EnsureClears(x) \/ EnsureErrs(x)
      PROVE  HostTies'
  <2>1. UNCHANGED <<lock, quiet, running, stop, status, requeued, queue>>
    BY <1>3 DEF EnsureDescribes, EnsureWaits, EnsureStarts, EnsureBoots, EnsureGivesUp,
                EnsureClears, EnsureErrs, runs, watch, jobs, beats
  <2>2. host = "running" => host' = "running"
    BY <1>3 DEF EnsureDescribes, EnsureWaits, EnsureStarts, EnsureBoots, EnsureGivesUp,
                EnsureClears, EnsureErrs, machine
  <2>3. Recovery' # "off" => rec' # None
    BY <1>3 DEF EnsureDescribes, EnsureWaits, EnsureStarts, EnsureBoots, EnsureGivesUp,
                EnsureClears, EnsureErrs, Ensure, Starter, beats
  <2> QED BY <2>1, <2>2, <2>3
<1>4. CASE StopStep \/ StopErrs
  BY <1>4 DEF StopStep, StopDescribes, StopSeesLocks, StopSeesQueue, StopReadsTimer, StopStops,
              StopClears, StopErrs, StopUnchanged, machine, runs, watch, jobs, beats
<1>5. CASE Tick
  <2>1. stop' = "off" /\ UNCHANGED <<ensure, rec, running, queue, status>>
    BY <1>5 DEF Tick, Prompt
  <2>2. \A e \in running : quiet'[e] = 0
    BY <1>5 DEF Tick
  <2>3. \A e \in Event : lock'[e] > 0 => lock'[e] + quiet'[e] <= LockTtl
    <3> TAKE e \in Event
    <3>1. CASE e \in running
      BY <1>5, <3>1 DEF Tick
    <3>2. CASE e \notin running
      <4>1. lock'[e] = IF lock[e] > 0 THEN lock[e] - 1 ELSE 0
        BY <1>5, <3>2 DEF Tick, Less
      <4>2. quiet'[e] \in {0, quiet[e], quiet[e] + 1}
        BY <1>5, <3>2 DEF Tick, Older
      <4> QED BY <4>1, <4>2
    <3> QED BY <3>1, <3>2
  <2>4. ASSUME NEW e \in Event, requeued'[e] > 0
        PROVE  \/ requeued'[e] + quiet'[e] <= RequeueAfter
               \/ lock'[e] = 0 /\ (Stranded(e)' => queue'[e] > 0)
    <3>1. requeued[e] > 0 /\ requeued'[e] = requeued[e] - 1
      BY <1>5, <2>4 DEF Tick, Less
    <3>2. CASE e \in running
      BY <1>5, <3>1, <3>2 DEF Tick
    <3>3. CASE e \notin running
      <4>1. quiet'[e] \in {0, quiet[e], quiet[e] + 1}
        BY <1>5, <3>3 DEF Tick, Older
      <4>2. lock[e] = 0 => lock'[e] = 0
        BY <1>5, <3>3 DEF Tick, Less
      <4> QED BY <2>1, <3>1, <4>1, <4>2
    <3> QED BY <3>2, <3>3
  <2> QED BY <2>1, <2>2, <2>3, <2>4
<1>6. ASSUME NEW e \in Event, StartRequest(e) PROVE HostTies'
  BY <1>6 DEF StartRequest, Plus, machine, runs, beats
<1>7. ASSUME NEW e \in Event, RunBegins(e) PROVE HostTies'
  BY <1>7 DEF RunBegins, Takes, machine, beats
<1>8. ASSUME NEW e \in Event, RunRefused(e) PROVE HostTies'
  BY <1>8 DEF RunRefused, Takes, machine, beats, runs, watch
<1>9. ASSUME NEW e \in Event, RunEnds(e) \/ RunFails(e) PROVE HostTies'
  BY <1>9 DEF RunEnds, RunFails, machine, beats, jobs, watch
<1>10. ASSUME NEW e \in Event, RecHealthy(e) \/ RecGivesUp(e) \/ RecRecovers(e) PROVE HostTies'
  BY <1>10 DEF RecHealthy, RecGivesUp, RecRecovers, Looks, Ensure, Starter, machine, jobs, runs,
               watch
<1>11. CASE TaskBegins
  BY <1>11 DEF TaskBegins, Ensure, Starter, machine, beats, jobs, runs, watch
<1>12. CASE RecRequeues
  <2>1. /\ rec \in Event /\ rec' = None /\ Recovery = "off"
        /\ UNCHANGED <<host, stop, ensure, lock, quiet, running, status>>
    BY <1>12 DEF RecRequeues, machine, runs, watch
  <2>2. ASSUME NEW e \in Event, requeued'[e] > 0
        PROVE  \/ requeued'[e] + quiet'[e] <= RequeueAfter
               \/ lock'[e] = 0 /\ (Stranded(e)' => queue'[e] > 0)
    <3>1. queue'[e] \in Nat /\ queue'[e] >= queue[e]
      BY <1>12 DEF RecRequeues, Plus
    <3>2. requeued'[e] = requeued[e] \/ (lock[e] = 0 /\ queue'[e] > 0)
      BY <1>12, <2>1 DEF RecRequeues, Plus
    <3> QED BY <2>1, <2>2, <3>1, <3>2
  <2> QED BY <2>1, <2>2
<1> QED
  BY <1>1, <1>2, <1>3, <1>4, <1>5, <1>6, <1>7, <1>8, <1>9, <1>10, <1>11, <1>12
     DEF HostNext, HostStep, WorkerStep, TaskStep, RecStep, EnsureStep, Starter

\* An event that is not late yet asks for little.
LEMMA StagesEarly ==
    ASSUME HostTypeOK', faults' = 0 => HostIsCalm', NEW e \in Event,
           quiet'[e] < Lease \/ quiet'[e] < Lease + 6 * faults' - 1
    PROVE  Stages(e)'
PROOF
<1>1. quiet'[e] \in Nat /\ Lease \in Nat /\ Lateness(e)' \in Int /\ faults' \in Nat
  BY LeaseBounds, HostAssumption DEF HostTypeOK, Lateness
<1>2. Lateness(e)' <= -1 /\ (faults' # 0 => Lateness(e)' < -1)
  BY <1>1 DEF Lateness
<1>3. faults' = 0 => TimerIsSeen'
  BY DEF HostIsCalm, TimerIsSeen
<1> QED BY <1>1, <1>2, <1>3 DEF Stages

\* Without a fault and without a tick, an event that is late stays as far as it has come.
LEMMA StagesKept ==
    ASSUME HostTypeOK, HostTies, IdleAfter >= 2, HostNext, ~Tick, faults' = faults,
           HostIsCalm => HostIsCalm', NEW e \in Event,
           Stranded(e), ~Reached(e), Stages(e), Stranded(e)', ~Reached(e)',
           quiet'[e] = quiet[e], quiet[e] >= Lease
    PROVE  Stages(e)'
PROOF
<1>1. /\ Lateness(e)' = Lateness(e) /\ Lateness(e) \in Int /\ lock[e] = 0
      /\ (requeued[e] > 0 => queue[e] > 0) /\ quiet[e] >= FreshAfter
      /\ queue[e] \in Nat
  BY HostKinds, LeaseBounds DEF HostTies, Lateness
<1>2. e # "stop" /\ e # None /\ IdleAfter >= 2
  BY HostKinds
<1> USE <1>1, <1>2, HostKinds DEF Stages, Stranded, Reached, TimerIsSeen, Young, HostIsUp, Recovery
<1>3. CASE Boots
  BY <1>3 DEF Boots, HostTies, HostIsCalm, jobs, beats
<1>4. CASE Halts
  <2>1. queue'[e] \in Nat /\ queue'[e] >= queue[e]
    BY <1>4 DEF Halts, Plus
  <2> QED BY <1>4, <2>1 DEF Halts, HostTies, beats
<1>5. ASSUME NEW x \in Starter, EnsureDescribes(x) PROVE Stages(e)'
  BY <1>5 DEF EnsureDescribes, Ensure, Starter, HostIsCalm, HostTies, machine, beats, jobs
<1>6. ASSUME NEW x \in Starter, EnsureWaits(x) PROVE Stages(e)'
  BY <1>6 DEF EnsureWaits, Ensure, Starter, HostIsCalm, HostTies, machine, beats, jobs
<1>7. ASSUME NEW x \in Starter, EnsureStarts(x) PROVE Stages(e)'
  BY <1>7 DEF EnsureStarts, Ensure, Starter, HostIsCalm, HostTies, machine, beats, jobs
<1>8. ASSUME NEW x \in Starter, EnsureBoots(x) PROVE Stages(e)'
  BY <1>8 DEF EnsureBoots, Ensure, Starter, HostIsCalm, HostTies, machine, beats, jobs
<1>9. ASSUME NEW x \in Starter, EnsureGivesUp(x) PROVE Stages(e)'
  BY <1>9 DEF EnsureGivesUp, Ensure, Starter, HostIsCalm, HostTies, machine, beats, jobs
<1>10. ASSUME NEW x \in Starter, EnsureClears(x) PROVE Stages(e)'
  BY <1>10 DEF EnsureClears, Ensure, Starter, HostIsCalm, HostTies, machine, beats, jobs
<1>11. CASE StopDescribes
  BY <1>11 DEF StopDescribes, HostIsCalm, HostTies, machine, beats, jobs
<1>12. CASE StopSeesLocks
  BY <1>12 DEF StopSeesLocks, StopUnchanged, HostIsCalm, HostTies, machine, beats, jobs
<1>13. CASE StopSeesQueue
  BY <1>13 DEF StopSeesQueue, StopUnchanged, HostIsCalm, HostTies, machine, beats, jobs
<1>14. CASE StopReadsTimer
  BY <1>14 DEF StopReadsTimer, StopUnchanged, HostIsCalm, HostTies, machine, beats, jobs
<1>15. CASE StopStops
  BY <1>15 DEF StopStops, StopUnchanged, HostIsCalm, HostTies, machine, beats, jobs
<1>16. CASE StopClears
  BY <1>16 DEF StopClears, StopUnchanged, HostIsCalm, HostTies, machine, beats, jobs
<1>17. ASSUME NEW f \in Event, StartRequest(f) \/ RunEnds(f) PROVE Stages(e)'
  <2>1. UNCHANGED <<host, slow, idle, ensure, stop, rec, ahead>>
    BY <1>17 DEF StartRequest, RunEnds, machine, beats
  <2>2. queue'[e] \in Nat /\ queue'[e] >= queue[e]
    BY <1>17 DEF StartRequest, RunEnds, Plus, jobs
  <2> QED BY <2>1, <2>2
<1>18. ASSUME NEW f \in Event, RunBegins(f) \/ RunRefused(f) PROVE Stages(e)'
  <2>1. UNCHANGED <<host, slow, idle, ensure, stop, rec, ahead>>
    BY <1>18 DEF RunBegins, RunRefused, machine, beats
  <2>2. f # e
    BY <1>18 DEF RunBegins, RunRefused
  <2>3. queue'[e] = queue[e]
    BY <1>18, <2>2 DEF RunBegins, RunRefused, Takes
  <2> QED BY <2>1, <2>3
<1>19. ASSUME NEW f \in Event, RecHealthy(f) \/ RecGivesUp(f) PROVE Stages(e)'
  <2>1. f # e
    BY <1>19 DEF RecHealthy, RecGivesUp, Looks, IsFresh
  <2>2. UNCHANGED <<host, slow, idle, ensure, stop, rec, queue>> /\ ahead' = ahead \ {f}
    BY <1>19 DEF RecHealthy, RecGivesUp, Looks, machine, jobs
  <2> QED BY <1>19, <2>1, <2>2 
<1>20. ASSUME NEW f \in Event, RecRecovers(f) PROVE Stages(e)'
  BY <1>20 DEF RecRecovers, Looks, Reachable, Ensure, Starter, HostIsCalm, HostTies, machine, jobs
<1>21. CASE TaskBegins
  BY <1>21 DEF TaskBegins, Ensure, Starter, machine, beats, jobs
<1>22. CASE RecRequeues
  <2>1. rec \in Event /\ rec' = None /\ UNCHANGED <<host, slow, idle, ensure, stop, ahead>>
    BY <1>22 DEF RecRequeues, machine
  <2>2. queue'[e] \in Nat /\ queue'[e] >= queue[e] /\ (rec = e => queue'[e] > 0)
    BY <1>22 DEF RecRequeues, Plus
  <2> QED BY <2>1, <2>2
<1>23. ASSUME Fault PROVE FALSE
  BY <1>23 DEF Fault
<1>24. ASSUME NEW f \in Event, RunFails(f) PROVE FALSE
  BY <1>23, <1>24 DEF RunFails
<1>25. ASSUME NEW x \in Starter, EnsureErrs(x) PROVE FALSE
  BY <1>23, <1>25 DEF EnsureErrs
<1>26. CASE StopErrs
  BY <1>23, <1>26 DEF StopErrs
<1> QED
  BY <1>3, <1>4, <1>5, <1>6, <1>7, <1>8, <1>9, <1>10, <1>11, <1>12, <1>13, <1>14,
     <1>15, <1>16, <1>17, <1>18, <1>19, <1>20, <1>21, <1>22, <1>24, <1>25, <1>26
     DEF HostNext, HostStep, WorkerStep, TaskStep, RecStep, EnsureStep, StopStep, Starter

\* Without a fault and without a tick, the event stays so far: it cannot turn late behind the
\* back of the message it has, and when a run lets it go it is not late.
LEMMA StagesStep ==
    ASSUME NEW n \in Nat, RecoveryIInv(n), Slack(n), HostNext, ~Tick, faults' = faults,
           faults' <= n, HostTypeOK', faults' = 0 => HostIsCalm', HostIsCalm => HostIsCalm',
           NEW e \in Event,
           Stranded(e)', ~Reached(e)'
    PROVE  Stages(e)'
PROOF
<1>1. HostTypeOK /\ HostTies /\ (Stranded(e) /\ ~Reached(e) => Stages(e))
  BY DEF RecoveryIInv
<1>2. CASE quiet'[e] < Lease
  BY <1>2, StagesEarly
<1>3. CASE quiet'[e] >= Lease
  <2>1. Lease \in Nat \ {0} /\ Lease >= LockTtl /\ quiet[e] \in Nat /\ quiet'[e] \in Nat
    BY <1>1, LeaseBounds DEF HostTypeOK
  <2>2. ~Fault
    BY <1>1, HostKinds DEF Fault
  <2>3. \A f \in Event : ~RunFails(f)
    BY <2>2 DEF RunFails
  <2>4. \A x \in Starter : ~EnsureErrs(x)
    BY <2>2 DEF EnsureErrs
  <2>5. ~StopErrs
    BY <2>2 DEF StopErrs
  <2>6. /\ quiet'[e] \in {0, quiet[e]}
        /\ e \notin running /\ lock[e] = 0 /\ Stranded(e)' => Stranded(e)
        /\ lock[e] = 0 /\ e \notin running' /\ Reached(e) => Reached(e)'
    <3> USE <1>1, HostKinds, <2>3, <2>4, <2>5
        DEF HostNext, HostStep, WorkerStep, TaskStep, RecStep, EnsureStep, StopStep, Boots, Halts,
            StartRequest, RunBegins, RunRefused, RunEnds, TaskBegins, EnsureDescribes, EnsureWaits,
            EnsureStarts, EnsureBoots, EnsureGivesUp, EnsureClears, StopUnchanged, StopDescribes,
            StopSeesLocks, StopSeesQueue, StopReadsTimer, StopStops, StopClears, RecHealthy,
            RecGivesUp, RecRecovers, RecRequeues
    <3>1. quiet'[e] \in {0, quiet[e]}
      BY DEF watch
    <3>2. e \notin running /\ lock[e] = 0 /\ Stranded(e)' => Stranded(e)
      BY <1>3, <2>1 DEF Stranded, runs
    <3>3. ASSUME lock[e] = 0, e \notin running', Reached(e) PROVE Reached(e)'
      <4>1. queue'[e] \in Nat /\ queue'[e] > 0
        BY <3>3 DEF Reached, Takes, Plus, jobs
      <4>2. host' = "running"
        BY <3>3 DEF Reached, Takes, machine
      <4>3. stop' \notin {"timer", "stops"}
        BY <3>3 DEF Reached
      <4> QED BY <4>1, <4>2, <4>3 DEF Reached
    <3> QED BY <3>1, <3>2, <3>3
  <2>7. quiet'[e] = quiet[e]
    BY <1>3, <2>1, <2>6
  <2>8. e \notin running /\ lock[e] = 0
    BY <1>1, <1>3, <2>1, <2>7, HostKinds DEF HostTies
  <2>9. e \notin running'
    BY DEF Stranded
  <2> QED BY <1>1, <1>3, <2>6, <2>7, <2>8, <2>9, StagesKept DEF Slack
<1> QED BY <1>2, <1>3, LeaseBounds DEF HostTypeOK

\* A tick brings a stranded event to its next stage, and none to the last.
LEMMA StagesTick ==
    ASSUME NEW n \in Nat, RecoveryIInv(n), Slack(n), Tick, faults <= n, HostTypeOK',
           HostIsCalm => HostIsCalm',
           faults = 0 => HostIsCalm', NEW e \in Event,
           Stranded(e)', ~Reached(e)'
    PROVE  Stages(e)'
PROOF
<1> DEFINE late == Lateness(e)
<1>1. HostTypeOK /\ HostTies
  BY DEF RecoveryIInv
<1>2. /\ UNCHANGED <<host, queue, stop, ensure, rec, faults>>
      /\ ahead' = Event \cup {"stop"} /\ stop = "off" /\ ~slow /\ "stop" \notin ahead
      /\ host \in {"pending", "stopping"} => slow'
  BY <1>1, HostKinds DEF Tick, Prompt, bounds
<1>3. /\ idle = None => idle' = None
      /\ idle = 0 => idle' = 1
  BY <1>1, HostKinds DEF Tick, Older, Slack
<1>4. Stranded(e) /\ ~Reached(e) /\ Stages(e)
  BY <1>2 DEF Tick, Stranded, Reached, RecoveryIInv
<1>5. /\ quiet'[e] = Older(quiet[e], StallAfter) /\ late \in Int /\ late < 5
      /\ Lease \in Nat /\ StallAfter >= Lease + 5 + 6 * faults
  BY <1>1, <1>4, HostKinds, LeaseBounds DEF Tick, Stranded, Stages, Slack, Lateness
<1>6. Lateness(e)' = late + 1
  BY <1>1, <1>2, <1>5, HostKinds DEF Older, Lateness
<1>7. rec = None => e \notin ahead
  BY <1>4 DEF Tick, Prompt, Stranded
<1>8. /\ rec # None => Recovery # "off"
      /\ Recovery \in {"off", "waits", "boots"}
      /\ Recovery = "waits" => host = "stopping"
      /\ Recovery = "boots" => host = "pending"
  BY DEF Tick, Prompt, Recovery, Starter
<1>9. Recovery # "off" => rec # None
  BY <1>1 DEF HostTies
<1>10. late >= -1 => HostIsCalm'
  <2> SUFFICES ASSUME late >= -1 PROVE HostIsCalm'
    OBVIOUS
  <2>1. host # "running" => idle' = None
    BY <1>2, <1>3, <1>4 DEF Stages, TimerIsSeen
  <2>2. Recovery' = Recovery /\ (Recovery # "off" => host # "running")
    BY <1>2, <1>8 DEF Recovery
  <2> QED BY <1>2, <1>8, <2>1, <2>2 DEF HostIsCalm, Young, HostIsUp
<1>11. late >= 0 => /\ host # "running" => idle = None
                    /\ rec = None /\ queue[e] = 0 => HostIsUp /\ idle \in {0, None}
  BY <1>1, <1>2, <1>4, <1>7, HostKinds DEF Stages, HostIsCalm, Young
<1>12. late >= 0 /\ queue[e] = 0 => Young(1)' /\ (host = "stopping" => slow')
  <2>1. late >= 0 /\ queue[e] = 0 => idle \in {0, None}
    BY <1>8, <1>11
  <2> QED BY <1>2, <1>3, <2>1 DEF Young
<1>13. late >= 1 /\ queue[e] = 0 => /\ late = 1 /\ Recovery # "waits"
                                    /\ host = "running" \/ (host = "pending" /\ slow')
  <2> SUFFICES ASSUME late >= 1, queue[e] = 0
               PROVE  /\ late = 1 /\ Recovery # "waits"
                      /\ host = "running" \/ (host = "pending" /\ slow')
    OBVIOUS
  <2>1. host # "stopping"
    BY <1>2, <1>4 DEF Stages
  <2>2. host = "running" \/ (host = "pending" /\ slow')
    BY <1>2, <1>5, <1>8, <1>11, <2>1 DEF HostIsUp
  <2>3. ~(late >= 2)
    BY <1>1, <1>2, <1>4, <1>5, <1>7, <1>8, HostKinds DEF Stages
  <2> QED BY <1>5, <1>8, <2>1, <2>2, <2>3
<1>14. late >= 2 => queue[e] > 0 /\ (host = "stopping" => slow')
  BY <1>1, <1>2, <1>5, <1>13, HostKinds
<1>15. late >= 3 => host = "pending" /\ slow'
  <2> SUFFICES ASSUME late >= 3 PROVE host = "pending" /\ slow'
    OBVIOUS
  <2>1. host # "stopping"
    BY <1>2, <1>4 DEF Stages
  <2>2. host # "stopped"
    BY <1>4, <1>7, <1>8 DEF Stages, HostIsUp
  <2>3. host # "running"
    BY <1>2, <1>4, <1>5, <1>14 DEF Reached
  <2> QED BY <1>1, <1>2, <2>1, <2>2, <2>3, HostKinds
<1>16. ~(late >= 4)
  BY <1>2, <1>4 DEF Stages
<1> QED
  BY <1>2, <1>5, <1>6, <1>10, <1>11, <1>12, <1>13, <1>14, <1>15, <1>16
     DEF Stages, TimerIsSeen, Recovery

\* When a call or a process fails, what is stranded has six ticks more.
LEMMA StagesFault ==
    ASSUME NEW n \in Nat, RecoveryIInv(n), HostNext, faults' # faults, faults' <= n,
           HostTypeOK', NEW e \in Event,
           Stranded(e)', ~Reached(e)'
    PROVE  Stages(e)'
PROOF
<1>1. HostTypeOK /\ HostTies
  BY DEF RecoveryIInv
<1>2. \/ \E f \in Event : RunFails(f)
      \/ \E x \in Starter : EnsureErrs(x)
      \/ StopErrs
  BY DEF HostNext, HostStep, WorkerStep, TaskStep, RecStep, EnsureStep, StopStep, Boots, Halts,
         Tick, StartRequest, RunBegins, RunRefused, RunEnds, TaskBegins, EnsureDescribes,
         EnsureWaits,
         EnsureStarts, EnsureBoots, EnsureGivesUp, EnsureClears, StopUnchanged, StopDescribes,
         StopSeesLocks, StopSeesQueue, StopReadsTimer, StopStops, StopClears, RecHealthy,
         RecGivesUp, RecRecovers, RecRequeues, bounds
<1>3. /\ UNCHANGED <<host, queue, status, quiet>> /\ faults' = faults + 1
      /\ stop' \in {stop, "off"}
      /\ \A f \in running \ running' : quiet[f] = 0
  BY <1>1, <1>2 DEF RunFails, EnsureErrs, StopErrs, Fault, HostTies, machine, jobs, watch, runs
<1>4. stop = "stops" \/ ~Reached(e)
  BY <1>3 DEF Reached
<1>5. quiet[e] = 0 \/ (Stranded(e) /\ ~Reached(e))
  BY <1>3, <1>4 DEF Stranded, Reached
<1>6. Lease \in Nat \ {0} /\ quiet[e] \in Nat /\ faults \in Nat
  BY <1>1, LeaseBounds DEF HostTypeOK
<1>7. faults <= n /\ faults' # 0
  BY <1>3, <1>6
<1>8. quiet'[e] < Lease + 6 * faults' - 1
  BY <1>3, <1>5, <1>6, <1>7 DEF RecoveryIInv, Stages, Lateness
<1> QED BY <1>3, <1>6, <1>7, <1>8, StagesEarly

\* Nothing is given up before a second fault, and the invariant goes on.
LEMMA RecoveryStep ==
    ASSUME NEW n \in Nat, RecoveryIInv(n), Slack(n), [HostNext]_hostVars
    PROVE  RecoveryIInv(n)'
PROOF
<1>1. HostTypeOK /\ HostTies /\ HostTypeOK'
  BY HostTypeStep DEF RecoveryIInv
<1>2. CASE HostNext
  <2>1. HostTies'
    BY <1>1, <1>2, TiesStep
  <2>2. faults' = faults \/ faults' = faults + 1
    BY <1>1, <1>2, HostKinds
       DEF HostNext, HostStep, WorkerStep, TaskStep, RecStep, EnsureStep, StopStep, Boots, Halts,
           Tick, StartRequest, RunBegins, RunRefused, RunEnds, RunFails, TaskBegins,
           EnsureDescribes, EnsureWaits, EnsureStarts, EnsureBoots, EnsureGivesUp, EnsureClears,
           EnsureErrs, StopUnchanged, StopDescribes, StopSeesLocks, StopSeesQueue, StopReadsTimer,
           StopStops, StopClears, StopErrs, RecHealthy, RecGivesUp, RecRecovers, RecRequeues,
           Fault, bounds
  <2>3. faults' = faults /\ HostIsCalm => HostIsCalm'
    BY <1>1, <1>2, CalmStep DEF Slack
  <2>4. faults' = 0 => HostIsCalm'
    BY <1>1, <2>2, <2>3, HostKinds DEF RecoveryIInv
  <2>5. ASSUME faults' <= n, NEW e \in Event, Stranded(e)', ~Reached(e)' PROVE Stages(e)'
    <3>1. CASE faults' # faults
      BY <1>1, <1>2, <2>5, <3>1, StagesFault
    <3>2. CASE faults' = faults /\ Tick
      BY <1>1, <2>3, <2>4, <2>5, <3>2, StagesTick
    <3>3. CASE faults' = faults /\ ~Tick
      BY <1>1, <1>2, <2>3, <2>4, <2>5, <3>3, StagesStep
    <3> QED BY <3>1, <3>2, <3>3
  <2>6. Survives(n)'
    <3> SUFFICES ASSUME faults' <= n PROVE reverted' = {}
      BY DEF Survives
    <3>1. faults <= n /\ reverted = {}
      BY <1>1, <2>2, HostKinds DEF RecoveryIInv, Survives
    <3>2. ASSUME NEW e \in Event, RecGivesUp(e) PROVE Waits(e)
      <4>1. Stranded(e) /\ quiet[e] >= StallAfter
        BY <1>1, <3>2, HostKinds DEF RecGivesUp, Looks, Stranded, HostTies
      <4>2. ~Stages(e)
        BY <1>1, <3>1, <4>1, HostKinds, LeaseBounds DEF Stages, Lateness, Slack
      <4>3. Reached(e)
        BY <3>1, <4>1, <4>2 DEF RecoveryIInv
      <4> QED BY <1>1, <4>3 DEF Reached, Waits, HostTypeOK
    <3>3. CASE \E e \in Event : RecGivesUp(e)
      BY <3>1, <3>2, <3>3 DEF RecGivesUp
    <3>4. CASE ~ \E e \in Event : RecGivesUp(e)
      BY <1>2, <3>1, <3>4
         DEF HostNext, HostStep, WorkerStep, TaskStep, RecStep, EnsureStep, StopStep, Boots, Halts,
             Tick, StartRequest, RunBegins, RunRefused, RunEnds, RunFails, TaskBegins,
             EnsureDescribes, EnsureWaits, EnsureStarts, EnsureBoots, EnsureGivesUp, EnsureClears,
             EnsureErrs, StopUnchanged, StopDescribes, StopSeesLocks, StopSeesQueue,
             StopReadsTimer, StopStops, StopClears, StopErrs, RecHealthy, RecRecovers,
             RecRequeues, history
    <3> QED BY <3>3, <3>4
  <2> QED BY <1>1, <2>1, <2>4, <2>5, <2>6 DEF RecoveryIInv
<1>3. CASE UNCHANGED hostVars
  BY <1>1, <1>3
     DEF hostVars, machine, jobs, runs, watch, beats, bounds, history, RecoveryIInv, HostTies,
         HostIsCalm, HostIsUp, Recovery, Young, Stranded, Reached, Stages, Lateness, TimerIsSeen,
         Survives
<1> QED BY <1>2, <1>3

\* At first the host is stopped, its timer clear, and no event in work.
LEMMA RecoveryStarts ==
    ASSUME NEW n \in Nat
    PROVE  HostInit => RecoveryIInv(n)
PROOF
<1> SUFFICES ASSUME HostInit PROVE RecoveryIInv(n)
  OBVIOUS
<1>1. HostTypeOK
  BY HostStarts DEF HostIInv
<1>2. /\ host = "stopped" /\ idle = None /\ stop = "off" /\ Recovery = "off"
      /\ reverted = {} /\ running = {}
      /\ \A e \in Event : lock[e] = 0 /\ status[e] = "open" /\ requeued[e] = 0
  BY DEF HostInit, Recovery, Starter
<1> QED
  BY <1>1, <1>2
     DEF RecoveryIInv, HostTies, HostIsCalm, Young, HostIsUp, Stranded, Survives

\* The reconciler (face_processing_reconciler.py) brings every start to a run in time, even when
\* the idle stop (gpu_host_service.py) hits its message or its run: until more than n calls or
\* processes have failed, an event is given up only when its message waits at a live worker.
THEOREM FaultsAreSurvived ==
    ASSUME NEW CONSTANT n \in Nat, Slack(n)
    PROVE  HostSpec => []Survives(n)
PROOF
<1>1. RecoveryIInv(n) /\ [HostNext]_hostVars => RecoveryIInv(n)'
  BY RecoveryStep
<1>2. RecoveryIInv(n) => Survives(n)
  BY DEF RecoveryIInv
<1>3. HostInit => RecoveryIInv(n)
  BY RecoveryStarts
<1> QED BY <1>1, <1>2, <1>3, PTL DEF HostSpec

\* So the first failure never costs an event its processing (face_processing_reconciler.py).
THEOREM StartsAreRecovered ==
    ASSUME Slack(1)
    PROVE  HostSpec => []GivesUpAfterFault
PROOF
<1>1. RecoveryIInv(1) /\ [HostNext]_hostVars => RecoveryIInv(1)'
  BY RecoveryStep
<1>2. RecoveryIInv(1) => GivesUpAfterFault
  BY HostKinds DEF RecoveryIInv, Survives, GivesUpAfterFault
<1>3. HostInit => RecoveryIInv(1)
  BY RecoveryStarts
<1> QED BY <1>1, <1>2, <1>3, PTL DEF HostSpec

\* Each fault delays the reconciler (face_processing_reconciler.py) by six ticks at most: an event
\* in work that nothing runs has its message at a live worker, where the idle check will see it,
\* unless its last sign of life is younger than Lease, five ticks and those of the faults.
THEOREM RecoveryIsTimely ==
    ASSUME NEW CONSTANT n \in Nat, Slack(n)
    PROVE  HostSpec => []Timely(n)
PROOF
<1>1. RecoveryIInv(n) /\ [HostNext]_hostVars => RecoveryIInv(n)'
  BY RecoveryStep
<1>2. RecoveryIInv(n) => Timely(n)
  BY HostKinds, LeaseBounds DEF RecoveryIInv, Stages, Lateness, Timely
<1>3. HostInit => RecoveryIInv(n)
  BY RecoveryStarts
<1> QED BY <1>1, <1>2, <1>3, PTL DEF HostSpec
==============================================================================
