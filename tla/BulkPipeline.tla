---------------------------- MODULE BulkPipeline -----------------------------
(***************************************************************************)
(* FaceService.process_event_photos (ml/pipeline.py): one run at a time    *)
(* (FaceJobs, the event's lock) takes the pending photos in upload order,  *)
(* detects their faces, and gathers the quality-passed crops of several    *)
(* photos in one buffer that the GPU embeds batch by batch.  A photo may   *)
(* therefore be split over two batches, and is marked processed by a       *)
(* commit of its own, after the commit that stores its last crop.          *)
(*                                                                         *)
(* Photos are numbered by uploaded_at, so the buffer, which the code keeps *)
(* as a list, is in photo order and is known from how many crops of each   *)
(* photo it still holds.  Rows of rejected crops are left out.  A photo    *)
(* may be deleted while a run is under way (photo_service.py).             *)
(***************************************************************************)
EXTENDS Integers, FiniteSets, Functions

CONSTANTS
    NumPhotos,
    MaxFaces,       \* bound: faces of one photo
    BatchSize,      \* embedding_batch_size
    MaxAborts,      \* bound: crashes of a run
    Deletable       \* the photos that may be deleted

Photo == 1..NumPhotos

ASSUME BulkAssumption ==
    /\ NumPhotos \in Nat
    /\ MaxFaces \in Nat
    /\ BatchSize \in Nat \ {0}
    /\ MaxAborts \in Nat
    /\ Deletable \subseteq Photo

VARIABLES
    outcome,    \* photos: faces_processed is set exactly when counted or failed
    rows,       \* photos: quality-passed embedding rows
    faceCount,  \* photos: face_count
    totalFaces, \* events.total_faces
    phase,      \* where the run is
    loaded,     \* the photos it loaded
    todo,       \* those it has not looked at
    found,      \* awaiting_flush: face_count of the photo's result
    passed,     \* awaiting_flush: quality_passed_count of it
    awaiting,   \* awaiting_flush: its keys
    buffer,     \* crop_buffer: crops of each photo
    finishing,  \* photos of the last batch with no crop left in the buffer
    processed,  \* photos_processed
    failed,     \* photos_failed
    sessionTotal, \* total_faces of the Event object in the run's session
    deleting,   \* delete requests: the face_count they read
    base,       \* history: rows that earlier runs left of a photo
    aborts      \* history: crashes

database == <<outcome, rows, faceCount, totalFaces, base>>
run      == <<phase, loaded, todo, found, passed, awaiting, buffer, finishing,
              processed, failed, sessionTotal>>
vars     == <<database, run, deleting, aborts>>

NotAsked == -1
Exists(p)  == outcome[p] \notin {"absent", "deleted"}
Pending    == {p \in Photo : outcome[p] = "pending"}
Total(f)   == SumFunction(f)
Lesser(m, n) == IF m < n THEN m ELSE n

Counts == [Photo -> 0..MaxFaces]

PhotosOK ==
    /\ outcome \in [Photo -> {"absent", "pending", "counted", "failed", "deleted"}]
    /\ rows \in [Photo -> Nat] /\ base \in [Photo -> Nat]
    /\ faceCount \in Counts
    /\ deleting \in [Photo -> {NotAsked} \cup 0..MaxFaces]

RunOK ==
    /\ phase \in {"idle", "scanning", "flushing", "finishing", "clustering"}
    /\ loaded \subseteq Photo /\ todo \subseteq loaded
    /\ awaiting \subseteq loaded \ todo /\ finishing \subseteq awaiting
    /\ found \in Counts /\ passed \in Counts /\ buffer \in Counts
    /\ processed \in Nat /\ failed \in Nat
    /\ aborts \in 0..MaxAborts

TotalsOK == totalFaces \in Int /\ sessionTotal \in Int

TypeOK == PhotosOK /\ RunOK /\ TotalsOK

Nothing == [p \in Photo |-> 0]

Init ==
    /\ outcome = [p \in Photo |-> "absent"]
    /\ rows = Nothing /\ base = Nothing /\ faceCount = Nothing
    /\ totalFaces = 0 /\ sessionTotal = 0
    /\ phase = "idle"
    /\ loaded = {} /\ todo = {} /\ awaiting = {} /\ finishing = {}
    /\ found = Nothing /\ passed = Nothing /\ buffer = Nothing
    /\ processed = 0 /\ failed = 0
    /\ deleting = [p \in Photo |-> NotAsked]
    /\ aborts = 0

-----------------------------------------------------------------------------
(* Uploads and deletions, at any time. *)

Upload(p) ==
    /\ outcome[p] = "absent"
    /\ \A q \in Photo : q < p => outcome[q] # "absent"
    /\ outcome' = [outcome EXCEPT ![p] = "pending"]
    /\ UNCHANGED <<rows, faceCount, totalFaces, base, run, deleting, aborts>>

\* delete_photos first reads the face_count it will subtract ...
DeleteCounts(p) ==
    /\ p \in Deletable /\ Exists(p)
    /\ deleting[p] = NotAsked
    /\ deleting' = [deleting EXCEPT ![p] = faceCount[p]]
    /\ UNCHANGED <<database, run, aborts>>

\* ... and then deletes the row, its embeddings with it, and subtracts what it read.
DeletePhoto(p) ==
    /\ deleting[p] # NotAsked /\ Exists(p)
    /\ outcome' = [outcome EXCEPT ![p] = "deleted"]
    /\ rows' = [rows EXCEPT ![p] = 0]
    /\ base' = [base EXCEPT ![p] = 0]
    /\ faceCount' = [faceCount EXCEPT ![p] = 0]
    /\ totalFaces' = totalFaces - deleting[p]
    /\ UNCHANGED <<run, deleting, aborts>>

-----------------------------------------------------------------------------
(* The run. *)

\* The pending photos are loaded, and the event with them; local state is fresh.
LoadPendingPhotos ==
    /\ phase = "idle"
    /\ Pending # {}
    /\ loaded' = Pending /\ todo' = Pending
    /\ awaiting' = {} /\ finishing' = {} /\ buffer' = Nothing
    /\ processed' = 0 /\ failed' = 0
    /\ sessionTotal' = totalFaces
    /\ passed' = [p \in Photo |-> IF p \in Pending THEN 0 ELSE passed[p]]
    /\ base' = [p \in Photo |-> IF p \in Pending THEN rows[p] ELSE base[p]]
    /\ phase' = "scanning"
    /\ UNCHANGED <<outcome, rows, faceCount, totalFaces, found, deleting, aborts>>

\* Photos come in the order they were loaded in.
IsNext(p) == /\ phase = "scanning"
             /\ p \in todo
             /\ \A q \in todo : p <= q

\* _refresh_event_total_faces: the sum of face_count over the event's photos, written
\* when it differs from the value the session's Event object holds.
RefreshTotal(counts) ==
    /\ sessionTotal' = Total(counts)
    /\ totalFaces' = IF Total(counts) # sessionTotal THEN Total(counts) ELSE totalFaces

\* Mutant: the sum is read before the photo's own count is flushed.
FinishSumsFirst(p, faces) ==
    /\ Exists(p)
    /\ outcome' = [outcome EXCEPT ![p] = "counted"]
    /\ faceCount' = [faceCount EXCEPT ![p] = faces]
    /\ RefreshTotal(faceCount)
    /\ processed' = processed + 1

\* _finish_photo, one commit.
Finish(p, faces) ==
    /\ Exists(p)
    /\ outcome' = [outcome EXCEPT ![p] = "counted"]
    /\ faceCount' = [faceCount EXCEPT ![p] = faces]
    /\ RefreshTotal(faceCount')
    /\ processed' = processed + 1

\* Mutant: a photo that fails is counted, and left for the next run.
PhotoLeftPending(p) ==
    /\ IsNext(p) /\ Exists(p)
    /\ todo' = todo \ {p}
    /\ failed' = failed + 1
    /\ phase' = "flushing"
    /\ UNCHANGED <<database, loaded, found, passed, awaiting, buffer, finishing,
                   processed, sessionTotal, deleting, aborts>>

\* Download, decoding or detection fails: the photo is processed all the same, so that
\* it is not tried again in every run.
PhotoFails(p) ==
    /\ IsNext(p) /\ Exists(p)
    /\ outcome' = [outcome EXCEPT ![p] = "failed"]
    /\ todo' = todo \ {p}
    /\ failed' = failed + 1
    /\ phase' = "flushing"
    /\ UNCHANGED <<rows, faceCount, totalFaces, base, loaded, found, passed, awaiting,
                   buffer, finishing, processed, sessionTotal, deleting, aborts>>

\* No crop passed: nothing to wait for.
PhotoWithoutCrops(p) ==
    /\ IsNext(p)
    /\ \E n \in 0..MaxFaces :
          /\ Finish(p, n)
          /\ found' = [found EXCEPT ![p] = n]
    /\ passed' = [passed EXCEPT ![p] = 0]
    /\ todo' = todo \ {p}
    /\ phase' = "flushing"
    /\ UNCHANGED <<rows, base, loaded, awaiting, buffer, finishing, failed, deleting,
                   aborts>>

\* Its passed crops join the buffer.  The photo's row is not touched: if it has been
\* deleted meanwhile, nobody notices yet.
PhotoBuffered(p) ==
    /\ IsNext(p)
    /\ \E n \in 1..MaxFaces : \E m \in 1..n :
          /\ found' = [found EXCEPT ![p] = n]
          /\ passed' = [passed EXCEPT ![p] = m]
          /\ buffer' = [buffer EXCEPT ![p] = m]
    /\ awaiting' = awaiting \cup {p}
    /\ todo' = todo \ {p}
    /\ phase' = "flushing"
    /\ UNCHANGED <<database, loaded, finishing, processed, failed, sessionTotal,
                   deleting, aborts>>

\* Crops are embedded when the buffer holds a batch, and at the end of the run.
FlushDue == /\ phase = "flushing"
            /\ \/ Total(buffer) >= BatchSize
               \/ todo = {} /\ Total(buffer) > 0

\* The crops at the front of the buffer: a later photo's only after an earlier one's.
IsBatch(batch) ==
    /\ \A p \in Photo : batch[p] <= buffer[p]
    /\ \A p, q \in Photo : p < q /\ batch[q] > 0 => batch[p] = buffer[p]
    /\ Total(batch) = Lesser(BatchSize, Total(buffer))

\* Mutant: every photo of the batch is finished, the one that goes on in the next batch
\* included.
FlushFinishesAll ==
    /\ FlushDue
    /\ \E batch \in Counts :
          /\ IsBatch(batch)
          /\ \A p \in Photo : batch[p] > 0 => Exists(p)
          /\ rows' = [p \in Photo |-> rows[p] + batch[p]]
          /\ buffer' = [p \in Photo |-> buffer[p] - batch[p]]
          /\ finishing' = {p \in awaiting : batch[p] > 0}
    /\ phase' = "finishing"
    /\ UNCHANGED <<outcome, faceCount, totalFaces, base, loaded, todo, found, passed,
                   awaiting, processed, failed, sessionTotal, deleting, aborts>>

\* Mutant: the flushed crops stay in the buffer.
FlushKeepsCrops ==
    /\ FlushDue
    /\ \E batch \in Counts :
          /\ IsBatch(batch)
          /\ \A p \in Photo : batch[p] > 0 => Exists(p)
          /\ rows' = [p \in Photo |-> rows[p] + batch[p]]
          /\ finishing' = {p \in awaiting : batch[p] > 0 /\ batch[p] = buffer[p]}
    /\ phase' = "finishing"
    /\ UNCHANGED <<outcome, faceCount, totalFaces, base, loaded, todo, found, passed,
                   awaiting, buffer, processed, failed, sessionTotal, deleting, aborts>>

\* _flush_embedding_batch: the rows of the whole batch, one commit; the photos with no
\* crop left in the buffer can be finished.
FlushBatch ==
    /\ FlushDue
    /\ \E batch \in Counts :
          /\ IsBatch(batch)
          /\ \A p \in Photo : batch[p] > 0 => Exists(p)
          /\ rows' = [p \in Photo |-> rows[p] + batch[p]]
          /\ buffer' = [p \in Photo |-> buffer[p] - batch[p]]
          /\ finishing' = {p \in awaiting : batch[p] > 0 /\ batch[p] = buffer[p]}
    /\ phase' = "finishing"
    /\ UNCHANGED <<outcome, faceCount, totalFaces, base, loaded, todo, found, passed,
                   awaiting, processed, failed, sessionTotal, deleting, aborts>>

\* The photos of the batch are finished one after the other, in its order.
FinishPhoto(p) ==
    /\ phase = "finishing"
    /\ p \in finishing /\ \A q \in finishing : p <= q
    /\ Finish(p, found[p])
    /\ finishing' = finishing \ {p}
    /\ awaiting' = awaiting \ {p}
    /\ UNCHANGED <<rows, base, phase, loaded, todo, found, passed, buffer, failed,
                   deleting, aborts>>

\* All of them are: there may be another batch to flush.
BatchFinished ==
    /\ phase = "finishing"
    /\ finishing = {}
    /\ phase' = "flushing"
    /\ UNCHANGED <<database, loaded, todo, found, passed, awaiting, buffer, finishing,
                   processed, failed, sessionTotal, deleting, aborts>>

\* Mutant: a failed flush counts as one failed photo.
FailCountsOne ==
    /\ FlushDue
    /\ \A p \in awaiting : Exists(p)
    /\ outcome' = [p \in Photo |-> IF p \in awaiting THEN "failed" ELSE outcome[p]]
    /\ failed' = failed + 1
    /\ awaiting' = {}
    /\ buffer' = Nothing
    /\ UNCHANGED <<rows, faceCount, totalFaces, base, phase, loaded, todo, found, passed,
                   finishing, processed, sessionTotal, deleting, aborts>>

\* The embedder fails: _fail_awaiting_photos marks every photo with crops on the way,
\* those already stored included, and the buffer is dropped.
FailAwaiting ==
    /\ FlushDue
    /\ \A p \in awaiting : Exists(p)
    /\ outcome' = [p \in Photo |-> IF p \in awaiting THEN "failed" ELSE outcome[p]]
    /\ failed' = failed + Cardinality(awaiting)
    /\ awaiting' = {}
    /\ buffer' = Nothing
    /\ UNCHANGED <<rows, faceCount, totalFaces, base, phase, loaded, todo, found, passed,
                   finishing, processed, sessionTotal, deleting, aborts>>

NextPhoto ==
    /\ phase = "flushing" /\ ~FlushDue
    /\ phase' = IF todo = {} THEN "clustering" ELSE "scanning"
    /\ UNCHANGED <<database, loaded, todo, found, passed, awaiting, buffer, finishing,
                   processed, failed, sessionTotal, deleting, aborts>>

\* run_clustering, and the run is over.
RunClustering ==
    /\ phase = "clustering"
    /\ phase' = "idle"
    /\ UNCHANGED <<database, loaded, todo, found, passed, awaiting, buffer, finishing,
                   processed, failed, sessionTotal, deleting, aborts>>

\* The photos whose rows the next step would write.
Touched == CASE phase = "scanning"  -> {p \in todo : IsNext(p)}
             [] phase = "flushing"  -> IF FlushDue THEN awaiting ELSE {}
             [] phase = "finishing" -> finishing
             [] OTHER               -> {}

\* The run ends where it is, and keeps only what it has committed.
Ends ==
    /\ phase # "idle"
    /\ phase' = "idle"
    /\ todo' = {} /\ awaiting' = {} /\ finishing' = {} /\ buffer' = Nothing
    /\ UNCHANGED <<database, loaded, found, passed, processed, failed, sessionTotal,
                   deleting>>

\* Its process dies, or the database or Redis fails it.
Crashes == Ends /\ aborts < MaxAborts /\ aborts' = aborts + 1

\* A row it writes to has been deleted, which fails the session, and with it the commit
\* of the handler that was to mark the photo failed.
BreaksOnDeleted == Ends /\ (\E p \in Touched : ~Exists(p)) /\ UNCHANGED aborts

RunStep ==
    \/ \E p \in Photo : \/ PhotoFails(p) \/ PhotoWithoutCrops(p) \/ PhotoBuffered(p)
                        \/ FinishPhoto(p)
    \/ FlushBatch \/ BatchFinished \/ FailAwaiting \/ NextPhoto \/ RunClustering
    \/ BreaksOnDeleted

Next ==
    \/ \E p \in Photo : Upload(p) \/ DeleteCounts(p) \/ DeletePhoto(p)
    \/ LoadPendingPhotos \/ RunStep \/ Crashes

Spec == Init /\ [][Next]_vars

\* Somebody runs the event again while photos are pending (FaceJobs: the reconciler, or
\* the photographer after a revert), and a run that does not crash goes on.
FairSpec == /\ Spec
            /\ WF_vars(LoadPendingPhotos)
            /\ WF_vars(RunStep)

-----------------------------------------------------------------------------

\* A photo that counts as processed without failure has every crop of its last run
\* stored exactly once and shows the faces of that run, although its crops went through
\* one or several batches with other photos between.
CountedExactly ==
    \A p \in Photo : outcome[p] = "counted" =>
        rows[p] = base[p] + passed[p] /\ faceCount[p] = found[p]

\* The crops of a photo are never lost between the buffer and the table, or stored
\* twice, while the photo waits.
CropsConserved ==
    \A p \in awaiting : Exists(p) => rows[p] + buffer[p] = base[p] + passed[p]

\* The progress the run publishes accounts for each loaded photo once.
ProgressAddsUp ==
    phase # "idle" =>
        processed + failed + Cardinality(awaiting) + Cardinality(todo) = Cardinality(loaded)

\* Nothing is stored for a photo after it was decided, and it is decided only once: the
\* crops that a failed flush drops do not come back with a later batch.
DecidedFrozen ==
    [][ \A p \in Photo : outcome[p] \in {"counted", "failed"} /\ outcome'[p] # "deleted" =>
           /\ outcome'[p] = outcome[p]
           /\ rows'[p] = rows[p] /\ faceCount'[p] = faceCount[p] ]_vars

\* As long as nobody has asked to delete a photo, the guest-facing total of the event is
\* the sum of the face counts its photos show, after each commit of each run.
TotalIsSum == (\A p \in Photo : deleting[p] = NotAsked) => totalFaces = Total(faceCount)

\* However often a run breaks, each photo is decided in the end, a photo that fails
\* every time included.
EveryPhotoDecided == \A p \in Photo : outcome[p] = "pending" ~> outcome[p] # "pending"

\* Bulk processing keeps the promise of the ledger.
Ledger == INSTANCE FaceLedger WITH crops <- passed
KeepsLedger == Ledger!Spec
==============================================================================
