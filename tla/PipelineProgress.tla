--------------------------- MODULE PipelineProgress ---------------------------
(***************************************************************************)
(* What the photographer's dashboard polls while BulkPipeline runs: the    *)
(* Redis hash of ProcessingProgressTracker (ml/processing_progress.py).    *)
(* Three writers share it and none looks at the others: the run, which     *)
(* overwrites it with its counters; start_face_processing, which           *)
(* announces the photos it has counted before any worker has its job; and  *)
(* revert_stalled_processing, which marks it as an error.  A run that is   *)
(* killed leaves it as it is.  A run that finds no photo pending, the      *)
(* counters of faces, the start and the estimated time are left out.       *)
(***************************************************************************)
EXTENDS BulkPipeline

CONSTANT Visitor    \* requests to start, and visits of the reconciler that revert

Run == "run"

ASSUME VisitorAssumption == Run \notin Visitor

VARIABLES
    shown,      \* the hash, or Missing
    visits,     \* each visitor, and the run in its handler: what it has read
    crossed     \* history: the last write was not the run's

hashVars == <<shown, visits, crossed>>
progressVars == <<vars, hashVars>>

Missing == [status |-> "missing", total |-> 0, processed |-> 0, failed |-> 0]

Started(total) == [status |-> "processing", total |-> total, processed |-> 0, failed |-> 0]

New == [at |-> "new", total |-> 0, hash |-> Missing]

ProgressInit ==
    /\ Init
    /\ shown = Missing
    /\ visits = [v \in Visitor \cup {Run} |-> New]
    /\ crossed = FALSE

(* The counters as the run has them. *)
Counters(status) ==
    [status |-> status, total |-> Cardinality(loaded),
     processed |-> processed + failed, failed |-> failed]

Visits(v, visit) == visits' = [visits EXCEPT ![v] = visit]

\* The run writes the hash, whatever it holds.
Reports(hash) == shown' = hash /\ crossed' = FALSE

(* The run before has left its handler, and released the lock. *)
Begins ==
    /\ visits[Run].at = "new"
    /\ LoadPendingPhotos
    /\ Reports(Started(Cardinality(Pending)))
    /\ UNCHANGED visits

(* What is left in the buffer after the last photo is flushed after one more update. *)
LastFlush == phase = "flushing" /\ todo = {} /\ Total(buffer) \in 1..(BatchSize - 1)

UpdatesLast == IF LastFlush THEN Reports(Counters("processing")) ELSE UNCHANGED <<shown, crossed>>

Flushes ==
    /\ FlushBatch \/ FailAwaiting
    /\ UpdatesLast
    /\ UNCHANGED visits

(* After a photo and the batches it has filled; mark_clustering after the last. *)
Updates ==
    /\ NextPhoto
    /\ Reports(Counters(IF todo = {} THEN "clustering" ELSE "processing"))
    /\ UNCHANGED visits

Completes ==
    /\ RunClustering
    /\ Reports(Counters("complete"))
    /\ UNCHANGED visits

\* mark_error first reads the hash ...
ReadsHash(v) == Visits(v, [at |-> "marking", total |-> 0, hash |-> shown'])

\* ... and keeps the counters it has read, whoever has written since.
MarkError(v) ==
    /\ visits[v].at = "marking"
    /\ shown' = [visits[v].hash EXCEPT !.status = "error"]
    /\ crossed' = (v # Run)
    /\ Visits(v, [New EXCEPT !.at = IF v = Run THEN "new" ELSE "over"])
    /\ UNCHANGED vars

Breaks ==
    /\ BreaksOnDeleted
    /\ UpdatesLast
    /\ ReadsHash(Run)

(* A process that dies says nothing; one that Redis or the database fails may. *)
Dies ==
    /\ Crashes
    /\ UpdatesLast \/ UNCHANGED <<shown, crossed>>
    /\ ReadsHash(Run) \/ UNCHANGED visits

Goes ==
    /\ (\E p \in Photo : PhotoFails(p) \/ PhotoWithoutCrops(p) \/ PhotoBuffered(p)
                         \/ FinishPhoto(p))
       \/ BatchFinished
    /\ UNCHANGED hashVars

Outside ==
    /\ \E p \in Photo : Upload(p) \/ DeleteCounts(p) \/ DeletePhoto(p)
    /\ UNCHANGED hashVars

(* start_face_processing counts the photos, then looks at the pipeline's lock, ... *)
StartCounts(v) ==
    /\ v \in Visitor /\ visits[v].at = "new"
    /\ Pending # {}
    /\ Visits(v, [at |-> "counted", total |-> Cardinality(Pending), hash |-> Missing])
    /\ UNCHANGED <<vars, shown, crossed>>

StartPasses(v) ==
    /\ visits[v].at = "counted"
    /\ phase = "idle" /\ visits[Run].at = "new"
    /\ Visits(v, [visits[v] EXCEPT !.at = "free"])
    /\ UNCHANGED <<vars, shown, crossed>>

(* ... and announces what it has counted, although a run may have begun since. *)
StartWrites(v) ==
    /\ visits[v].at = "free"
    /\ shown' = Started(visits[v].total)
    /\ crossed' = TRUE
    /\ Visits(v, [New EXCEPT !.at = "over"])
    /\ UNCHANGED vars

(* revert_stalled_processing, when the reconciler gives the event up: in FaceJobs. *)
Reverts(v) ==
    /\ v \in Visitor /\ visits[v].at = "new"
    /\ UNCHANGED <<vars, shown, crossed>>
    /\ ReadsHash(v)

Visiting ==
    \E v \in Visitor : StartCounts(v) \/ StartPasses(v) \/ StartWrites(v) \/ Reverts(v)
                       \/ MarkError(v)

(* processing_progress_ttl_seconds after the last write. *)
Expires ==
    /\ shown # Missing /\ phase = "idle"
    /\ shown' = Missing
    /\ crossed' = FALSE
    /\ UNCHANGED <<vars, visits>>

Proceeds == Goes \/ Flushes \/ Updates \/ Completes \/ Breaks \/ MarkError(Run)

ProgressNext == Outside \/ Begins \/ Proceeds \/ Dies \/ Visiting \/ Expires

ProgressSpec == ProgressInit /\ [][ProgressNext]_progressVars
                /\ WF_progressVars(Begins) /\ WF_progressVars(Proceeds)

-----------------------------------------------------------------------------
(* Whoever has written it, the dashboard shows no more photos processed than     *)
(* there are, failed ones included, and "complete" only when no run is under way *)
(* and every photo of the last one is accounted for, whichever batches it went   *)
(* through.  Between two photos and while it clusters it shows exactly what the  *)
(* run has done, and when no run is under way that it has completed or failed,   *)
(* unless a process died or a start or a revert has written over it since the    *)
(* run last reported; such a write shows either an error or no photo processed.  *)
ShownIsTrue ==
    /\ shown.failed <= shown.processed /\ shown.processed <= shown.total
    /\ shown.status = "complete" => phase = "idle" /\ shown.processed = shown.total
    /\ phase = "scanning" /\ ~crossed => shown = Counters("processing")
    /\ phase = "clustering" /\ ~crossed => shown = Counters("clustering")
    /\ phase = "idle" /\ visits[Run].at = "new" /\ aborts = 0 /\ ~crossed =>
          shown.status \in {"missing", "complete", "error"}
    /\ crossed => shown.status = "error" \/ shown = Started(shown.total)
==============================================================================
