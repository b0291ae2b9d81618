---------------------------- MODULE MCEventArchive ----------------------------
(***************************************************************************)
(* EventArchive from two starts, each cut to a size TLC explores: an event *)
(* without photos, of which only the first is uploaded; and one with all   *)
(* of them processed by one face run, where one worker has photo tasks.    *)
(***************************************************************************)
EXTENDS EventArchive

CONSTANTS First, Only   \* the photo of the one, the worker of the other

Processed ==
    /\ status = "ready"
    /\ photos = Photo /\ done = Photo /\ faces = Photo
    /\ proc = [p \in Photo |-> "completed"]
    /\ key = [p \in Photo |-> 1] /\ made = key /\ objects = Photo \X {1}
    /\ frozen = {} /\ warm = {} /\ torn = {}
    /\ arriving = [p \in Photo |-> "nothing"] /\ queue = [p \in Photo |-> 0]
    /\ task = [w \in Worker |-> NoTask] /\ run = NoRun /\ rest = NoRestore
    /\ arch = [a \in Archiver |-> NoArchival] /\ behind = [a \in Archiver |-> {}]
    /\ archives = 0 /\ restores = 0 /\ revert = "none"
    /\ ask = [c \in Click |-> "idle"] /\ asks = 1 /\ faults = 0

Within ==
    \/ photos = Photo /\ \A w \in Worker \ {Only} : task[w].at = "idle"
    \/ photos \subseteq {First} /\ \A p \in Photo \ {First} : arriving[p] = "nothing"

StartSpec ==
    /\ Init \/ Processed
    /\ [][Next /\ Within']_vars
    /\ \A w \in Worker : WF_vars(TaskStep(w) /\ Within')
    /\ \A c \in Click : WF_vars(AskStep(c))
    /\ \A a \in Archiver : WF_vars(ArchiveStep(a))
    /\ WF_vars(RestoreStep)

=============================================================================
