----------------------------- MODULE FaceExtraction -----------------------------
(***************************************************************************)
(* One image on its way from pixels to embeddings: SCRFD, the quality      *)
(* gates, the embedder, and the registry that loads their models once per  *)
(* process (ml/detection, ml/quality, ml/embedding, ml/model_registry.py,  *)
(* ml/matching/pipeline.py, ml/matching/liveness.py).                      *)
(*                                                                         *)
(* In a face worker one thread takes the photos of an event one at a time: *)
(* every face of a photo is judged, and those that pass are embedded in    *)
(* batches (FaceService, ml/pipeline.py).  In the API process every selfie *)
(* runs in a thread of its own (asyncio.to_thread), all of them with the   *)
(* same models, and a request that has waited too long is answered while   *)
(* its thread goes on.  A TFLite interpreter has one input and one output: *)
(* the crop is set, the network invoked and the answer read in three calls.*)
(***************************************************************************)
EXTENDS FaceDetection, Sequences

CONSTANTS
    Thread,     \* threads of the process
    BatchSize,  \* embedding_batch_size
    MinLive,    \* liveness_face_ratio_min, in pixels of the row
    MaxLive,    \* liveness_face_ratio_max
    LiveScore,  \* liveness_det_score_min
    None

ASSUME ExtractionAssumption == BatchSize \in Nat \ {0} /\ None \notin Thread

VARIABLES
    host,       \* "worker" or "api"
    backend,    \* what YPRPredictor could load
    registry,   \* names of the models the registry holds
    owner,      \* the thread that holds the registry's lock
    loads,      \* history: how often each model was constructed
    input,      \* whose crop each TFLite interpreter was given last
    output,     \* whose crop its last answer is about
    mixed,      \* history: threads that used an interpreter while another did
    at,         \* what each thread is doing
    image,      \* what was found in a thread's image, while its faces are chosen from it
    todo,       \* faces of the photo still to be judged, the one at hand included
    buffer,     \* faces that passed and wait for the embedder
    flaws,      \* what is wrong with the crop at hand
    space,      \* the model of a thread's embeddings, and whose crop they are of
    memory,     \* history: whose memory ran out when R100 was given up, at what batch size
    stored,     \* face_embeddings of the photo
    answer      \* what each selfie was answered

process == <<host, backend>>
models  == <<registry, owner, loads>>
tflite  == <<input, output, mixed>>
photo   == <<todo, buffer, stored>>
vectors == <<space, memory>>
vars    == <<process, models, tflite, at, image, photo, flaws, vectors, answer>>

Lite == {"blur", "pose", "mbf"}
Flaw == {"blur", "pose", "age"}

(* YPRPredictor takes 3DDFA, with the TFLite model behind it, or that one alone. *)
Backend == {"3ddfa", "tflite"}

Model == {"scrfd", "blur", "pose", "age", "sunglasses", "quality_filter",
          "r100", "mbf", "adaface", "dual_embedder"}

(* Crops that go through a model at once: a selfie is one, whatever the batch size. *)
AtOnce == IF host = "worker" THEN BatchSize ELSE 1

(* What the loader of an entry of the registry asks the registry for, in turn. *)
Parts(m) ==
    IF m = "quality_filter" THEN <<"blur", "pose", "age", "sunglasses">>
    ELSE IF m = "dual_embedder" THEN <<"r100", "mbf", "adaface">> ELSE <<>>

(* What is asked of it before an image is decoded, and for the crop of a selfie. *)
Needs == IF host = "worker" THEN <<"scrfd", "quality_filter", "dual_embedder">>
         ELSE <<"scrfd">>
CropNeeds == <<"blur", "pose", "dual_embedder">>

NoVector == [model |-> "none", of |-> None]
Enough   == [kind |-> "none", size |-> 0]

Steps ==
    [step : {"idle", "detect", "crop", "pose", "age", "store", "end"}]
    \cup [step : {"get", "wait", "load"}, want : Seq(Model) \ {<<>>}]
    \cup [step : {"set", "run", "read"}, lite : Lite]
    \cup [step : {"r100", "adaface"}, size : 1..BatchSize]

Answers == [status : {"none", "error", "no_face", "liveness_failed"}]
    \cup [status : {"low_quality"}, issue : Flaw]
    \cup [status : {"embedded"}, of : Thread \cup {None}]

Rows == [face : Nat, issue : Flaw, flaws : SUBSET Flaw]
    \cup [face : Nat, model : {"r100", "mbf"}, second : BOOLEAN]

ThreadsOK ==
    /\ host \in {"worker", "api"} /\ backend \in Backend
    /\ at \in [Thread -> Steps]
    /\ flaws \in [Thread -> SUBSET Flaw]
    /\ answer \in [Thread -> Answers]

ModelsOK ==
    /\ registry \subseteq Model /\ owner \in Thread \cup {None}
    /\ loads \in [Model -> Nat]
    /\ input \in [Lite -> Thread \cup {None}] /\ output \in [Lite -> Thread \cup {None}]
    /\ mixed \subseteq Thread
    /\ space \in [Thread -> [model : {"none", "r100", "mbf"}, of : Thread \cup {None}]]
    /\ memory \in [Thread -> [kind : {"none", "cuda", "other"}, size : 0..BatchSize]]

PhotoOK == todo \in Nat /\ buffer \subseteq Nat /\ stored \subseteq Rows

TypeOK == ThreadsOK /\ ModelsOK /\ PhotoOK

Init ==
    /\ host \in {"worker", "api"} /\ backend \in Backend
    /\ registry = {} /\ owner = None /\ loads = [m \in Model |-> 0]
    /\ input = [m \in Lite |-> None] /\ output = [m \in Lite |-> None] /\ mixed = {}
    /\ at = [t \in Thread |-> [step |-> "idle"]]
    /\ image = [t \in Thread |-> None]
    /\ todo = 0 /\ buffer = {} /\ stored = {}
    /\ flaws = [t \in Thread |-> {}]
    /\ space = [t \in Thread |-> NoVector] /\ memory = [t \in Thread |-> Enough]
    /\ answer = [t \in Thread |-> [status |-> "none"]]

------------------------------------------------------------------------------
At(t, step) == at[t].step = step
Goes(t, s)  == at' = [at EXCEPT ![t] = s]

(* The thread is done.  Its result reaches a request that is still being waited for. *)
Ends(t, result) ==
    /\ Goes(t, [step |-> "end"])
    /\ answer' = IF answer[t].status = "none" THEN [answer EXCEPT ![t] = result] ELSE answer

Raises(t) == Ends(t, [status |-> "error"])

(* A worker's thread takes one photo; a selfie gets a thread of its own. *)
Begins(t) ==
    /\ At(t, "idle")
    /\ host = "worker" => \A u \in Thread : At(u, "idle")
    /\ Goes(t, [step |-> "get", want |-> Needs])
    /\ UNCHANGED <<process, models, tflite, image, photo, flaws, vectors, answer>>

(* ModelRegistry.get_model: looks without the lock, then again with it. *)
Misses(t) ==
    /\ At(t, "get") /\ Head(at[t].want) \notin registry
    /\ Goes(t, [at[t] EXCEPT !.step = "wait"])
    /\ UNCHANGED <<process, models, tflite, image, photo, flaws, vectors, answer>>

Locks(t) ==
    /\ At(t, "wait") /\ owner = None
    /\ owner' = t /\ Goes(t, [at[t] EXCEPT !.step = "load"])
    /\ UNCHANGED <<process, registry, loads, tflite, image, photo, flaws, vectors, answer>>

(* Constructs the model with those parts the registry does not hold, up to the first *)
(* that cannot be loaded; the ones before it stay in the registry.                    *)
Constructs(m) ==
    LET needs == Append(Parts(m), m)
    IN  \E n \in 0..Len(needs) :
        LET new == {needs[i] : i \in 1..n} \ registry
        IN  /\ registry' = registry \cup new
            /\ loads' = [k \in Model |-> IF k \in new THEN loads[k] + 1 ELSE loads[k]]

(* Mutant: the registry is not looked at again once the lock is held. *)
LoadsUnseen(t) ==
    /\ At(t, "load")
    /\ owner' = None
    /\ registry' = registry \cup {Head(at[t].want)}
    /\ loads' = [loads EXCEPT ![Head(at[t].want)] = @ + 1]
    /\ Goes(t, [at[t] EXCEPT !.step = "get"])
    /\ UNCHANGED <<process, tflite, image, photo, flaws, vectors, answer>>

Loads(t) ==
    /\ At(t, "load")
    /\ owner' = None
    /\ IF Head(at[t].want) \in registry THEN UNCHANGED <<registry, loads>>
       ELSE Constructs(Head(at[t].want))
    /\ IF Head(at[t].want) \in registry'
       THEN Goes(t, [at[t] EXCEPT !.step = "get"]) /\ UNCHANGED answer
       ELSE Raises(t)
    /\ UNCHANGED <<process, tflite, image, photo, flaws, vectors>>

(* Takes the model from the registry; a selfie's last one is followed by its gates. *)
Has(t) ==
    /\ At(t, "get") /\ Head(at[t].want) \in registry
    /\ LET rest == Tail(at[t].want)
       IN  Goes(t, IF rest # <<>> THEN [step |-> "get", want |-> rest]
                   ELSE IF host = "api" /\ Head(at[t].want) # "scrfd"
                   THEN [step |-> "set", lite |-> "blur"] ELSE [step |-> "detect"])
    /\ UNCHANGED <<process, models, tflite, image, photo, flaws, vectors, answer>>

------------------------------------------------------------------------------
(* A photo: whatever the network may find in it. *)
Detects(t) ==
    /\ At(t, "detect") /\ host = "worker"
    /\ \E boxes \in Image(Score) :
        image' = [image EXCEPT ![t] = [boxes |-> boxes, kept |-> Autodetect(boxes)]]
    /\ Goes(t, [step |-> "crop"])
    /\ UNCHANGED <<process, models, tflite, photo, flaws, vectors, answer>>

(* The photo or the selfie cannot be decoded, or the detector raises. *)
DetectFails(t) ==
    /\ At(t, "detect") /\ Raises(t)
    /\ UNCHANGED <<process, models, tflite, image, photo, flaws, vectors>>

(* The next crop, with whatever may be wrong with it. *)
TakesCrop(t) == \E f \in SUBSET Flaw : flaws' = [flaws EXCEPT ![t] = f]

(* Every face of a photo is cropped. *)
CropAll(t) ==
    /\ At(t, "crop")
    /\ image' = [image EXCEPT ![t] = None]
    /\ todo' = Cardinality(Faces(image[t].kept, TRUE))
    /\ IF todo' = 0 THEN Goes(t, [step |-> "end"]) /\ UNCHANGED flaws
       ELSE Goes(t, [step |-> "set", lite |-> "blur"]) /\ TakesCrop(t)
    /\ UNCHANGED <<process, models, tflite, buffer, stored, vectors, answer>>

(* Neither too small nor too large and found with confidence. *)
LooksLive(f) == f.width \in MinLive..MaxLive /\ f.score >= LiveScore

(* A selfie, of up to two faces: the one nearest to the middle is looked at.  What it *)
(* may look like: *)
Primary ==
    {LET candidates == Faces(Autodetect(boxes), landmarks)
     IN  IF candidates = {} THEN "no_face"
         ELSE IF LooksLive(SelectPrimary(candidates)) THEN "live" ELSE "not_live" :
            boxes \in Image({LiveScore, TopScore}), landmarks \in BOOLEAN}

(* The frame may be blurred or grey as well.  Age is no flaw of a selfie. *)
DetectsPrimary(t) ==
    /\ At(t, "detect") /\ host = "api"
    /\ \E face \in Primary :
        \/ /\ face = "no_face" /\ Ends(t, [status |-> "no_face"])
           /\ UNCHANGED flaws
        \/ /\ face # "no_face" /\ Ends(t, [status |-> "liveness_failed"])
           /\ UNCHANGED flaws
        \/ /\ face = "live"
           /\ Goes(t, [step |-> "get", want |-> CropNeeds])
           /\ \E f \in SUBSET {"blur", "pose"} : flaws' = [flaws EXCEPT ![t] = f]
           /\ UNCHANGED answer
    /\ UNCHANGED <<process, models, tflite, image, photo, vectors>>

------------------------------------------------------------------------------
(* On to the next face of the photo, or to the embedder with those that passed. *)
NextFace(t, passed) ==
    /\ todo' = todo - 1 /\ buffer' = passed
    /\ IF todo > 1
       THEN Goes(t, [step |-> "set", lite |-> "blur"]) /\ TakesCrop(t)
       ELSE /\ Goes(t, IF passed = {} THEN [step |-> "end"]
                       ELSE [step |-> "r100", size |-> AtOnce])
            /\ UNCHANGED flaws

(* A rejected face of a photo is stored without a vector; a rejected selfie answers. *)
Rejects(t, issue) ==
    \/ /\ host = "worker" /\ NextFace(t, buffer)
       /\ stored' = stored \cup {[face |-> todo, issue |-> issue, flaws |-> flaws[t]]}
       /\ UNCHANGED answer
    \/ /\ host = "api" /\ Ends(t, [status |-> "low_quality", issue |-> issue])
       /\ UNCHANGED <<photo, flaws>>

Passes(t) ==
    /\ \/ /\ host = "worker" /\ NextFace(t, buffer \cup {todo})
       \/ /\ host = "api" /\ Goes(t, [step |-> "r100", size |-> AtOnce])
          /\ UNCHANGED <<todo, buffer, flaws>>
    /\ UNCHANGED <<stored, answer>>

(* The head pose did not reject.  Selfies skip the age gate. *)
PassesPose(t) ==
    \/ host = "worker" /\ Goes(t, [step |-> "age"]) /\ UNCHANGED <<photo, flaws, answer>>
    \/ host = "api" /\ Passes(t)

(* A TFLite model: set_tensor, invoke, get_tensor. *)
Using(u, m) == at[u] \in [step : {"run", "read"}, lite : {m}]

(* Mutant: an interpreter that has an input keeps it. *)
SetsOnce(t) ==
    /\ At(t, "set")
    /\ input' = IF input[at[t].lite] = None THEN [input EXCEPT ![at[t].lite] = t] ELSE input
    /\ Goes(t, [step |-> "run", lite |-> at[t].lite])
    /\ UNCHANGED <<process, models, output, mixed, image, photo, flaws, vectors, answer>>

Sets(t) ==
    /\ At(t, "set")
    /\ LET m == at[t].lite
           others == {u \in Thread \ {t} : Using(u, m)}
       IN  /\ input' = [input EXCEPT ![m] = t]
           /\ mixed' = IF others = {} THEN mixed ELSE mixed \cup others \cup {t}
           /\ Goes(t, [step |-> "run", lite |-> m])
    /\ UNCHANGED <<process, models, output, image, photo, flaws, vectors, answer>>

Runs(t) ==
    /\ At(t, "run")
    /\ output' = [output EXCEPT ![at[t].lite] = input[at[t].lite]]
    /\ Goes(t, [step |-> "read", lite |-> at[t].lite])
    /\ UNCHANGED <<process, models, input, mixed, image, photo, flaws, vectors, answer>>

(* It raises: a gate lets the crop pass, the embedder gives up. *)
LiteFails(t) ==
    /\ At(t, "run")
    /\ \/ /\ at[t].lite = "blur" /\ Goes(t, [step |-> "pose"])
          /\ UNCHANGED <<photo, flaws, answer>>
       \/ at[t].lite = "pose" /\ PassesPose(t)
       \/ at[t].lite = "mbf" /\ Raises(t) /\ UNCHANGED <<photo, flaws>>
    /\ UNCHANGED <<process, models, tflite, image, vectors>>

(* The answer is about the crop the interpreter was given last. *)
Reads(t) ==
    /\ At(t, "read")
    /\ LET m == at[t].lite
           whose == output[m]
       IN  \/ /\ m # "mbf" /\ m \in flaws[whose] /\ Rejects(t, m)
              /\ UNCHANGED space
           \/ /\ m = "blur" /\ m \notin flaws[whose] /\ Goes(t, [step |-> "pose"])
              /\ UNCHANGED <<photo, flaws, space, answer>>
           \/ /\ m = "pose" /\ m \notin flaws[whose] /\ PassesPose(t)
              /\ UNCHANGED space
           \/ /\ m = "mbf" /\ space' = [space EXCEPT ![t] = [model |-> "mbf", of |-> whose]]
              /\ Goes(t, [step |-> "adaface", size |-> AtOnce])
              /\ UNCHANGED <<photo, flaws, answer>>
    /\ UNCHANGED <<process, models, tflite, image, memory>>

(* 3DDFA's own detector looks for the face in the crop: it may find none, or no pose. *)
ThreeDDFA(t) ==
    \/ "pose" \in flaws[t] /\ Rejects(t, "pose")
    \/ PassesPose(t)

(* YPRPredictor: 3DDFA is asked first, and the crop passes if it finds no face; if it *)
(* raises, or could not be loaded, the TFLite model is asked.                         *)
EstimatesPose(t) ==
    /\ At(t, "pose")
    /\ \/ backend = "3ddfa" /\ ThreeDDFA(t)
       \/ Goes(t, [step |-> "set", lite |-> "pose"]) /\ UNCHANGED <<photo, flaws, answer>>
    /\ UNCHANGED <<process, models, tflite, image, vectors>>

(* The age gate: a child is rejected if the estimate is confident. *)
EstimatesAge(t) ==
    /\ At(t, "age")
    /\ \/ "age" \in flaws[t] /\ Rejects(t, "age")
       \/ Passes(t)
    /\ UNCHANGED <<process, models, tflite, image, vectors>>

------------------------------------------------------------------------------
(* DualEmbedder.embed_batch.  R100 goes through the crops in batches; when CUDA has   *)
(* no memory left, in batches of half the size.  MobileFaceNet takes its place when   *)
(* one crop at a time is too much, or the memory of something else has run out.       *)
EmbedsR100(t) ==
    /\ At(t, "r100")
    /\ space' = [space EXCEPT ![t] = [model |-> "r100", of |-> t]]
    /\ Goes(t, [step |-> "adaface", size |-> AtOnce])
    /\ UNCHANGED <<process, models, tflite, image, photo, flaws, memory, answer>>

Halves(t, step) == /\ at[t].size > 1
                   /\ Goes(t, [step |-> step, size |-> at[t].size \div 2])

FallsBack(t, kind) ==
    \/ kind = "cuda" /\ Halves(t, "r100") /\ UNCHANGED memory
    \/ /\ kind = "cuda" => at[t].size = 1
       /\ memory' = [memory EXCEPT ![t] = [kind |-> kind, size |-> at[t].size]]
       /\ Goes(t, [step |-> "set", lite |-> "mbf"])

R100OutOfMemory(t) ==
    /\ At(t, "r100")
    /\ \E kind \in {"cuda", "other"} : FallsBack(t, kind)
    /\ UNCHANGED <<process, models, tflite, image, photo, flaws, space, answer>>

(* Mutant: MobileFaceNet takes its place whatever the error was. *)
R100FailsOver(t) ==
    /\ At(t, "r100") /\ Goes(t, [step |-> "set", lite |-> "mbf"])
    /\ UNCHANGED <<process, models, tflite, image, photo, flaws, vectors, answer>>

(* Any other error of R100 is the batch's. *)
R100Fails(t) ==
    /\ At(t, "r100") /\ Raises(t)
    /\ UNCHANGED <<process, models, tflite, image, photo, flaws, vectors>>

(* The faces get their rows, the selfie its vector: with a second one, from AdaFace,  *)
(* unless that has failed.                                                            *)
Stores(t, second) ==
    \/ /\ host = "worker" /\ Goes(t, [step |-> "end"])
       /\ stored' = stored \cup
            {[face |-> f, model |-> space[t].model, second |-> second] : f \in buffer}
       /\ UNCHANGED answer
    \/ /\ host = "api"
       /\ Ends(t, [status |-> "embedded", of |-> space[t].of])
       /\ UNCHANGED stored

AdaFace(t) ==
    /\ At(t, "adaface")
    /\ \/ /\ \E second \in BOOLEAN : Stores(t, second)
          /\ space' = [space EXCEPT ![t] = NoVector]
          /\ memory' = [memory EXCEPT ![t] = Enough]
       \/ Halves(t, "adaface") /\ UNCHANGED <<stored, vectors, answer>>
    /\ UNCHANGED <<process, models, tflite, image, todo, buffer, flaws>>

(* selfie_match_timeout_seconds: the request is answered, its thread goes on. *)
TimesOut(t) ==
    /\ host = "api" /\ ~At(t, "idle") /\ ~At(t, "end")
    /\ answer[t].status = "none"
    /\ answer' = [answer EXCEPT ![t] = [status |-> "error"]]
    /\ UNCHANGED <<process, models, tflite, at, image, photo, flaws, vectors>>

Step(t) ==
    \/ Begins(t) \/ Misses(t) \/ Locks(t) \/ Loads(t) \/ Has(t)
    \/ Detects(t) \/ DetectFails(t) \/ CropAll(t) \/ DetectsPrimary(t)
    \/ Sets(t) \/ Runs(t) \/ LiteFails(t) \/ Reads(t)
    \/ EstimatesPose(t) \/ EstimatesAge(t)
    \/ EmbedsR100(t) \/ R100OutOfMemory(t) \/ R100Fails(t) \/ AdaFace(t) \/ TimesOut(t)

Next == \E t \in Thread : Step(t)

Spec == Init /\ [][Next]_vars

------------------------------------------------------------------------------
(* The faces of an image are each there once: none was left out for another that is   *)
(* not nearly the same box, except where suppression at one scale passed a face over  *)
(* in favour of a box that the other scale's then replaced (scrfd.py, _autodetect).   *)
DetectsEachFaceOnce ==
    \A t \in Thread : image[t] # None => IsDetection(image[t].kept, image[t].boxes)

(* A crop is rejected only for what is wrong with it, and a selfie's vector is that   *)
(* of its own face, unless its thread and another were between setting and reading    *)
(* the same interpreter (blur_detector.py, ypr_tflite.py, mobilefacenet.py).          *)
JudgedOnOwnCrop ==
    /\ \A r \in stored : "issue" \in DOMAIN r => r.issue \in r.flaws
    /\ \A t \in Thread \ mixed :
        /\ answer[t].status = "low_quality" => answer[t].issue \in flaws[t]
        /\ answer[t].status = "embedded" => answer[t].of = t

(* Vectors of MobileFaceNet, which no R100 vector compares with, come only of memory  *)
(* that ran out: CUDA's for a single crop, or another's (dual_embedder.py).           *)
SwapsOnlyOutOfMemory ==
    \A t \in Thread : space[t].model = "mbf" =>
        \/ memory[t].kind = "other"
        \/ memory[t].kind = "cuda" /\ memory[t].size = 1

(* No model is constructed twice in a process, however many threads ask for it at     *)
(* once and whatever fails to load (model_registry.py, get_model).                    *)
ModelsLoadOnce == \A m \in Model : loads[m] <= 1
==============================================================================
