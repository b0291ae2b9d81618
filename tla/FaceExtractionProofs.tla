------------------------- MODULE FaceExtractionProofs -------------------------
(***************************************************************************)
(* Theorems about FaceExtraction, for any threads, batch size and image.   *)
(*                                                                         *)
(* A step belongs to one thread, and what a thread does not share with the *)
(* others stays as it is in their steps (Apart, Quiet).  What it shares is *)
(* the interpreters: one that a thread has set is still set to its crop    *)
(* unless another thread set it meanwhile, and then both are mixed         *)
(* (OwnInv).                                                               *)
(*                                                                         *)
(* Suppression is a recursive function over the subsets of the boxes.      *)
(* What it computes is proved by taking a smallest set of boxes for which  *)
(* it would fail: sets of boxes are well founded (SmallestSet).            *)
(*                                                                         *)
(* The faces of a photo are counted down: those that are still to be       *)
(* judged come before those in the buffer or in the rows (Ahead), and only *)
(* the worker's one thread moves them (PhotoInv).                          *)
(***************************************************************************)
EXTENDS FaceExtraction, FaceClusters, FiniteSetTheorems, TLAPS

USE ExtractionAssumption

-----------------------------------------------------------------------------
(* The inductive invariants *)

\* A model that the registry has not got was never constructed.
RegistryInv == \A m \in Model : loads[m] <= 1 /\ (m \notin registry => loads[m] = 0)

\* A thread at MobileFaceNet is there because memory ran out, or has left it.
OutOfMemory(t) ==
    \/ memory[t].kind = "other"
    \/ memory[t].kind = "cuda" /\ memory[t].size = 1

AtLite(t)    == at[t].step \in {"set", "run", "read"}
AtMbf(t)     == AtLite(t) /\ at[t].lite = "mbf"

MemoryInv == \A t \in Thread : AtMbf(t) \/ space[t].model = "mbf" => OutOfMemory(t)

\* A thread that is not mixed finds what it has put there.
FindsOwn(t) ==
    /\ At(t, "run") => input[at[t].lite] = t
    /\ At(t, "read") => output[at[t].lite] = t
    /\ At(t, "adaface") => space[t].of = t

Judged(t) ==
    /\ answer[t].status = "low_quality" => answer[t].issue \in flaws[t]
    /\ answer[t].status = "embedded" => answer[t].of = t

Within(t, m) == at[t].step \in {"run", "read"} /\ at[t].lite = m

OwnInv ==
    /\ \A t \in Thread \ mixed : FindsOwn(t) /\ Judged(t)
    /\ \A t, u \in Thread, m \in Lite :
          t # u /\ Within(t, m) /\ Within(u, m) => t \in mixed /\ u \in mixed
    /\ \A t \in Thread : answer[t].status \in {"low_quality", "embedded"} => At(t, "end")

\* A worker has one thread that ever began.
WorkerInv ==
    host = "worker" =>
       /\ mixed = {}
       /\ \A t, u \in Thread : t # u => At(t, "idle") \/ At(u, "idle")

RowsInv == \A r \in stored : "issue" \in DOMAIN r => r.issue \in r.flaws

JudgeInv == OwnInv /\ WorkerInv /\ RowsInv

-----------------------------------------------------------------------------
(* Type correctness of what the threads have of their own *)

\* A thread's step, its flaws and its answer keep their types.
Threads == at \in [Thread -> Steps] /\ flaws \in [Thread -> SUBSET Flaw]
           /\ answer \in [Thread -> Answers]

LEMMA StepTypes ==
  /\ \A x \in {"idle", "detect", "crop", "pose", "age", "store", "end"} : [step |-> x] \in Steps
  /\ \A x \in {"set", "run", "read"}, m \in Lite : [step |-> x, lite |-> m] \in Steps
  /\ \A x \in {"r100", "adaface"}, n \in 1..BatchSize : [step |-> x, size |-> n] \in Steps
  /\ \A x \in {"get", "wait", "load"}, s \in Seq(Model) \ {<<>>} : [step |-> x, want |-> s] \in Steps
  BY DEF Steps

LEMMA GoesTyped ==
  ASSUME Threads, NEW t \in Thread, NEW s \in Steps, Goes(t, s)
  PROVE  at' \in [Thread -> Steps]
  BY DEF Threads, Goes

\* What a thread goes on to says what it is at.
LEMMA GoesAt ==
  ASSUME Threads, NEW t \in Thread, NEW s, Goes(t, s)
  PROVE  at'[t] = s /\ \A u \in Thread \ {t} : at'[u] = at[u]
  BY DEF Threads, Goes

LEMMA AtOnceTyped == AtOnce \in 1..BatchSize
  BY DEF AtOnce

LEMMA EndsTyped ==
  ASSUME Threads, NEW t \in Thread, NEW result \in Answers, Ends(t, result)
  PROVE  at' \in [Thread -> Steps] /\ answer' \in [Thread -> Answers]
<1>1. Goes(t, [step |-> "end"])
  BY DEF Ends
<1>2. at' \in [Thread -> Steps]
  BY <1>1, GoesTyped, StepTypes
<1>3. answer' \in [Thread -> Answers]
  BY DEF Ends, Threads
<1> QED
  BY <1>2, <1>3

LEMMA RaisesTyped ==
  ASSUME Threads, NEW t \in Thread, Raises(t)
  PROVE  at' \in [Thread -> Steps] /\ answer' \in [Thread -> Answers]
<1>1. [status |-> "error"] \in Answers
  BY DEF Answers
<1> QED
  BY <1>1, EndsTyped DEF Raises

LEMMA CropTyped ==
  ASSUME Threads, NEW t \in Thread, TakesCrop(t)
  PROVE  flaws' \in [Thread -> SUBSET Flaw]
  BY DEF Threads, TakesCrop

LEMMA NextFaceTyped ==
  ASSUME Threads, NEW t \in Thread, NEW passed, NextFace(t, passed)
  PROVE  at' \in [Thread -> Steps] /\ flaws' \in [Thread -> SUBSET Flaw]
<1>1. CASE Goes(t, [step |-> "set", lite |-> "blur"]) /\ TakesCrop(t)
  <2>1. [step |-> "set", lite |-> "blur"] \in Steps
    BY StepTypes DEF Lite
  <2> QED
    BY <1>1, <2>1, GoesTyped, CropTyped
<1>2. CASE Goes(t, [step |-> "end"]) /\ UNCHANGED flaws
  <2>1. [step |-> "end"] \in Steps
    BY StepTypes
  <2> QED
    BY <1>2, <2>1, GoesTyped DEF Threads
<1>3. CASE Goes(t, [step |-> "r100", size |-> AtOnce]) /\ UNCHANGED flaws
  <2>1. [step |-> "r100", size |-> AtOnce] \in Steps
    BY StepTypes, AtOnceTyped
  <2> QED
    BY <1>3, <2>1, GoesTyped DEF Threads
<1> QED
  BY <1>1, <1>2, <1>3 DEF NextFace

LEMMA RejectsTyped ==
  ASSUME Threads, NEW t \in Thread, NEW issue \in Flaw, Rejects(t, issue)
  PROVE  Threads'
<1>1. CASE NextFace(t, buffer) /\ UNCHANGED answer
  BY <1>1, NextFaceTyped DEF Threads
<1>2. CASE Ends(t, [status |-> "low_quality", issue |-> issue]) /\ UNCHANGED flaws
  <2>1. [status |-> "low_quality", issue |-> issue] \in Answers
    BY DEF Answers
  <2> QED
    BY <1>2, <2>1, EndsTyped DEF Threads
<1> QED
  BY <1>1, <1>2 DEF Rejects

LEMMA PassesTyped ==
  ASSUME Threads, NEW t \in Thread, Passes(t)
  PROVE  Threads'
<1>1. CASE NextFace(t, buffer \cup {todo})
  BY <1>1, NextFaceTyped DEF Passes, Threads
<1>2. CASE Goes(t, [step |-> "r100", size |-> AtOnce]) /\ UNCHANGED flaws
  <2>1. [step |-> "r100", size |-> AtOnce] \in Steps
    BY StepTypes, AtOnceTyped
  <2> QED
    BY <1>2, <2>1, GoesTyped DEF Passes, Threads
<1> QED
  BY <1>1, <1>2 DEF Passes

LEMMA PassesPoseTyped ==
  ASSUME Threads, NEW t \in Thread, PassesPose(t)
  PROVE  Threads'
<1>1. CASE Goes(t, [step |-> "age"]) /\ UNCHANGED <<photo, flaws, answer>>
  <2>1. [step |-> "age"] \in Steps
    BY StepTypes
  <2> QED
    BY <1>1, <2>1, GoesTyped DEF Threads
<1> QED
  BY <1>1, PassesTyped DEF PassesPose

\* What a thread that asks the registry still wants.
LEMMA WantTyped ==
  ASSUME Threads, NEW t \in Thread, at[t].step \in {"get", "wait", "load"}
  PROVE  /\ at[t] = [step |-> at[t].step, want |-> at[t].want]
         /\ at[t].want \in Seq(Model) \ {<<>>}
         /\ Head(at[t].want) \in Model /\ Tail(at[t].want) \in Seq(Model)
         /\ \A x \in {"get", "wait", "load"} : [at[t] EXCEPT !.step = x] \in Steps
<1>1. at[t] \in [step : {"get", "wait", "load"}, want : Seq(Model) \ {<<>>}]
  BY DEF Threads, Steps
<1>2. at[t].want \in Seq(Model) \ {<<>>}
  BY <1>1
<1>3. \A x \in {"get", "wait", "load"} :
         [at[t] EXCEPT !.step = x] \in [step : {"get", "wait", "load"}, want : Seq(Model) \ {<<>>}]
  BY <1>1
<1> QED
  BY <1>1, <1>2, <1>3 DEF Steps

LEMMA NeedsTyped == Needs \in Seq(Model) \ {<<>>} /\ CropNeeds \in Seq(Model) \ {<<>>}
  BY DEF Needs, CropNeeds, Model

LEMMA LiteTyped ==
  ASSUME Threads, NEW t \in Thread, AtLite(t)
  PROVE  at[t] = [step |-> at[t].step, lite |-> at[t].lite] /\ at[t].lite \in Lite
  BY DEF Threads, Steps, AtLite

LEMMA SizeTyped ==
  ASSUME Threads, NEW t \in Thread, at[t].step \in {"r100", "adaface"}
  PROVE  at[t].size \in 1..BatchSize
  BY DEF Threads, Steps

LEMMA HalvesTyped ==
  ASSUME Threads, NEW t \in Thread, NEW after \in {"r100", "adaface"},
         at[t].step \in {"r100", "adaface"}, Halves(t, after)
  PROVE  at' \in [Thread -> Steps]
<1>1. at[t].size \in 1..BatchSize /\ at[t].size > 1
  BY SizeTyped DEF Halves
<1>2. at[t].size \div 2 \in 1..BatchSize
  BY <1>1
<1>3. [step |-> after, size |-> at[t].size \div 2] \in Steps
  BY <1>2, StepTypes
<1> QED
  BY <1>3, GoesTyped DEF Halves

LEMMA StepTyped ==
  ASSUME Threads, ModelsOK, NEW t \in Thread, Step(t)
  PROVE  Threads'
<1> USE DEF tflite, photo, vectors, models, process
<1>a. UNCHANGED <<flaws, answer>> => /\ flaws' \in [Thread -> SUBSET Flaw]
                                   /\ answer' \in [Thread -> Answers]
  BY DEF Threads
<1>b. ASSUME NEW s \in Steps, Goes(t, s), UNCHANGED <<flaws, answer>> PROVE Threads'
  BY <1>a, <1>b, GoesTyped DEF Threads
<1>c. ASSUME Raises(t), UNCHANGED flaws PROVE Threads'
  BY <1>c, RaisesTyped DEF Threads
<1>1. CASE Begins(t)
  <2>1. [step |-> "get", want |-> Needs] \in Steps
    BY StepTypes, NeedsTyped
  <2> QED
    BY <1>1, <1>b, <2>1 DEF Begins
<1>2. CASE Misses(t) \/ Locks(t)
  <2>1. at[t].step \in {"get", "wait"}
    BY <1>2 DEF Misses, Locks, At
  <2>2. ASSUME NEW x \in {"wait", "load"} PROVE [at[t] EXCEPT !.step = x] \in Steps
    BY <2>1, WantTyped
  <2> QED
    BY <1>2, <1>b, <2>2 DEF Misses, Locks
<1>3. CASE Loads(t)
  <2>1. at[t].step = "load"
    BY <1>3 DEF Loads, At
  <2>2. [at[t] EXCEPT !.step = "get"] \in Steps
    BY <2>1, WantTyped
  <2>3. CASE Goes(t, [at[t] EXCEPT !.step = "get"]) /\ UNCHANGED answer
    BY <1>3, <1>b, <2>2, <2>3 DEF Loads
  <2>4. CASE Raises(t)
    BY <1>3, <1>c, <2>4 DEF Loads
  <2> QED
    BY <1>3, <2>3, <2>4 DEF Loads
<1>4. CASE Has(t)
  <2> DEFINE rest == Tail(at[t].want)
  <2>1. rest \in Seq(Model)
    BY <1>4, WantTyped DEF Has, At
  <2>2. [step |-> "set", lite |-> "blur"] \in Steps /\ [step |-> "detect"] \in Steps
    BY StepTypes DEF Lite
  <2>3. rest # <<>> => [step |-> "get", want |-> rest] \in Steps
    BY <2>1, StepTypes
  <2> QED
    BY <1>4, <1>b, <2>2, <2>3 DEF Has
<1>5. CASE Detects(t)
  <2>1. [step |-> "crop"] \in Steps
    BY StepTypes
  <2> QED
    BY <1>5, <1>b, <2>1 DEF Detects
<1>6. CASE DetectFails(t) \/ R100Fails(t)
  BY <1>6, <1>c DEF DetectFails, R100Fails
<1>7. CASE CropAll(t)
  <2>1. [step |-> "end"] \in Steps /\ [step |-> "set", lite |-> "blur"] \in Steps
    BY StepTypes DEF Lite
  <2>2. answer' = answer
    BY <1>7 DEF CropAll
  <2>3. CASE Goes(t, [step |-> "end"]) /\ UNCHANGED flaws
    BY <1>b, <2>1, <2>2, <2>3
  <2>4. CASE Goes(t, [step |-> "set", lite |-> "blur"]) /\ TakesCrop(t)
    BY <2>1, <2>2, <2>4, GoesTyped, CropTyped DEF Threads
  <2> QED
    BY <1>7, <2>3, <2>4 DEF CropAll
<1>8. CASE DetectsPrimary(t)
  <2>1. [status |-> "no_face"] \in Answers /\ [status |-> "liveness_failed"] \in Answers
    BY DEF Answers
  <2>2. [step |-> "get", want |-> CropNeeds] \in Steps
    BY StepTypes, NeedsTyped
  <2>3. CASE UNCHANGED flaws /\ (Ends(t, [status |-> "no_face"]) \/ Ends(t, [status |-> "liveness_failed"]))
    BY <2>1, <2>3, EndsTyped DEF Threads
  <2>4. CASE /\ Goes(t, [step |-> "get", want |-> CropNeeds]) /\ UNCHANGED answer
             /\ \E f \in SUBSET {"blur", "pose"} : flaws' = [flaws EXCEPT ![t] = f]
    <3>1. flaws' \in [Thread -> SUBSET Flaw]
      BY <2>4 DEF Threads, Flaw
    <3> QED
      BY <2>2, <2>4, <3>1, GoesTyped DEF Threads
  <2> QED
    BY <1>8, <2>3, <2>4 DEF DetectsPrimary
<1>9. CASE Sets(t) \/ Runs(t)
  <2>1. at[t].lite \in Lite
    BY <1>9, LiteTyped DEF Sets, Runs, At, AtLite
  <2>2. ASSUME NEW x \in {"run", "read"} PROVE [step |-> x, lite |-> at[t].lite] \in Steps
    BY <2>1, StepTypes
  <2> QED
    BY <1>9, <1>b, <2>2 DEF Sets, Runs
<1>10. CASE LiteFails(t)
  <2>1. [step |-> "pose"] \in Steps
    BY StepTypes
  <2> QED
    BY <1>10, <1>b, <1>c, <2>1, PassesPoseTyped DEF LiteFails
<1>11. CASE Reads(t)
  <2>1. at[t].lite \in Lite
    BY <1>11, LiteTyped DEF Reads, At, AtLite
  <2>2. at[t].lite # "mbf" => at[t].lite \in Flaw
    BY <2>1 DEF Lite, Flaw
  <2>3. [step |-> "pose"] \in Steps /\ [step |-> "adaface", size |-> AtOnce] \in Steps
    BY StepTypes, AtOnceTyped
  <2> QED
    BY <1>11, <1>b, <2>2, <2>3, RejectsTyped, PassesPoseTyped DEF Reads
<1>12. CASE EstimatesPose(t)
  <2>1. [step |-> "set", lite |-> "pose"] \in Steps /\ "pose" \in Flaw
    BY StepTypes DEF Lite, Flaw
  <2> QED
    BY <1>12, <1>b, <2>1, RejectsTyped, PassesPoseTyped DEF EstimatesPose, ThreeDDFA
<1>13. CASE EstimatesAge(t)
  BY <1>13, RejectsTyped, PassesTyped DEF EstimatesAge, Flaw
<1>14. CASE EmbedsR100(t)
  <2>1. [step |-> "adaface", size |-> AtOnce] \in Steps
    BY StepTypes, AtOnceTyped
  <2> QED
    BY <1>14, <1>b, <2>1 DEF EmbedsR100
<1>15. CASE R100OutOfMemory(t)
  <2>1. [step |-> "set", lite |-> "mbf"] \in Steps
    BY StepTypes DEF Lite
  <2>2. CASE Halves(t, "r100")
    BY <1>15, <1>a, <2>2, HalvesTyped DEF R100OutOfMemory, At, Threads
  <2> QED
    BY <1>15, <1>b, <2>1, <2>2 DEF R100OutOfMemory, FallsBack
<1>16. CASE AdaFace(t)
  <2>1. flaws' = flaws
    BY <1>16 DEF AdaFace
  <2>2. CASE Goes(t, [step |-> "end"]) /\ UNCHANGED answer
    <3>1. [step |-> "end"] \in Steps
      BY StepTypes
    <3> QED
      BY <1>b, <2>1, <2>2, <3>1
  <2>5. space[t].of \in Thread \cup {None}
    BY DEF ModelsOK
  <2>3. CASE Ends(t, [status |-> "embedded", of |-> space[t].of])
    <3>1. [status |-> "embedded", of |-> space[t].of] \in Answers
      BY <2>5 DEF Answers
    <3> QED
      BY <2>1, <2>3, <3>1, EndsTyped DEF Threads
  <2>4. CASE Halves(t, "adaface") /\ UNCHANGED answer
    BY <1>16, <1>a, <2>1, <2>4, HalvesTyped DEF AdaFace, At, Threads
  <2> QED
    BY <1>16, <2>2, <2>3, <2>4 DEF AdaFace, Stores
<1>17. CASE TimesOut(t)
  <2>1. [status |-> "error"] \in Answers
    BY DEF Answers
  <2> QED
    BY <1>17, <2>1 DEF TimesOut, Threads
<1> QED
  BY <1>1, <1>2, <1>3, <1>4, <1>5, <1>6, <1>7, <1>8, <1>9, <1>10, <1>11, <1>12, <1>13, <1>14,
     <1>15, <1>16, <1>17, Zenon DEF Step

LEMMA ModelsTyped == ASSUME Threads, ModelsOK, NEW t \in Thread, Step(t) PROVE ModelsOK'
<1> USE DEF tflite, vectors, models
<1>1. CASE UNCHANGED <<registry, owner, loads>> /\ UNCHANGED <<input, output, mixed>> /\ UNCHANGED vectors
  BY <1>1 DEF ModelsOK
<1>2. CASE Locks(t)
  BY <1>2 DEF Locks, ModelsOK
<1>3. CASE Loads(t)
  <2>1. Head(at[t].want) \in Model
    BY <1>3, WantTyped DEF Loads, At
  <2>2. ASSUME NEW m \in Model, Constructs(m)
        PROVE  registry' \subseteq Model /\ loads' \in [Model -> Nat]
    <3>1. PICK n \in 0..Len(Append(Parts(m), m)) :
             /\ registry' = registry \cup ({Append(Parts(m), m)[i] : i \in 1..n} \ registry)
             /\ loads' = [k \in Model |-> IF k \in {Append(Parts(m), m)[i] : i \in 1..n} \ registry
                                         THEN loads[k] + 1 ELSE loads[k]]
      BY <2>2 DEF Constructs
    <3>2. Append(Parts(m), m) \in Seq(Model)
      <4>1. <<"blur", "pose", "age", "sunglasses">> \in Seq(Model)
        BY DEF Model
      <4>2. <<"r100", "mbf", "adaface">> \in Seq(Model)
        BY DEF Model
      <4>3. <<>> \in Seq(Model)
        OBVIOUS
      <4>4. Parts(m) \in Seq(Model)
        BY <4>1, <4>2, <4>3, Zenon DEF Parts
      <4> HIDE DEF Model
      <4> QED
        BY <4>4
    <3> HIDE DEF Model
    <3>3. \A i \in 1..n : Append(Parts(m), m)[i] \in Model
      BY <3>2
    <3> QED
      BY <3>1, <3>3 DEF ModelsOK
  <2> QED
    BY <1>3, <2>1, <2>2 DEF Loads, ModelsOK
<1>4. CASE Sets(t) \/ Runs(t)
  <2>1. at[t].lite \in Lite
    BY <1>4, LiteTyped DEF Sets, Runs, At, AtLite
  <2> QED
    BY <1>4, <2>1 DEF Sets, Runs, ModelsOK
<1>5. CASE Reads(t)
  <2>1. at[t].lite \in Lite
    BY <1>5, LiteTyped DEF Reads, At, AtLite
  <2>2. output[at[t].lite] \in Thread \cup {None}
    BY <2>1 DEF ModelsOK
  <2> QED
    BY <1>5, <2>2 DEF Reads, ModelsOK
<1>6. CASE EmbedsR100(t)
  BY <1>6 DEF EmbedsR100, ModelsOK
<1>7. CASE R100OutOfMemory(t)
  <2>1. at[t].size \in 0..BatchSize
    BY <1>7, SizeTyped DEF R100OutOfMemory, At
  <2> QED
    BY <1>7, <2>1 DEF R100OutOfMemory, FallsBack, ModelsOK
<1>8. CASE AdaFace(t)
  BY <1>8 DEF AdaFace, NoVector, Enough, ModelsOK
<1> QED
  BY <1>1, <1>2, <1>3, <1>4, <1>5, <1>6, <1>7, <1>8
     DEF Step, Begins, Misses, Has, Detects, DetectFails, CropAll, DetectsPrimary, LiteFails,
         EstimatesPose, EstimatesAge, R100Fails, TimesOut

LEMMA HostStays == ASSUME NEW t \in Thread, Step(t) PROVE UNCHANGED process
  BY DEF Step, Begins, Misses, Locks, Loads, Has, Detects, DetectFails, CropAll, DetectsPrimary,
         Sets, Runs, LiteFails, Reads, EstimatesPose, EstimatesAge, EmbedsR100, R100OutOfMemory,
         R100Fails, AdaFace, TimesOut

ExtractionTyped == ThreadsOK /\ ModelsOK

LEMMA InitTyped == Init => ExtractionTyped
<1> SUFFICES ASSUME Init PROVE ExtractionTyped
  OBVIOUS
<1>1. [step |-> "idle"] \in Steps
  BY StepTypes
<1>2. [status |-> "none"] \in Answers
  BY DEF Answers
<1>3. ThreadsOK
  BY <1>1, <1>2 DEF Init, ThreadsOK
<1>4. ModelsOK
  BY DEF Init, ModelsOK, NoVector, Enough
<1> QED
  BY <1>3, <1>4 DEF ExtractionTyped

LEMMA NextTyped == ExtractionTyped /\ [Next]_vars => ExtractionTyped'
<1> SUFFICES ASSUME ExtractionTyped, [Next]_vars PROVE ExtractionTyped'
  OBVIOUS
<1>1. ASSUME NEW t \in Thread, Step(t) PROVE ExtractionTyped'
  BY <1>1, StepTyped, ModelsTyped, HostStays DEF ExtractionTyped, ThreadsOK, Threads, process
<1>2. CASE UNCHANGED vars
  BY <1>2 DEF vars, process, models, tflite, vectors, ExtractionTyped, ThreadsOK, ModelsOK
<1> QED
  BY <1>1, <1>2 DEF Next

-----------------------------------------------------------------------------
(* The registry *)

LEMMA RegistryKept == ExtractionTyped /\ RegistryInv /\ [Next]_vars => RegistryInv'
<1> SUFFICES ASSUME ExtractionTyped, RegistryInv, [Next]_vars PROVE RegistryInv'
  OBVIOUS
<1>1. CASE UNCHANGED <<registry, loads>>
  BY <1>1 DEF RegistryInv
<1>2. ASSUME NEW t \in Thread, Loads(t) PROVE RegistryInv'
  <2>1. ASSUME NEW m, Constructs(m) PROVE RegistryInv'
    <3>1. PICK new : /\ new \cap registry = {} /\ registry' = registry \cup new
                     /\ loads' = [k \in Model |-> IF k \in new THEN loads[k] + 1 ELSE loads[k]]
      BY <2>1 DEF Constructs
    <3> QED
      BY <3>1 DEF RegistryInv, ExtractionTyped, ModelsOK
  <2> QED
    BY <1>1, <1>2, <2>1 DEF Loads
<1>3. ASSUME NEW t \in Thread, Step(t), ~Loads(t) PROVE UNCHANGED <<registry, loads>>
  BY <1>3 DEF models, Step, Begins, Misses, Locks, Has, Detects, DetectFails, CropAll, DetectsPrimary,
         Sets, Runs, LiteFails, Reads, EstimatesPose, EstimatesAge, EmbedsR100, R100OutOfMemory,
         R100Fails, AdaFace, TimesOut
<1>4. CASE UNCHANGED vars
  BY <1>1, <1>4 DEF vars, models
<1> QED
  BY <1>1, <1>2, <1>3, <1>4 DEF Next

\* However many threads ask for a model at once, and whatever fails to load, no model is
\* constructed twice (model_registry.py, get_model).
THEOREM LoadsAtMostOnce == Spec => []ModelsLoadOnce
<1>1. Init => RegistryInv
  BY DEF Init, RegistryInv
<1>2. RegistryInv => ModelsLoadOnce
  BY DEF RegistryInv, ModelsLoadOnce
<1> QED
  BY <1>1, <1>2, InitTyped, NextTyped, RegistryKept, PTL DEF Spec

-----------------------------------------------------------------------------
(* What a thread does not share *)

\* Where a thread may go on to a face, to the embedder or to its end, and with what.
Onward(t) ==
    at'[t] \in [step : {"set"}, lite : {"blur", "pose"}] \cup [step : {"pose", "age", "end"}]
             \cup [step : {"r100"}, size : {AtOnce}]

Apart(t, u) ==
    at'[u] = at[u] /\ flaws'[u] = flaws[u] /\ answer'[u] = answer[u]

LEMMA EndsOnward ==
  ASSUME Threads, NEW t \in Thread, NEW result, Ends(t, result)
  PROVE  /\ at'[t] = [step |-> "end"] /\ answer'[t] \in {answer[t], result}
         /\ answer[t].status # "none" => answer'[t] = answer[t]
         /\ \A u \in Thread \ {t} : at'[u] = at[u] /\ answer'[u] = answer[u]
  BY DEF Ends, Goes, Threads

LEMMA NextFaceOnward ==
  ASSUME Threads, NEW t \in Thread, NEW passed, NextFace(t, passed)
  PROVE  /\ Onward(t)
         /\ \A u \in Thread \ {t} : at'[u] = at[u] /\ flaws'[u] = flaws[u]
  BY DEF NextFace, TakesCrop, Goes, Threads, Onward

LEMMA RejectsOnward ==
  ASSUME Threads, NEW t \in Thread, NEW issue, Rejects(t, issue)
  PROVE  /\ Onward(t) /\ \A u \in Thread \ {t} : Apart(t, u)
         /\ \/ answer' = answer
            \/ /\ flaws' = flaws /\ stored' = stored /\ At(t, "end")'
               /\ answer'[t] \in {answer[t], [status |-> "low_quality", issue |-> issue]}
         /\ \A r \in stored' : r \in stored \/ r = [face |-> todo, issue |-> issue, flaws |-> flaws[t]]
<1>1. CASE NextFace(t, buffer) /\ UNCHANGED answer
           /\ stored' = stored \cup {[face |-> todo, issue |-> issue, flaws |-> flaws[t]]}
  BY <1>1, NextFaceOnward DEF Apart
<1>2. CASE Ends(t, [status |-> "low_quality", issue |-> issue]) /\ UNCHANGED <<photo, flaws>>
  BY <1>2, EndsOnward DEF Apart, photo, Onward, At
<1> QED
  BY <1>1, <1>2 DEF Rejects

LEMMA PassesOnward ==
  ASSUME Threads, NEW t \in Thread, Passes(t) \/ PassesPose(t)
  PROVE  Onward(t) /\ (\A u \in Thread \ {t} : Apart(t, u)) /\ UNCHANGED <<stored, answer>>
<1>1. CASE Passes(t)
  <2>1. CASE NextFace(t, buffer \cup {todo})
    BY <1>1, <2>1, NextFaceOnward DEF Passes, Apart
  <2>2. CASE Goes(t, [step |-> "r100", size |-> AtOnce]) /\ UNCHANGED flaws
    BY <1>1, <2>2, GoesAt DEF Passes, Apart, Onward
  <2> QED
    BY <1>1, <2>1, <2>2 DEF Passes
<1>2. CASE Goes(t, [step |-> "age"]) /\ UNCHANGED <<photo, flaws, answer>>
  BY <1>2, GoesAt DEF Apart, Onward, photo
<1> QED
  BY <1>1, <1>2 DEF PassesPose

LEMMA RaisesOnward ==
  ASSUME Threads, NEW t \in Thread, Raises(t)
  PROVE  /\ at'[t] = [step |-> "end"] /\ Onward(t)
         /\ answer'[t] \in {answer[t], [status |-> "error"]}
         /\ \A u \in Thread \ {t} : at'[u] = at[u] /\ answer'[u] = answer[u]
  BY EndsOnward DEF Raises, Onward

\* A thread that has ended does nothing, and an idle one only begins.
LEMMA StepFrom ==
  ASSUME NEW t \in Thread, Step(t)
  PROVE  ~At(t, "end") /\ (At(t, "idle") => Begins(t))
  BY DEF At, Step, Begins, Misses, Locks, Loads, Has, Detects, DetectFails, CropAll, DetectsPrimary,
         Sets, Runs, LiteFails, Reads, EstimatesPose, EstimatesAge, EmbedsR100, R100OutOfMemory,
         R100Fails, AdaFace, TimesOut

\* What is added to the rows is judged rightly.
RowsRight == \A r \in stored' : r \in stored \/ ("issue" \in DOMAIN r => r.issue \in r.flaws)

\* A thread's answer is about its own crop.
AnswersRight(t) ==
    \/ answer'[t] = answer[t]
    \/ answer'[t].status \notin {"low_quality", "embedded"}
    \/ /\ answer'[t].status = "low_quality" /\ answer'[t].issue \in flaws[t]
       /\ At(t, "end")' /\ flaws' = flaws

\* A step that takes no part in an interpreter and in the embeddings.
Quiet(t) ==
    /\ ~Within(t, "blur")' /\ ~Within(t, "pose")' /\ ~AtMbf(t)' /\ ~At(t, "adaface")'
    /\ ~At(t, "run")' /\ ~At(t, "read")'
    /\ \A u \in Thread \ {t} : Apart(t, u)
    /\ RowsRight /\ AnswersRight(t)

LEMMA OnwardQuiet ==
  ASSUME NEW t \in Thread, Onward(t), \A u \in Thread \ {t} : Apart(t, u), RowsRight, AnswersRight(t)
  PROVE  Quiet(t)
  BY DEF Onward, Quiet, Within, AtMbf, AtLite, At

LEMMA RejectsQuiet ==
  ASSUME Threads, NEW t \in Thread, NEW issue, issue \in flaws[t], Rejects(t, issue)
  PROVE  Quiet(t)
<1>1. RowsRight
  BY RejectsOnward DEF RowsRight
<1>2. AnswersRight(t)
  BY RejectsOnward DEF AnswersRight
<1> QED
  BY <1>1, <1>2, RejectsOnward, OnwardQuiet

LEMMA PassesQuiet ==
  ASSUME Threads, NEW t \in Thread, Passes(t) \/ PassesPose(t)
  PROVE  Quiet(t)
  BY PassesOnward, OnwardQuiet DEF RowsRight, AnswersRight

LEMMA RaisesQuiet ==
  ASSUME Threads, NEW t \in Thread, Raises(t), UNCHANGED <<flaws, stored>>
  PROVE  Quiet(t)
  BY RaisesOnward, OnwardQuiet DEF RowsRight, AnswersRight, Apart

\* The thread goes on to a step that is not one of an interpreter or of the embeddings.
LEMMA GoesQuiet ==
  ASSUME Threads, NEW t \in Thread, NEW s, Goes(t, s), UNCHANGED <<flaws, stored, answer>>,
         s.step \in {"idle", "detect", "crop", "pose", "age", "end", "get", "wait", "load", "r100"}
         \/ (s.step = "set" /\ s.lite \in {"blur", "pose"})
  PROVE  Quiet(t)
<1>1. at'[t] = s /\ \A u \in Thread \ {t} : Apart(t, u)
  BY GoesAt DEF Apart
<1> QED
  BY <1>1 DEF Quiet, RowsRight, AnswersRight, Within, AtMbf, AtLite, At

LEMMA QuietSteps ==
  ASSUME Threads, NEW t \in Thread,
         \/ Begins(t) \/ Misses(t) \/ Locks(t) \/ Loads(t) \/ Has(t)
         \/ Detects(t) \/ DetectFails(t) \/ CropAll(t) \/ DetectsPrimary(t)
         \/ LiteFails(t) \/ EstimatesPose(t) \/ EstimatesAge(t) \/ R100Fails(t)
  PROVE  Quiet(t) /\ UNCHANGED <<tflite, vectors>>
<1>1. UNCHANGED <<tflite, vectors>>
  BY DEF Begins, Misses, Locks, Loads, Has, Detects, DetectFails, CropAll, DetectsPrimary, LiteFails,
         EstimatesPose, EstimatesAge, R100Fails
<1>2. CASE Begins(t) \/ Detects(t)
  BY <1>2, GoesQuiet DEF Begins, Detects, photo
<1>3. CASE Misses(t) \/ Locks(t)
  <2>1. at[t] = [step |-> at[t].step, want |-> at[t].want]
    BY <1>3, WantTyped DEF Misses, Locks, At
  <2>2. \A x \in {"wait", "load"} : [at[t] EXCEPT !.step = x].step = x
    BY <2>1
  <2> QED
    BY <1>3, <2>2, GoesQuiet DEF Misses, Locks, photo
<1>4. CASE Loads(t)
  <2>1. at[t] = [step |-> at[t].step, want |-> at[t].want]
    BY <1>4, WantTyped DEF Loads, At
  <2>2. [at[t] EXCEPT !.step = "get"].step = "get"
    BY <2>1
  <2> QED
    BY <1>4, <2>2, GoesQuiet, RaisesQuiet DEF Loads, photo
<1>5. CASE Has(t)
  BY <1>5, GoesQuiet DEF Has, photo
<1>6. CASE DetectFails(t) \/ R100Fails(t)
  BY <1>6, RaisesQuiet DEF DetectFails, R100Fails, photo
<1>7. CASE CropAll(t)
  <2>1. /\ at'[t] \in {[step |-> "end"], [step |-> "set", lite |-> "blur"]}
        /\ \A u \in Thread \ {t} : Apart(t, u)
    BY <1>7 DEF CropAll, TakesCrop, Goes, Threads, Apart
  <2> QED
    BY <1>7, <2>1, OnwardQuiet DEF CropAll, Onward, RowsRight, AnswersRight
<1>8. CASE DetectsPrimary(t)
  <2>0. stored' = stored
    BY <1>8 DEF DetectsPrimary, photo
  <2>1. CASE UNCHANGED flaws /\ (Ends(t, [status |-> "no_face"]) \/ Ends(t, [status |-> "liveness_failed"]))
    <3>1. /\ at'[t] = [step |-> "end"] /\ \A u \in Thread \ {t} : Apart(t, u)
          /\ answer'[t] = answer[t] \/ answer'[t] = [status |-> "no_face"]
             \/ answer'[t] = [status |-> "liveness_failed"]
      BY <2>1, EndsOnward DEF Apart
    <3>2. AnswersRight(t)
      BY <3>1 DEF AnswersRight
    <3> QED
      BY <1>1, <2>0, <3>1, <3>2, OnwardQuiet DEF Onward, RowsRight
  <2>2. CASE /\ Goes(t, [step |-> "get", want |-> CropNeeds]) /\ UNCHANGED answer
             /\ \E f \in SUBSET {"blur", "pose"} : flaws' = [flaws EXCEPT ![t] = f]
    <3>1. at'[t].step = "get" /\ \A u \in Thread \ {t} : Apart(t, u)
      BY <2>2 DEF Goes, Threads, Apart
    <3> QED
      <4>1. RowsRight /\ AnswersRight(t)
        BY <2>0, <2>2 DEF RowsRight, AnswersRight
      <4> QED
        BY <1>1, <3>1, <4>1 DEF Quiet, Within, AtMbf, AtLite, At
  <2> QED
    BY <1>8, <2>1, <2>2 DEF DetectsPrimary
<1>9. CASE LiteFails(t)
  BY <1>9, GoesQuiet, PassesQuiet, RaisesQuiet DEF LiteFails, photo
<1>10. CASE EstimatesPose(t)
  BY <1>10, GoesQuiet, PassesQuiet, RejectsQuiet DEF EstimatesPose, ThreeDDFA, photo
<1>11. CASE EstimatesAge(t)
  BY <1>11, PassesQuiet, RejectsQuiet DEF EstimatesAge
<1> QED
  BY <1>1, <1>2, <1>3, <1>4, <1>5, <1>6, <1>7, <1>8, <1>9, <1>10, <1>11

LEMMA SetsRuns ==
  ASSUME Threads, NEW t \in Thread, Sets(t) \/ Runs(t)
  PROVE  /\ at'[t] = [step |-> IF At(t, "set") THEN "run" ELSE "read", lite |-> at[t].lite]
         /\ \A u \in Thread \ {t} : at'[u] = at[u]
         /\ AtLite(t) /\ at[t].lite \in Lite
         /\ UNCHANGED <<flaws, stored, answer, space, memory>>
<1>1. AtLite(t)
  BY DEF Sets, Runs, At, AtLite
<1>2. Sets(t) => Goes(t, [step |-> "run", lite |-> at[t].lite]) /\ At(t, "set")
  BY DEF Sets
<1>3. Runs(t) => Goes(t, [step |-> "read", lite |-> at[t].lite]) /\ At(t, "run")
  BY DEF Runs
<1>4. UNCHANGED <<flaws, stored, answer, space, memory>>
  BY DEF Sets, Runs, photo, vectors
<1> QED
  BY <1>1, <1>2, <1>3, <1>4, GoesAt, LiteTyped DEF At

\* The answer of an interpreter that a gate has read: on to the next gate, or rejected.
LEMMA GateReads ==
  ASSUME Threads, NEW t \in Thread, Reads(t), at[t].lite # "mbf",
         output[at[t].lite] = t
  PROVE  Quiet(t) /\ UNCHANGED <<space, memory>>
  BY GoesQuiet, PassesQuiet, RejectsQuiet DEF Reads, photo

\* Whoever's crop it was about, it does not bring a thread to MobileFaceNet.
LEMMA GateReadsOnward ==
  ASSUME Threads, NEW t \in Thread, Reads(t), at[t].lite # "mbf"
  PROVE  /\ Onward(t) /\ UNCHANGED <<space, memory>>
         /\ \A u \in Thread \ {t} : Apart(t, u)
<1>1. CASE Goes(t, [step |-> "pose"]) /\ UNCHANGED <<flaws, answer>>
  BY <1>1, GoesAt DEF Reads, Onward, Apart
<1> QED
  BY <1>1, PassesOnward, RejectsOnward DEF Reads

LEMMA MbfReads ==
  ASSUME Threads, NEW t \in Thread, Reads(t), at[t].lite = "mbf"
  PROVE  /\ at'[t] = [step |-> "adaface", size |-> AtOnce] /\ UNCHANGED <<stored, flaws, answer, memory>>
         /\ space' = [space EXCEPT ![t] = [model |-> "mbf", of |-> output["mbf"]]]
         /\ \A u \in Thread \ {t} : at'[u] = at[u]
<1>1. /\ Goes(t, [step |-> "adaface", size |-> AtOnce]) /\ UNCHANGED <<photo, flaws, answer, memory>>
      /\ space' = [space EXCEPT ![t] = [model |-> "mbf", of |-> output["mbf"]]]
  BY DEF Reads
<1> QED
  BY <1>1, GoesAt DEF photo

LEMMA MemoryFails ==
  ASSUME Threads, NEW t \in Thread, R100OutOfMemory(t)
  PROVE  /\ UNCHANGED <<flaws, stored, answer, space>>
         /\ \A u \in Thread \ {t} : at'[u] = at[u]
         /\ \/ at'[t].step = "r100" /\ memory' = memory
            \/ /\ at'[t] = [step |-> "set", lite |-> "mbf"]
               /\ \E kind \in {"cuda", "other"}, n \in 1..BatchSize :
                     /\ memory' = [memory EXCEPT ![t] = [kind |-> kind, size |-> n]]
                     /\ kind = "cuda" => n = 1
<1>1. UNCHANGED <<flaws, stored, answer, space>> /\ at[t].size \in 1..BatchSize
  BY SizeTyped DEF R100OutOfMemory, photo, At
<1>2. PICK kind \in {"cuda", "other"} : FallsBack(t, kind)
  BY DEF R100OutOfMemory
<1>3. CASE Halves(t, "r100") /\ UNCHANGED memory
  BY <1>1, <1>3, GoesAt DEF Halves
<1>4. CASE /\ kind = "cuda" => at[t].size = 1
           /\ memory' = [memory EXCEPT ![t] = [kind |-> kind, size |-> at[t].size]]
           /\ Goes(t, [step |-> "set", lite |-> "mbf"])
  BY <1>1, <1>4, GoesAt
<1> QED
  BY <1>2, <1>3, <1>4 DEF FallsBack

LEMMA AdaFaces ==
  ASSUME Threads, NEW t \in Thread, AdaFace(t)
  PROVE  /\ flaws' = flaws /\ \A u \in Thread \ {t} : at'[u] = at[u] /\ answer'[u] = answer[u]
         /\ \A r \in stored' : r \in stored \/ "issue" \notin DOMAIN r
         /\ \/ /\ at'[t].step = "adaface" /\ UNCHANGED <<space, memory, answer>>
            \/ /\ At(t, "end")' /\ space' = [space EXCEPT ![t] = NoVector]
               /\ memory' = [memory EXCEPT ![t] = Enough]
               /\ answer'[t] \in {answer[t], [status |-> "embedded", of |-> space[t].of]}
<1>1. flaws' = flaws
  BY DEF AdaFace
<1>2. CASE Halves(t, "adaface") /\ UNCHANGED <<stored, vectors, answer>>
  BY <1>1, <1>2, GoesAt DEF Halves, vectors
<1>3. ASSUME NEW second \in BOOLEAN, Stores(t, second), space' = [space EXCEPT ![t] = NoVector],
             memory' = [memory EXCEPT ![t] = Enough]
      PROVE  /\ \A u \in Thread \ {t} : at'[u] = at[u] /\ answer'[u] = answer[u]
             /\ \A r \in stored' : r \in stored \/ "issue" \notin DOMAIN r
             /\ At(t, "end")'
             /\ answer'[t] \in {answer[t], [status |-> "embedded", of |-> space[t].of]}
  <2>1. CASE /\ Goes(t, [step |-> "end"]) /\ UNCHANGED answer
             /\ stored' = stored \cup
                   {[face |-> f, model |-> space[t].model, second |-> second] : f \in buffer}
    <3>1. at'[t] = [step |-> "end"] /\ \A u \in Thread \ {t} : at'[u] = at[u]
      BY <2>1, GoesAt
    <3>2. \A f : "issue" \notin DOMAIN [face |-> f, model |-> space[t].model, second |-> second]
      OBVIOUS
    <3>3. \A r \in stored' : r \in stored \/ "issue" \notin DOMAIN r
      BY <2>1, <3>2
    <3> QED
      BY <2>1, <3>1, <3>3 DEF At
  <2>2. CASE Ends(t, [status |-> "embedded", of |-> space[t].of]) /\ UNCHANGED stored
    BY <2>2, EndsOnward DEF At
  <2> QED
    BY <1>3, <2>1, <2>2 DEF Stores
<1> QED
  BY <1>1, <1>2, <1>3 DEF AdaFace

-----------------------------------------------------------------------------
(* The embeddings' model *)

LEMMA MemoryKept == ExtractionTyped /\ MemoryInv /\ [Next]_vars => MemoryInv'
<1> SUFFICES ASSUME ExtractionTyped, MemoryInv, [Next]_vars PROVE MemoryInv'
  OBVIOUS
<1>0. /\ Threads /\ DOMAIN space = Thread /\ DOMAIN memory = Thread
  BY DEF ExtractionTyped, ThreadsOK, ModelsOK, Threads
<1>a. ASSUME NEW t \in Thread, \A u \in Thread \ {t} : at'[u] = at[u],
             \A u \in Thread \ {t} : space'[u] = space[u] /\ memory'[u] = memory[u],
             AtMbf(t)' \/ space'[t].model = "mbf" => OutOfMemory(t)'
      PROVE  MemoryInv'
  BY <1>a DEF MemoryInv, OutOfMemory, AtMbf, AtLite
<1>b. ASSUME NEW t \in Thread, \A u \in Thread \ {t} : at'[u] = at[u], UNCHANGED vectors,
             AtMbf(t)' => AtMbf(t)
      PROVE  MemoryInv'
  BY <1>b DEF MemoryInv, OutOfMemory, AtMbf, AtLite, vectors
<1>1. ASSUME NEW t \in Thread, Quiet(t), UNCHANGED vectors PROVE MemoryInv'
  BY <1>1, <1>b DEF Quiet, Apart
<1>2. ASSUME NEW t \in Thread, Sets(t) \/ Runs(t) PROVE MemoryInv'
  <2>1. /\ at'[t] = [step |-> IF At(t, "set") THEN "run" ELSE "read", lite |-> at[t].lite]
        /\ AtLite(t) /\ UNCHANGED <<space, memory>> /\ \A u \in Thread \ {t} : at'[u] = at[u]
    BY <1>0, <1>2, SetsRuns
  <2>2. at'[t].lite = at[t].lite
    BY <2>1
  <2> QED
    BY <1>b, <2>1, <2>2 DEF AtMbf, vectors
<1>3. ASSUME NEW t \in Thread, Reads(t), at[t].lite # "mbf" PROVE MemoryInv'
  <2>1. ~AtMbf(t)'
    BY <1>0, <1>3, GateReadsOnward DEF Onward, AtMbf, AtLite
  <2> QED
    BY <1>0, <1>3, <1>b, <2>1, GateReadsOnward DEF Apart, vectors
<1>4. ASSUME NEW t \in Thread, Reads(t), at[t].lite = "mbf" PROVE MemoryInv'
  <2>1. OutOfMemory(t)
    BY <1>4 DEF Reads, At, AtMbf, AtLite, MemoryInv
  <2> QED
    BY <1>0, <1>4, <1>a, <2>1, MbfReads DEF OutOfMemory
<1>5. ASSUME NEW t \in Thread, EmbedsR100(t) PROVE MemoryInv'
  <2>1. /\ at'[t].step = "adaface" /\ \A u \in Thread \ {t} : at'[u] = at[u]
        /\ space'[t].model = "r100" /\ memory' = memory
        /\ \A u \in Thread \ {t} : space'[u] = space[u]
    BY <1>0, <1>5, GoesAt DEF EmbedsR100
  <2> QED
    BY <1>a, <2>1 DEF AtMbf, AtLite
<1>6. ASSUME NEW t \in Thread, R100OutOfMemory(t) PROVE MemoryInv'
  <2>1. CASE at'[t].step = "r100" /\ memory' = memory
    BY <1>0, <1>6, <1>b, <2>1, MemoryFails DEF AtMbf, AtLite, vectors
  <2>2. ASSUME NEW kind \in {"cuda", "other"}, NEW n \in 1..BatchSize,
               memory' = [memory EXCEPT ![t] = [kind |-> kind, size |-> n]], kind = "cuda" => n = 1
        PROVE  MemoryInv'
    <3>1. OutOfMemory(t)' /\ \A u \in Thread \ {t} : memory'[u] = memory[u]
      BY <1>0, <2>2 DEF OutOfMemory
    <3> QED
      BY <1>0, <1>6, <1>a, <3>1, MemoryFails
  <2> QED
    BY <1>0, <1>6, <2>1, <2>2, MemoryFails
<1>7. ASSUME NEW t \in Thread, AdaFace(t) PROVE MemoryInv'
  <2>1. CASE at'[t].step = "adaface" /\ UNCHANGED <<space, memory, answer>>
    BY <1>0, <1>7, <1>b, <2>1, AdaFaces DEF AtMbf, AtLite, vectors
  <2>2. CASE /\ At(t, "end")' /\ space' = [space EXCEPT ![t] = NoVector]
             /\ memory' = [memory EXCEPT ![t] = Enough]
    <3>1. ~AtMbf(t)' /\ space'[t].model = "none"
      BY <1>0, <2>2 DEF At, AtMbf, AtLite, NoVector
    <3>2. \A u \in Thread \ {t} : space'[u] = space[u] /\ memory'[u] = memory[u]
      BY <1>0, <2>2
    <3> QED
      BY <1>0, <1>7, <1>a, <3>1, <3>2, AdaFaces
  <2> QED
    BY <1>0, <1>7, <2>1, <2>2, AdaFaces
<1>8. ASSUME UNCHANGED <<at, vectors>> PROVE MemoryInv'
  BY <1>8 DEF MemoryInv, OutOfMemory, AtMbf, AtLite, vectors
<1>9. ASSUME NEW t \in Thread, Step(t) PROVE MemoryInv'
  BY <1>0, <1>1, <1>2, <1>3, <1>4, <1>5, <1>6, <1>7, <1>8, <1>9, QuietSteps DEF Step, TimesOut
<1> QED
  BY <1>8, <1>9 DEF Next, vars

\* A thread has vectors of MobileFaceNet only after memory ran out: CUDA's for a single crop,
\* or another's (dual_embedder.py:51).
THEOREM SwapsForMemory == Spec => []SwapsOnlyOutOfMemory
<1>1. Init => MemoryInv
  BY DEF Init, MemoryInv, AtMbf, AtLite, NoVector
<1>2. MemoryInv => SwapsOnlyOutOfMemory
  BY DEF MemoryInv, OutOfMemory, SwapsOnlyOutOfMemory
<1> QED
  BY <1>1, <1>2, InitTyped, NextTyped, MemoryKept, PTL DEF Spec

-----------------------------------------------------------------------------
(* Whose crop a thread is judged on *)

\* What a thread finds is its own as long as nobody else wrote to what it uses.
LEMMA OthersKept ==
  ASSUME Threads, JudgeInv, NEW t \in Thread, \A u \in Thread \ {t} : Apart(t, u),
         \A u \in Thread \ {t} : space'[u] = space[u],
         UNCHANGED <<input, output, mixed>>
  PROVE  \A u \in Thread \ ({t} \cup mixed) : FindsOwn(u)' /\ Judged(u)'
  BY DEF JudgeInv, OwnInv, FindsOwn, Judged, Apart, At

LEMMA QuietJudged ==
  ASSUME Threads, JudgeInv, NEW t \in Thread, Step(t), Quiet(t), UNCHANGED <<tflite, space>>
  PROVE  JudgeInv'
<1>0. /\ UNCHANGED <<input, output, mixed, space>> /\ \A u \in Thread \ {t} : Apart(t, u)
      /\ ~At(t, "end") /\ (At(t, "idle") => Begins(t)) /\ host' = host
  BY StepFrom, HostStays DEF tflite, Quiet, process
<1>1. FindsOwn(t)'
  BY DEF Quiet, FindsOwn, At
<1>2. answer[t].status \notin {"low_quality", "embedded"}
  BY <1>0 DEF JudgeInv, OwnInv
<1>3. Judged(t)' /\ (answer'[t].status \in {"low_quality", "embedded"} => At(t, "end")')
  BY <1>2 DEF Quiet, AnswersRight, Judged
<1>4. \A u \in Thread \ mixed' : FindsOwn(u)' /\ Judged(u)'
  BY <1>0, <1>1, <1>3, OthersKept
<1>5. \A m \in Lite : ~Within(t, m)'
  BY DEF Quiet, Within, At
<1>6. \A u, v \in Thread, m \in Lite :
         u # v /\ Within(u, m)' /\ Within(v, m)' => u \in mixed' /\ v \in mixed'
  BY <1>0, <1>5 DEF JudgeInv, OwnInv, Within, Apart
<1>7. \A u \in Thread : answer'[u].status \in {"low_quality", "embedded"} => At(u, "end")'
  BY <1>0, <1>3 DEF JudgeInv, OwnInv, Apart, At
<1>8. WorkerInv'
  BY <1>0 DEF JudgeInv, WorkerInv, Apart, At, Begins
<1>9. RowsInv'
  BY DEF JudgeInv, RowsInv, Quiet, RowsRight
<1> QED
  BY <1>4, <1>6, <1>7, <1>8, <1>9 DEF JudgeInv, OwnInv

\* The steps that leave the rows, the flaws, the answers and the interpreters alone.
LEMMA VectorsJudged ==
  ASSUME Threads, JudgeInv, NEW t \in Thread, Step(t), ~At(t, "idle"),
         UNCHANGED <<tflite, stored, flaws, answer>>,
         \A u \in Thread \ {t} : at'[u] = at[u] /\ space'[u] = space[u],
         ~At(t, "run")' /\ ~At(t, "read")',
         t \notin mixed /\ At(t, "adaface")' => space'[t].of = t
  PROVE  JudgeInv'
<1>0. /\ UNCHANGED <<input, output, mixed>> /\ \A u \in Thread \ {t} : Apart(t, u)
      /\ ~At(t, "end") /\ host' = host
  BY StepFrom, HostStays DEF tflite, Apart, process
<1>1. answer[t].status \notin {"low_quality", "embedded"}
  BY <1>0 DEF JudgeInv, OwnInv
<1>2. t \notin mixed => FindsOwn(t)' /\ Judged(t)'
  BY <1>1 DEF FindsOwn, Judged, At
<1>4. \A u \in Thread \ mixed' : FindsOwn(u)' /\ Judged(u)'
  BY <1>0, <1>2, OthersKept
<1>5. \A m \in Lite : ~Within(t, m)'
  BY DEF Within, At
<1>6. \A u, v \in Thread, m \in Lite :
         u # v /\ Within(u, m)' /\ Within(v, m)' => u \in mixed' /\ v \in mixed'
  BY <1>0, <1>5 DEF JudgeInv, OwnInv, Within
<1>7. \A u \in Thread : answer'[u].status \in {"low_quality", "embedded"} => At(u, "end")'
  BY <1>0, <1>1 DEF JudgeInv, OwnInv, At
<1>8. WorkerInv'
  BY <1>0 DEF JudgeInv, WorkerInv, At
<1>9. RowsInv'
  BY DEF JudgeInv, RowsInv
<1> QED
  BY <1>4, <1>6, <1>7, <1>8, <1>9 DEF JudgeInv, OwnInv

\* Setting an interpreter that others use mixes them all; in a worker nobody else is there.
LEMMA SetsJudged ==
  ASSUME Threads, ModelsOK, JudgeInv, NEW t \in Thread, Sets(t)
  PROVE  JudgeInv'
<1> DEFINE m == at[t].lite
           others == {u \in Thread \ {t} : Using(u, m)}
<1>0. /\ at'[t] = [step |-> "run", lite |-> m] /\ \A u \in Thread \ {t} : at'[u] = at[u]
      /\ m \in Lite /\ UNCHANGED <<flaws, stored, answer, space>> /\ At(t, "set")
  BY SetsRuns DEF Sets
<1>1. /\ input' = [input EXCEPT ![m] = t] /\ output' = output
      /\ mixed' = IF others = {} THEN mixed ELSE mixed \cup others \cup {t}
  BY DEF Sets
<1>2. \A u \in Thread : Within(u, m) => Using(u, m)
  <2> SUFFICES ASSUME NEW u \in Thread, Within(u, m) PROVE Using(u, m)
    OBVIOUS
  <2>1. at[u] = [step |-> at[u].step, lite |-> at[u].lite]
    BY LiteTyped DEF Within, AtLite
  <2> QED
    BY <2>1 DEF Within, Using
<1>3. \A u \in Thread \ {t} : Within(u, m) => u \in others
  BY <1>2
<1> HIDE DEF others, m
<1>4. mixed \subseteq mixed' /\ (\A u \in others : u \in mixed' /\ t \in mixed')
  BY <1>1
<1>5. input'[m] = t /\ \A k \in Lite \ {m} : input'[k] = input[k]
  BY <1>0, <1>1 DEF ModelsOK
<1>6. \A u \in Thread \ {t} : u \notin mixed' => FindsOwn(u)' /\ Judged(u)'
  <2> SUFFICES ASSUME NEW u \in Thread \ {t}, u \notin mixed' PROVE FindsOwn(u)' /\ Judged(u)'
    OBVIOUS
  <2>1. ~Within(u, m) /\ FindsOwn(u) /\ Judged(u)
    BY <1>3, <1>4 DEF JudgeInv, OwnInv
  <2>2. At(u, "run") => at[u].lite \in Lite \ {m}
    BY <2>1, LiteTyped DEF Within, At, AtLite
  <2> QED
    BY <1>0, <1>1, <1>5, <2>1, <2>2 DEF FindsOwn, Judged, At
<1>7. FindsOwn(t)' /\ (t \notin mixed' => Judged(t)')
  BY <1>0, <1>4, <1>5 DEF JudgeInv, OwnInv, FindsOwn, Judged, At
<1>8. \A u, v \in Thread, k \in Lite :
         u # v /\ Within(u, k)' /\ Within(v, k)' => u \in mixed' /\ v \in mixed'
  <2> SUFFICES ASSUME NEW u \in Thread, NEW v \in Thread, NEW k \in Lite,
                      u # v, Within(u, k)', Within(v, k)'
               PROVE  u \in mixed' /\ v \in mixed'
    OBVIOUS
  <2>1. CASE u # t /\ v # t
    BY <1>0, <1>4, <2>1 DEF JudgeInv, OwnInv, Within
  <2>2. CASE u = t
    BY <1>0, <1>3, <1>4, <2>2 DEF Within
  <2>3. CASE v = t
    BY <1>0, <1>3, <1>4, <2>3 DEF Within
  <2> QED
    BY <2>1, <2>2, <2>3
<1>9. \A u \in Thread : answer'[u].status \in {"low_quality", "embedded"} => At(u, "end")'
  BY <1>0 DEF JudgeInv, OwnInv, At
<1>10. WorkerInv'
  <2>1. host' = host
    BY HostStays DEF Step, process
  <2>2. host = "worker" => others = {}
    BY <1>0 DEF JudgeInv, WorkerInv, others, Using, At
  <2> QED
    BY <1>0, <1>1, <2>1, <2>2 DEF JudgeInv, WorkerInv, At
<1>11. RowsInv'
  BY <1>0 DEF JudgeInv, RowsInv
<1> QED
  BY <1>6, <1>7, <1>8, <1>9, <1>10, <1>11 DEF JudgeInv, OwnInv

LEMMA RunsJudged ==
  ASSUME Threads, ModelsOK, JudgeInv, NEW t \in Thread, Runs(t)
  PROVE  JudgeInv'
<1> DEFINE m == at[t].lite
<1>0. /\ at'[t] = [step |-> "read", lite |-> m] /\ \A u \in Thread \ {t} : at'[u] = at[u]
      /\ m \in Lite /\ UNCHANGED <<flaws, stored, answer, space>> /\ At(t, "run")
  BY SetsRuns DEF Runs, At
<1>1. output' = [output EXCEPT ![m] = input[m]] /\ UNCHANGED <<input, mixed>>
  BY DEF Runs
<1>2. Within(t, m)
  BY <1>0 DEF Within, At
<1> HIDE DEF m
<1>3. output'[m] = input[m] /\ \A k \in Lite \ {m} : output'[k] = output[k]
  BY <1>0, <1>1 DEF ModelsOK
<1>4. \A u \in Thread \ {t} : u \notin mixed => FindsOwn(u)' /\ Judged(u)'
  <2> SUFFICES ASSUME NEW u \in Thread \ {t}, u \notin mixed PROVE FindsOwn(u)' /\ Judged(u)'
    OBVIOUS
  <2>1. ~Within(u, m) /\ FindsOwn(u) /\ Judged(u)
    BY <1>0, <1>2 DEF JudgeInv, OwnInv
  <2>2. At(u, "read") => at[u].lite \in Lite \ {m}
    BY <2>1, LiteTyped DEF Within, At, AtLite
  <2> QED
    BY <1>0, <1>1, <1>3, <2>1, <2>2 DEF FindsOwn, Judged, At
<1>5. t \notin mixed => FindsOwn(t)' /\ Judged(t)'
  BY <1>0, <1>3, <1>1 DEF m, JudgeInv, OwnInv, FindsOwn, Judged, At
<1>6. \A u, v \in Thread, k \in Lite :
         u # v /\ Within(u, k)' /\ Within(v, k)' => u \in mixed' /\ v \in mixed'
  <2>1. \A u \in Thread, k \in Lite : Within(u, k)' => Within(u, k)
    BY <1>0, <1>2 DEF Within
  <2> QED
    BY <1>1, <2>1 DEF JudgeInv, OwnInv
<1>7. \A u \in Thread : answer'[u].status \in {"low_quality", "embedded"} => At(u, "end")'
  BY <1>0 DEF JudgeInv, OwnInv, At
<1>8. WorkerInv'
  <2>1. host' = host
    BY HostStays DEF Step, process
  <2> QED
    BY <1>0, <1>1, <2>1 DEF JudgeInv, WorkerInv, At
<1>9. RowsInv'
  BY <1>0 DEF JudgeInv, RowsInv
<1> QED
  BY <1>1, <1>4, <1>5, <1>6, <1>7, <1>8, <1>9 DEF JudgeInv, OwnInv

\* A thread that is mixed may be judged on another's crop: it is a selfie's, and ends with that.
LEMMA MixedJudged ==
  ASSUME Threads, JudgeInv, NEW t \in Thread, t \in mixed, Step(t), ~At(t, "idle"),
         UNCHANGED <<tflite, space, stored>>, Onward(t), \A u \in Thread \ {t} : Apart(t, u),
         answer' = answer \/ At(t, "end")'
  PROVE  JudgeInv'
<1>0. UNCHANGED <<input, output, mixed>> /\ ~At(t, "end") /\ host' = host
  BY StepFrom, HostStays DEF tflite, process
<1>1. \A u \in Thread \ mixed' : FindsOwn(u)' /\ Judged(u)'
  BY <1>0, OthersKept
<1>2. \A m \in Lite : ~Within(t, m)'
  BY DEF Onward, Within
<1>3. \A u, v \in Thread, m \in Lite :
         u # v /\ Within(u, m)' /\ Within(v, m)' => u \in mixed' /\ v \in mixed'
  BY <1>0, <1>2 DEF JudgeInv, OwnInv, Within, Apart
<1>4. \A u \in Thread : answer'[u].status \in {"low_quality", "embedded"} => At(u, "end")'
  BY <1>0 DEF JudgeInv, OwnInv, Apart, At
<1>5. WorkerInv' /\ RowsInv'
  BY <1>0 DEF JudgeInv, WorkerInv, RowsInv
<1> QED
  BY <1>1, <1>3, <1>4, <1>5 DEF JudgeInv, OwnInv

LEMMA ReadsJudged ==
  ASSUME Threads, ModelsOK, JudgeInv, host \in {"worker", "api"}, NEW t \in Thread, Reads(t)
  PROVE  JudgeInv'
<1>0. Step(t) /\ At(t, "read") /\ ~At(t, "idle") /\ UNCHANGED tflite
  BY DEF Step, Reads, At
<1>1. t \notin mixed => output[at[t].lite] = t
  BY <1>0 DEF JudgeInv, OwnInv, FindsOwn
<1>2. CASE at[t].lite # "mbf" /\ t \notin mixed
  BY <1>0, <1>1, <1>2, GateReads, QuietJudged
<1>3. CASE at[t].lite # "mbf" /\ t \in mixed
  <2>1. host = "api"
    BY <1>3 DEF JudgeInv, WorkerInv
  <2>2. stored' = stored /\ (answer' = answer \/ At(t, "end")')
    <3>1. CASE Rejects(t, at[t].lite)
      BY <2>1, <3>1, RejectsOnward DEF Rejects, photo
    <3>2. CASE PassesPose(t)
      BY <3>2, PassesOnward
    <3>3. CASE UNCHANGED <<photo, flaws, space, answer>>
      BY <3>3 DEF photo
    <3> QED
      BY <1>3, <3>1, <3>2, <3>3 DEF Reads
  <2> QED
    BY <1>0, <1>3, <2>2, GateReadsOnward, MixedJudged
<1>4. CASE at[t].lite = "mbf"
  <2>1. space' = [space EXCEPT ![t] = [model |-> "mbf", of |-> output["mbf"]]]
    BY <1>4, MbfReads
  <2>2. /\ space'[t].of = output["mbf"]
        /\ \A u \in Thread \ {t} : space'[u] = space[u]
    BY <2>1 DEF ModelsOK
  <2>3. ~At(t, "run")' /\ ~At(t, "read")'
    BY <1>4, MbfReads DEF At
  <2> QED
    BY <1>0, <1>1, <1>4, <2>2, <2>3, MbfReads, VectorsJudged
<1> QED
  BY <1>2, <1>3, <1>4

LEMMA EmbedsJudged ==
  ASSUME Threads, ModelsOK, JudgeInv, NEW t \in Thread, EmbedsR100(t) \/ R100OutOfMemory(t)
  PROVE  JudgeInv'
<1>0. Step(t) /\ ~At(t, "idle") /\ UNCHANGED tflite
  BY DEF Step, EmbedsR100, R100OutOfMemory, At
<1>1. CASE EmbedsR100(t)
  <2>1. /\ at'[t] = [step |-> "adaface", size |-> AtOnce] /\ \A u \in Thread \ {t} : at'[u] = at[u]
        /\ UNCHANGED <<stored, flaws, answer>>
    BY <1>1, GoesAt DEF EmbedsR100, photo
  <2>2. space'[t].of = t /\ \A u \in Thread \ {t} : space'[u] = space[u]
    BY <1>1 DEF EmbedsR100, ModelsOK
  <2>3. ~At(t, "run")' /\ ~At(t, "read")'
    BY <2>1 DEF At
  <2> QED
    BY <1>0, <2>1, <2>2, <2>3, VectorsJudged
<1>2. CASE R100OutOfMemory(t)
  <2>1. ~At(t, "run")' /\ ~At(t, "read")' /\ ~At(t, "adaface")'
    BY <1>2, MemoryFails DEF At
  <2>2. /\ UNCHANGED <<flaws, stored, answer, space>>
        /\ \A u \in Thread \ {t} : at'[u] = at[u]
    BY <1>2, MemoryFails
  <2> QED
    BY <1>0, <2>1, <2>2, VectorsJudged
<1> QED
  BY <1>1, <1>2

LEMMA AdaFaceJudged ==
  ASSUME Threads, ModelsOK, JudgeInv, NEW t \in Thread, AdaFace(t)
  PROVE  JudgeInv'
<1>0. Step(t) /\ At(t, "adaface") /\ ~At(t, "idle") /\ UNCHANGED tflite
  BY DEF Step, AdaFace, At
<1>1. CASE at'[t].step = "adaface" /\ UNCHANGED <<space, memory, answer>>
  <2>1. \A u \in Thread \ {t} : Apart(t, u)
    BY <1>1, AdaFaces DEF Apart
  <2>2. RowsRight
    BY AdaFaces DEF RowsRight
  <2>3. \A u \in Thread \ mixed' : FindsOwn(u)' /\ Judged(u)'
    BY <1>0, <1>1, <2>1, AdaFaces, OthersKept DEF JudgeInv, OwnInv, FindsOwn, Judged, At, tflite
  <2>4. \A u, v \in Thread, m \in Lite :
           u # v /\ Within(u, m)' /\ Within(v, m)' => u \in mixed' /\ v \in mixed'
    BY <1>0, <1>1, <2>1 DEF JudgeInv, OwnInv, Within, Apart, tflite
  <2>5. \A u \in Thread : answer'[u].status \in {"low_quality", "embedded"} => At(u, "end")'
    BY <1>0, <1>1, <2>1 DEF JudgeInv, OwnInv, Apart, At
  <2>6. WorkerInv' /\ RowsInv'
    BY <1>0, <2>1, <2>2, HostStays DEF JudgeInv, WorkerInv, RowsInv, RowsRight, At, Apart, tflite, process
  <2> QED
    BY <2>3, <2>4, <2>5, <2>6 DEF JudgeInv, OwnInv
<1>2. CASE /\ At(t, "end")' /\ space' = [space EXCEPT ![t] = NoVector]
           /\ answer'[t] \in {answer[t], [status |-> "embedded", of |-> space[t].of]}
  <2>1. (\A u \in Thread \ {t} : Apart(t, u)) /\ flaws' = flaws
    BY AdaFaces DEF Apart
  <2>2. \A u \in Thread \ {t} : space'[u] = space[u]
    BY <1>2 DEF ModelsOK
  <2>3. answer[t].status \notin {"low_quality", "embedded"}
    BY <1>0 DEF JudgeInv, OwnInv, At
  <2>4. t \notin mixed => space[t].of = t
    BY <1>0 DEF JudgeInv, OwnInv, FindsOwn
  <2>5. t \notin mixed => FindsOwn(t)' /\ Judged(t)'
    BY <1>2, <2>3, <2>4 DEF FindsOwn, Judged, At
  <2>6. \A u \in Thread \ mixed' : FindsOwn(u)' /\ Judged(u)'
    BY <1>0, <2>1, <2>2, <2>5, OthersKept DEF tflite
  <2>7. \A u, v \in Thread, m \in Lite :
           u # v /\ Within(u, m)' /\ Within(v, m)' => u \in mixed' /\ v \in mixed'
    BY <1>0, <1>2, <2>1 DEF JudgeInv, OwnInv, Within, Apart, At, tflite
  <2>8. \A u \in Thread : answer'[u].status \in {"low_quality", "embedded"} => At(u, "end")'
    BY <1>2, <2>1 DEF JudgeInv, OwnInv, Apart, At
  <2>9. RowsRight
    BY AdaFaces DEF RowsRight
  <2>10. WorkerInv' /\ RowsInv'
    BY <1>0, <2>1, <2>9, HostStays DEF JudgeInv, WorkerInv, RowsInv, RowsRight, At, Apart, tflite, process
  <2> QED
    BY <2>6, <2>7, <2>8, <2>10 DEF JudgeInv, OwnInv
<1> QED
  BY <1>1, <1>2, AdaFaces

\* The request is answered with an error; what its thread goes on to find is not.
LEMMA TimesOutJudged ==
  ASSUME Threads, JudgeInv, NEW t \in Thread, TimesOut(t)
  PROVE  JudgeInv'
<1>1. /\ UNCHANGED <<host, at, flaws, input, output, mixed, space, stored>>
      /\ answer' = [answer EXCEPT ![t] = [status |-> "error"]]
  BY DEF TimesOut, process, tflite, photo, vectors
<1>2. answer'[t].status = "error" /\ \A u \in Thread \ {t} : answer'[u] = answer[u]
  BY <1>1 DEF Threads
<1>3. \A u \in Thread : Judged(u) => Judged(u)'
  BY <1>1, <1>2 DEF Judged
<1>4. \A u \in Thread : FindsOwn(u) => FindsOwn(u)'
  BY <1>1 DEF FindsOwn, At
<1>5. \A u \in Thread : answer'[u].status \in {"low_quality", "embedded"} => At(u, "end")'
  BY <1>1, <1>2 DEF JudgeInv, OwnInv, At
<1>6. WorkerInv' /\ RowsInv'
  BY <1>1 DEF JudgeInv, WorkerInv, RowsInv, At
<1> QED
  BY <1>1, <1>3, <1>4, <1>5, <1>6 DEF JudgeInv, OwnInv, Within

LEMMA JudgeKept == ExtractionTyped /\ JudgeInv /\ [Next]_vars => JudgeInv'
<1> SUFFICES ASSUME ExtractionTyped, JudgeInv, [Next]_vars PROVE JudgeInv'
  OBVIOUS
<1>0. Threads /\ ModelsOK /\ host \in {"worker", "api"}
  BY DEF ExtractionTyped, ThreadsOK, Threads
<1>1. ASSUME NEW t \in Thread, Step(t), Quiet(t) /\ UNCHANGED <<tflite, vectors>> PROVE JudgeInv'
  BY <1>0, <1>1, QuietJudged DEF vectors
<1>2. ASSUME NEW t \in Thread, Step(t) PROVE JudgeInv'
  BY <1>0, <1>1, <1>2, QuietSteps, SetsJudged, RunsJudged, ReadsJudged, EmbedsJudged,
     AdaFaceJudged, TimesOutJudged DEF Step
<1>3. CASE UNCHANGED vars
  BY <1>3 DEF vars, process, tflite, photo, vectors, JudgeInv, OwnInv, WorkerInv, RowsInv,
              FindsOwn, Judged, Within, At
<1> QED
  BY <1>2, <1>3 DEF Next

\* A crop is rejected only for what is wrong with it, and a selfie's vector is that of its own
\* face, for every thread that was never between setting and reading an interpreter at the
\* same time as another (blur_detector.py, ypr_tflite.py, mobilefacenet.py).
THEOREM JudgedOnItsCrop == Spec => []JudgedOnOwnCrop
<1>1. Init => JudgeInv
  BY DEF Init, JudgeInv, OwnInv, WorkerInv, RowsInv, FindsOwn, Judged, Within, At
<1>2. JudgeInv => JudgedOnOwnCrop
  BY DEF JudgeInv, OwnInv, RowsInv, Judged, JudgedOnOwnCrop
<1> QED
  BY <1>1, <1>2, InitTyped, NextTyped, JudgeKept, PTL DEF Spec

-----------------------------------------------------------------------------
(* The faces of an image *)

\* Finitely many boxes, each of a score of its own.
Boxes(boxes) ==
    /\ IsFiniteSet(boxes)
    /\ \A b \in boxes : b.score \in Int /\ b.x1 \in Int /\ b.x2 \in Int
    /\ \A b, c \in boxes : b.score = c.score => b = c

\* Sets of boxes are well founded: of those in a non-empty collection, one is smallest.
LEMMA SmallestSet ==
  ASSUME NEW boxes, IsFiniteSet(boxes), NEW bad, bad \subseteq SUBSET boxes, bad # {}
  PROVE  \E s \in bad : \A t \in SUBSET s : t # s => t \notin bad
<1>1. SUBSET boxes = FiniteSubsetsOf(boxes)
  BY FS_FiniteSubsetsOfFinite
<1>2. IsWellFoundedOn(StrictSubsetOrdering(boxes), SUBSET boxes)
  BY <1>1, FS_StrictSubsetOrderingWellFounded
<1>3. PICK s \in bad : \A t \in bad : <<t, s>> \notin StrictSubsetOrdering(boxes)
  BY <1>2, WFMin
<1>4. ASSUME NEW t \in SUBSET s, t # s, t \in bad PROVE FALSE
  <2>1. <<t, s>> \in StrictSubsetOrdering(boxes)
    BY <1>4 DEF StrictSubsetOrdering
  <2> QED
    BY <1>3, <1>4, <2>1
<1> QED
  BY <1>3, <1>4

\* The best of some boxes is there, and better than the others.
LEMMA BestIsBest ==
  ASSUME NEW boxes, Boxes(boxes), NEW s \in SUBSET boxes, s # {}
  PROVE  Best(s) \in s /\ \A b \in s : b.score <= Best(s).score /\ (b # Best(s) => b.score < Best(s).score)
<1> DEFINE HasBest(u) == \E b \in u : \A c \in u : c.score <= b.score
           bad == {u \in SUBSET boxes : u # {} /\ ~HasBest(u)}
<1>1. ASSUME bad # {} PROVE FALSE
  <2>1. PICK u \in bad : \A t \in SUBSET u : t # u => t \notin bad
    <3>1. bad \subseteq SUBSET boxes
      OBVIOUS
    <3> HIDE DEF bad
    <3> QED
      BY <1>1, <3>1, SmallestSet DEF Boxes
  <2>2. u \in SUBSET boxes /\ u # {} /\ ~HasBest(u)
    OBVIOUS
  <2>3. PICK a \in u : TRUE
    BY <2>2
  <2> DEFINE less == u \ {a}
  <2>4. less = {} \/ HasBest(less)
    <3>1. less \in SUBSET u /\ less # u /\ less \in SUBSET boxes
      BY <2>2, <2>3
    <3>2. less \notin bad
      BY <2>1, <3>1
    <3> QED
      BY <3>1, <3>2
  <2>5. \A b \in u : b.score \in Int
    BY <2>2 DEF Boxes
  <2>6. CASE less = {}
    BY <2>2, <2>5, <2>6
  <2>7. CASE HasBest(less)
    <3>1. PICK b \in less : \A c \in less : c.score <= b.score
      BY <2>7
    <3>2. \A c \in u : c = a \/ c \in less
      OBVIOUS
    <3>3. CASE a.score <= b.score
      BY <2>2, <3>1, <3>2, <3>3
    <3>4. CASE ~(a.score <= b.score)
      <4>1. \A c \in less : c.score <= a.score
        BY <2>3, <2>5, <3>1, <3>4
      <4>2. \A c \in u : c.score <= a.score
        BY <2>5, <3>2, <4>1
      <4> QED
        BY <2>2, <4>2
    <3> QED
      BY <3>3, <3>4
  <2> QED
    BY <2>4, <2>6, <2>7
<1>2. HasBest(s)
  BY <1>1
<1>3. Best(s) \in s /\ \A b \in s : b.score <= Best(s).score
  BY <1>2 DEF Best
<1> QED
  BY <1>3 DEF Boxes

LEMMA OverlapsBothWays ==
  ASSUME NEW a, NEW b, a.x1 \in Int, a.x2 \in Int, b.x1 \in Int, b.x2 \in Int
  PROVE  Overlaps(a, b) <=> Overlaps(b, a)
<1>1. Common(a, b) = Common(b, a) /\ Common(a, b) \in Int
  BY DEF Common
<1>2. Length(a) \in Int /\ Length(b) \in Int
  BY DEF Length
<1> QED
  BY <1>1, <1>2 DEF Overlaps

\* What is left of the boxes for the next turn.
Left(s) == {b \in s \ {Best(s)} : ~Overlaps(Best(s), b)}

\* The function that suppression computes over the subsets of T.
KeepsOf(keep, T) ==
    /\ keep = [s \in SUBSET T |-> keep[s]]
    /\ \A s \in SUBSET T : keep[s] = IF s = {} THEN {} ELSE {Best(s)} \cup keep[Left(s)]

Keeps(boxes) ==
    CHOOSE keep : keep = [s \in SUBSET boxes |-> IF s = {} THEN {} ELSE {Best(s)} \cup keep[Left(s)]]

LEMMA NmsIs == ASSUME NEW boxes PROVE Nms(boxes) = Keeps(boxes)[boxes]
  BY DEF Nms, Keeps, Left

LEMMA LeftIsLess ==
  ASSUME NEW boxes, Boxes(boxes), NEW s \in SUBSET boxes, s # {}
  PROVE  Left(s) \in SUBSET s /\ Left(s) # s
  BY BestIsBest DEF Left

LEMMA KeepsAgree ==
  ASSUME NEW boxes, Boxes(boxes), NEW T, NEW U, NEW g, NEW h, KeepsOf(g, T), KeepsOf(h, U),
         T \subseteq boxes, U \subseteq T
  PROVE  \A s \in SUBSET U : g[s] = h[s]
<1> DEFINE bad == {s \in SUBSET U : g[s] # h[s]}
<1>1. ASSUME bad # {} PROVE FALSE
  <2>1. PICK s \in bad : \A t \in SUBSET s : t # s => t \notin bad
    <3>1. bad \subseteq SUBSET boxes
      OBVIOUS
    <3> HIDE DEF bad
    <3> QED
      BY <1>1, <3>1, SmallestSet DEF Boxes
  <2>2. s \in SUBSET U /\ s \in SUBSET T /\ s \in SUBSET boxes /\ g[s] # h[s]
    OBVIOUS
  <2>3. s # {}
    BY <2>2 DEF KeepsOf
  <2>4. Left(s) \in SUBSET s /\ Left(s) # s
    BY <2>2, <2>3, LeftIsLess
  <2>5. g[Left(s)] = h[Left(s)]
    BY <2>1, <2>2, <2>4
  <2>6. g[s] = {Best(s)} \cup g[Left(s)] /\ h[s] = {Best(s)} \cup h[Left(s)]
    BY <2>2, <2>3 DEF KeepsOf
  <2> QED
    BY <2>2, <2>5, <2>6
<1> QED
  BY <1>1

LEMMA KeepsExist ==
  ASSUME NEW boxes, Boxes(boxes), NEW T \in SUBSET boxes
  PROVE  \E g : KeepsOf(g, T)
<1> DEFINE bad == {U \in SUBSET boxes : ~\E g : KeepsOf(g, U)}
<1>1. ASSUME bad # {} PROVE FALSE
  <2>1. PICK U \in bad : \A V \in SUBSET U : V # U => V \notin bad
    <3>1. bad \subseteq SUBSET boxes
      OBVIOUS
    <3> HIDE DEF bad
    <3> QED
      BY <1>1, <3>1, SmallestSet DEF Boxes
  <2> DEFINE sol(V) == CHOOSE g : KeepsOf(g, V)
             h == [s \in SUBSET U |-> IF s = {} THEN {} ELSE {Best(s)} \cup sol(Left(s))[Left(s)]]
  <2>2. U \in SUBSET boxes /\ ~\E g : KeepsOf(g, U)
    OBVIOUS
  <2>3. \A V \in SUBSET U : V # U => KeepsOf(sol(V), V)
    BY <2>1, <2>2
  <2> HIDE DEF bad, sol
  <2>4. ASSUME NEW s \in SUBSET U, s # {} PROVE h[Left(s)] = sol(Left(s))[Left(s)]
    <3> DEFINE u == Left(s)
    <3>1. u \in SUBSET U /\ u # U /\ u \in SUBSET boxes
      BY <2>2, <2>4, LeftIsLess
    <3>2. KeepsOf(sol(u), u)
      BY <2>3, <3>1
    <3> HIDE DEF u
    <3>3. CASE u = {}
      <4>1. h[u] = {}
        BY <3>1, <3>3
      <4>2. u \in SUBSET u
        OBVIOUS
      <4>3. sol(u)[u] = {}
        BY <3>2, <3>3, <4>2 DEF KeepsOf
      <4> QED
        BY <4>1, <4>3 DEF u
    <3>4. CASE u # {}
      <4> DEFINE w == Left(u)
                 g1 == sol(u)
                 g2 == sol(w)
      <4>1. w \in SUBSET u /\ w \in SUBSET U /\ w # U
        BY <3>1, <3>4, LeftIsLess
      <4>2. KeepsOf(g1, u) /\ KeepsOf(g2, w) /\ w \subseteq u /\ u \subseteq boxes /\ w \in SUBSET w
        BY <2>3, <3>1, <3>2, <4>1
      <4>3. g1[w] = g2[w]
        <5> HIDE DEF g1, g2, w
        <5>1. \A s1 \in SUBSET w : g1[s1] = g2[s1]
          BY <4>2, KeepsAgree
        <5> QED
          BY <4>2, <5>1
      <4>4. u \in SUBSET u
        OBVIOUS
      <4>5. sol(u)[u] = {Best(u)} \cup sol(u)[Left(u)]
        BY <3>2, <3>4, <4>4 DEF KeepsOf
      <4>6. h[u] = {Best(u)} \cup sol(Left(u))[Left(u)]
        BY <3>1, <3>4
      <4> QED
        BY <4>3, <4>5, <4>6 DEF u
    <3> QED
      BY <3>3, <3>4 DEF u
  <2>5. KeepsOf(h, U)
    <3>1. h = [s \in SUBSET U |-> h[s]]
      OBVIOUS
    <3>2. \A s \in SUBSET U : h[s] = IF s = {} THEN {} ELSE {Best(s)} \cup sol(Left(s))[Left(s)]
      OBVIOUS
    <3> HIDE DEF h
    <3> QED
      BY <2>4, <3>1, <3>2 DEF KeepsOf
  <2> QED
    BY <2>2, <2>5
<1> QED
  BY <1>1

LEMMA KeepsRecur ==
  ASSUME NEW boxes, Boxes(boxes)
  PROVE  KeepsOf(Keeps(boxes), boxes)
<1> DEFINE turn(g) == [s \in SUBSET boxes |-> IF s = {} THEN {} ELSE {Best(s)} \cup g[Left(s)]]
<1>1. PICK g : KeepsOf(g, boxes)
  BY KeepsExist
<1>2. g = turn(g)
  BY <1>1 DEF KeepsOf
<1>3. Keeps(boxes) = turn(Keeps(boxes))
  BY <1>2 DEF Keeps
<1> QED
  BY <1>3 DEF KeepsOf

\* What suppression makes of boxes: no two that it keeps overlap, and it leaves out only what a
\* better one that it keeps overlaps.
Suppresses(kept, boxes) ==
    /\ kept \subseteq boxes
    /\ \A a, b \in kept : a # b => ~Overlaps(a, b)
    /\ \A b \in boxes \ kept : Suppressed(b, kept)

LEMMA NmsSuppresses ==
  ASSUME NEW boxes, Boxes(boxes)
  PROVE  Suppresses(Nms(boxes), boxes)
<1> DEFINE g == Keeps(boxes)
           bad == {s \in SUBSET boxes : ~Suppresses(g[s], s)}
<1>1. KeepsOf(g, boxes)
  BY KeepsRecur
<1> HIDE DEF g
<1>2. ASSUME bad # {} PROVE FALSE
  <2>1. PICK s \in bad : \A t \in SUBSET s : t # s => t \notin bad
    <3>1. bad \subseteq SUBSET boxes
      OBVIOUS
    <3> HIDE DEF bad
    <3> QED
      BY <1>2, <3>1, SmallestSet DEF Boxes
  <2>2. s \in SUBSET boxes /\ ~Suppresses(g[s], s)
    OBVIOUS
  <2>3. s # {}
    <3>1. s = {} => g[s] = {}
      BY <1>1, <2>2 DEF KeepsOf
    <3> QED
      BY <2>2, <3>1 DEF Suppresses
  <2> DEFINE top == Best(s)
             rest == Left(s)
             kept == g[rest]
  <2>4. /\ top \in s /\ \A b \in s : b # top => b.score < top.score
        /\ rest \in SUBSET s /\ rest # s /\ rest \in SUBSET boxes
    BY <2>2, <2>3, BestIsBest, LeftIsLess
  <2>5. Suppresses(kept, rest)
    BY <2>1, <2>4
  <2>6. g[s] = {top} \cup kept
    BY <1>1, <2>2, <2>3 DEF KeepsOf
  <2>7. \A b \in s : b = top \/ b \in rest \/ Overlaps(top, b)
    BY DEF Left
  <2>8. \A b \in rest : b # top /\ ~Overlaps(top, b)
    BY DEF Left
  <2>9. \A b \in rest : ~Overlaps(b, top)
    <3>1. \A b \in s : b.x1 \in Int /\ b.x2 \in Int
      BY <2>2 DEF Boxes
    <3> QED
      BY <2>4, <2>8, <3>1, OverlapsBothWays
  <2> HIDE DEF bad, top, rest, kept
  <2>10. g[s] \subseteq s
    BY <2>4, <2>5, <2>6 DEF Suppresses
  <2>11. \A a, b \in g[s] : a # b => ~Overlaps(a, b)
    <3>1. kept \subseteq rest /\ \A a, b \in kept : a # b => ~Overlaps(a, b)
      BY <2>5 DEF Suppresses
    <3> QED
      BY <2>6, <2>8, <2>9, <3>1
  <2>12. ASSUME NEW b \in s \ g[s] PROVE Suppressed(b, g[s])
    <3>1. CASE b \in rest
      BY <2>5, <2>6, <2>12, <3>1 DEF Suppresses, Suppressed
    <3>2. CASE b \notin rest
      BY <2>4, <2>6, <2>7, <2>12, <3>2 DEF Suppressed
    <3> QED
      BY <3>1, <3>2
  <2> QED
    BY <2>2, <2>10, <2>11, <2>12 DEF Suppresses
<1>3. boxes \in SUBSET boxes /\ Suppresses(g[boxes], boxes)
  BY <1>2
<1> QED
  BY <1>3, NmsIs DEF g

LEMMA SomeBoxes ==
  ASSUME NEW boxes, Boxes(boxes), NEW s, s \subseteq boxes
  PROVE  Boxes(s)
  BY FS_Subset DEF Boxes

\* Both scales put together are a detection of the image.
LEMMA AutodetectDetects ==
  ASSUME NEW boxes, Boxes(boxes), \A b \in boxes : b.scale \in Scale
  PROVE  IsDetection(Autodetect(boxes), boxes)
<1> DEFINE large == {b \in Positive(boxes) : b.scale = "large"}
           small == {b \in Positive(boxes) : b.scale = "small"}
           both == Nms(large) \cup Nms(small)
           kept == Nms(both)
<1>1. large \subseteq Positive(boxes) /\ small \subseteq Positive(boxes) /\ Positive(boxes) \subseteq boxes
  BY DEF Positive
<1>2. Positive(boxes) = large \cup small
  BY DEF Positive, Scale
<1>3. \A b \in large : b.scale = "large"
  OBVIOUS
<1>4. \A b \in small : b.scale = "small"
  OBVIOUS
<1>5. Autodetect(boxes) = kept
  BY DEF Autodetect, DetectAt
<1> HIDE DEF large, small
<1>6. Boxes(large) /\ Boxes(small)
  BY <1>1, SomeBoxes
<1>7. Suppresses(Nms(large), large) /\ Suppresses(Nms(small), small)
  BY <1>6, NmsSuppresses
<1>8. both \subseteq Positive(boxes) /\ both \subseteq boxes
  BY <1>1, <1>7 DEF Suppresses
<1>9. Suppresses(kept, both)
  <2>1. Boxes(both)
    BY <1>8, SomeBoxes
  <2> HIDE DEF both
  <2> QED
    BY <2>1, NmsSuppresses
<1>10. \A c, d \in both : c # d /\ c.scale = d.scale => ~Overlaps(c, d)
  <2>1. \A c \in both : (c \in Nms(large) /\ c.scale = "large") \/ (c \in Nms(small) /\ c.scale = "small")
    BY <1>3, <1>4, <1>7 DEF Suppresses
  <2> QED
    BY <1>7, <2>1 DEF Suppresses
<1>11. \A b \in Positive(boxes) \ both : \E c \in both : c.scale = b.scale /\ c.score > b.score /\ Overlaps(c, b)
  <2>1. ASSUME NEW b \in large \ both PROVE \E c \in both : c.scale = b.scale /\ c.score > b.score /\ Overlaps(c, b)
    <3>1. Suppressed(b, Nms(large))
      BY <1>7, <2>1 DEF Suppresses
    <3> QED
      BY <1>3, <1>7, <2>1, <3>1 DEF Suppresses, Suppressed
  <2>2. ASSUME NEW b \in small \ both PROVE \E c \in both : c.scale = b.scale /\ c.score > b.score /\ Overlaps(c, b)
    <3>1. Suppressed(b, Nms(small))
      BY <1>7, <2>2 DEF Suppresses
    <3> QED
      BY <1>4, <1>7, <2>2, <3>1 DEF Suppresses, Suppressed
  <2> QED
    BY <1>2, <2>1, <2>2
<1> HIDE DEF both, kept
<1>12. kept \subseteq Positive(boxes) /\ \A a, b \in kept : a # b => ~Overlaps(a, b)
  BY <1>8, <1>9 DEF Suppresses
<1>13. \A c \in both \ kept : Suppressed(c, kept)
  BY <1>9 DEF Suppresses
<1>14. ASSUME NEW b \in Positive(boxes) \ kept
       PROVE  \/ Suppressed(b, kept)
              \/ \E c \in Positive(boxes) \ kept :
                  /\ c.scale = b.scale /\ c.score > b.score /\ Overlaps(c, b)
                  /\ \E d \in kept : d.scale # c.scale /\ d.score > c.score /\ Overlaps(d, c)
  <2>1. CASE b \in both
    BY <1>13, <1>14, <2>1
  <2>2. CASE b \notin both
    <3>1. PICK c \in both : c.scale = b.scale /\ c.score > b.score /\ Overlaps(c, b)
      BY <1>11, <1>14, <2>2
    <3>2. CASE c \in kept
      BY <3>1, <3>2 DEF Suppressed
    <3>3. CASE c \notin kept
      <4>1. PICK d \in kept : d.score > c.score /\ Overlaps(d, c)
        BY <1>13, <3>1, <3>3 DEF Suppressed
      <4>2. d \in both /\ d # c
        BY <1>9, <3>3, <4>1 DEF Suppresses
      <4>3. d.scale # c.scale
        BY <1>10, <3>1, <4>1, <4>2
      <4> QED
        BY <1>8, <3>1, <3>3, <4>1, <4>3
    <3> QED
      BY <3>2, <3>3
  <2> QED
    BY <2>1, <2>2
<1> QED
  BY <1>5, <1>12, <1>14 DEF IsDetection

\* An image as the network answers it has finitely many boxes, each of a score of its own.
LEMMA ImageBoxes ==
  ASSUME NEW boxes \in Image(Score)
  PROVE  Boxes(boxes) /\ \A b \in boxes : b.scale \in Scale
<1>1a. PICK chosen \in SUBSET Score : \E f \in [chosen -> Span \X Scale] :
         boxes = {[x1 |-> f[s][1][1], x2 |-> f[s][1][2], score |-> s, scale |-> f[s][2]] : s \in chosen}
  BY DEF Image
<1>1. PICK f \in [chosen -> Span \X Scale] :
         boxes = {[x1 |-> f[s][1][1], x2 |-> f[s][1][2], score |-> s, scale |-> f[s][2]] : s \in chosen}
  BY <1>1a
<1> DEFINE box == [s \in chosen |-> [x1 |-> f[s][1][1], x2 |-> f[s][1][2], score |-> s, scale |-> f[s][2]]]
<1>2. IsFiniteSet(chosen)
  <2>1. IsFiniteSet(Score)
    BY DetectionAssumption, FS_Interval DEF Score
  <2> QED
    BY <2>1, FS_Subset
<1>3. IsFiniteSet(boxes)
  <2>1. box \in Surjection(chosen, boxes)
    BY <1>1 DEF Surjection
  <2> QED
    BY <1>2, <2>1, FS_Surjection
<1>4. \A b \in boxes : \E s \in chosen : b = box[s]
  BY <1>1
<1>5. \A s \in chosen : /\ box[s].score = s /\ s \in Int
                        /\ box[s].x1 \in Int /\ box[s].x2 \in Int /\ box[s].scale \in Scale
  <2> TAKE s \in chosen
  <2>1. f[s] \in Span \X Scale
    OBVIOUS
  <2>2. f[s][1] \in Span /\ f[s][2] \in Scale
    BY <2>1
  <2>3. f[s][1][1] \in Int /\ f[s][1][2] \in Int
    BY <2>2, DetectionAssumption DEF Span
  <2>4. s \in Int
    BY DetectionAssumption DEF Score
  <2> QED
    BY <2>2, <2>3, <2>4
<1> HIDE DEF box
<1> QED
  BY <1>3, <1>4, <1>5 DEF Boxes

DetectionInv == DOMAIN image = Thread /\ DetectsEachFaceOnce

LEMMA DetectionKept == DetectionInv /\ [Next]_vars => DetectionInv'
<1> SUFFICES ASSUME DetectionInv, [Next]_vars PROVE DetectionInv'
  OBVIOUS
<1>1. CASE UNCHANGED image
  BY <1>1 DEF DetectionInv, DetectsEachFaceOnce
<1>2. ASSUME NEW t \in Thread, Detects(t) PROVE DetectionInv'
  <2>1. PICK boxes \in Image(Score) :
           image' = [image EXCEPT ![t] = [boxes |-> boxes, kept |-> Autodetect(boxes)]]
    BY <1>2 DEF Detects
  <2>2. IsDetection(Autodetect(boxes), boxes)
    BY ImageBoxes, AutodetectDetects
  <2>3. image'[t].boxes = boxes /\ image'[t].kept = Autodetect(boxes)
    BY <2>1 DEF DetectionInv
  <2>4. DOMAIN image' = Thread /\ \A u \in Thread \ {t} : image'[u] = image[u]
    BY <2>1 DEF DetectionInv
  <2> QED
    BY <2>2, <2>3, <2>4 DEF DetectionInv, DetectsEachFaceOnce
<1>3. ASSUME NEW t \in Thread, CropAll(t) PROVE DetectionInv'
  <2>1. /\ DOMAIN image' = Thread /\ image'[t] = None
        /\ \A u \in Thread \ {t} : image'[u] = image[u]
    BY <1>3 DEF CropAll, DetectionInv
  <2> QED
    BY <2>1 DEF DetectionInv, DetectsEachFaceOnce
<1>4. ASSUME NEW t \in Thread, Step(t), ~Detects(t), ~CropAll(t) PROVE UNCHANGED image
  BY <1>4 DEF Step, Begins, Misses, Locks, Loads, Has, DetectFails, DetectsPrimary,
         Sets, Runs, LiteFails, Reads, EstimatesPose, EstimatesAge, EmbedsR100, R100OutOfMemory,
         R100Fails, AdaFace, TimesOut
<1>5. CASE UNCHANGED vars
  BY <1>1, <1>5 DEF vars
<1> QED
  BY <1>1, <1>2, <1>3, <1>4, <1>5 DEF Next

\* Whatever boxes the network answers at its two scales, the faces that are kept are each there
\* once, and none was left out but for another that is nearly the same box, except where
\* suppression at one scale passed it over for a box that the other scale's then replaced
\* (scrfd.py, _autodetect).
THEOREM FacesDetectedOnce == Spec => []DetectsEachFaceOnce
<1>1. Init => DetectionInv
  BY DEF Init, DetectionInv, DetectsEachFaceOnce
<1>2. DetectionInv => DetectsEachFaceOnce
  BY DEF DetectionInv
<1> QED
  BY <1>1, <1>2, DetectionKept, PTL DEF Spec

-----------------------------------------------------------------------------
(* What becomes of the faces of a photo *)

Early(t)  == at[t].step \in {"idle", "get", "wait", "load", "detect", "crop"}
Gate(t)   == at[t].step \in {"pose", "age"} \/ (AtLite(t) /\ at[t].lite # "mbf")
Embeds(t) == at[t].step \in {"r100", "adaface"} \/ AtMbf(t)

StoredFaces == {r.face : r \in stored}

Untouched == todo = 0 /\ buffer = {} /\ stored = {}

\* The faces still to be judged come before those that have passed or were rejected, and no
\* face is both.
Ahead ==
    /\ \A f \in buffer : f > todo
    /\ \A r \in stored : r.face > todo /\ r.face \notin buffer

OneRowEach == \A r, s \in stored : r.face = s.face => r = s

Finished(t) == host = "worker" /\ At(t, "end") /\ answer[t].status = "none"

WorkerPhoto ==
    /\ (\A t \in Thread : Early(t)) => Untouched
    /\ \A t \in Thread : Gate(t) => todo # 0 /\ Ahead
    /\ \A t \in Thread : Embeds(t) => todo = 0 /\ Ahead
    /\ \A t \in Thread : Finished(t) => todo = 0 /\ buffer \subseteq StoredFaces

PhotoInv ==
    /\ PhotoOK /\ OneRowEach
    /\ host = "api" => Untouched
    /\ host = "worker" => WorkerPhoto
    /\ \A t \in Thread : At(t, "crop") => host = "worker" /\ IsFiniteSet(image[t].kept)
    /\ \A t \in Thread : At(t, "adaface") => space[t].model # "none"

\* The faces that are to be judged, wait for the embedder or have a row.
Accounted == (1..todo) \cup buffer \cup StoredFaces

Alone(t) ==
    \A u \in Thread \ {t} : /\ at'[u] = at[u] /\ answer'[u] = answer[u]
                            /\ image'[u] = image[u] /\ space'[u] = space[u]

\* A step that leaves the photo as it is and goes on in the same part of its way.
Steady(t) ==
    /\ UNCHANGED <<host, photo>>
    /\ host = "worker" => /\ Gate(t)' => Gate(t)
                          /\ Embeds(t)' => Embeds(t)
                          /\ Early(t)' => Early(t)
                          /\ At(t, "end")' => answer'[t].status # "none"
    /\ At(t, "crop")' => host = "worker" /\ IsFiniteSet(image'[t].kept)
    /\ At(t, "adaface")' => space'[t].model # "none"

LEMMA SteadyKeeps ==
  ASSUME PhotoInv, NEW t \in Thread, Alone(t), Steady(t)
  PROVE  PhotoInv' /\ UNCHANGED Accounted
<1>0. UNCHANGED <<host, todo, buffer, stored>>
  BY DEF Steady, photo
<1>1. (PhotoOK /\ OneRowEach)' /\ (host = "api" => Untouched)' /\ UNCHANGED Accounted
  BY <1>0 DEF PhotoInv, PhotoOK, OneRowEach, Untouched, Accounted, StoredFaces
<1>2. UNCHANGED <<Ahead, Untouched, StoredFaces>>
  BY <1>0 DEF Ahead, Untouched, StoredFaces
<1>3. \A u \in Thread \ {t} : /\ Gate(u)' = Gate(u) /\ Embeds(u)' = Embeds(u) /\ Early(u)' = Early(u)
                              /\ Finished(u)' = Finished(u)
                              /\ At(u, "crop")' = At(u, "crop") /\ At(u, "adaface")' = At(u, "adaface")
  BY <1>0 DEF Alone, Gate, Embeds, Early, Finished, AtLite, AtMbf, At
<1>4. ASSUME host = "worker" PROVE WorkerPhoto'
  <2>1. WorkerPhoto
    BY <1>4 DEF PhotoInv
  <2>2. (Gate(t)' => Gate(t)) /\ (Embeds(t)' => Embeds(t)) /\ (Early(t)' => Early(t)) /\ ~Finished(t)'
    BY <1>4 DEF Steady, Finished
  <2>3. (\A u \in Thread : Early(u))' => Untouched'
    BY <1>2, <1>3, <2>1, <2>2 DEF WorkerPhoto
  <2>4. \A u \in Thread : /\ Gate(u)' => todo' # 0 /\ Ahead'
                          /\ Embeds(u)' => todo' = 0 /\ Ahead'
    BY <1>0, <1>2, <1>3, <2>1, <2>2 DEF WorkerPhoto
  <2>5. \A u \in Thread : Finished(u)' => todo' = 0 /\ buffer' \subseteq StoredFaces'
    BY <1>0, <1>2, <1>3, <2>1, <2>2 DEF WorkerPhoto
  <2> QED
    BY <2>3, <2>4, <2>5 DEF WorkerPhoto
<1>5. \A u \in Thread : /\ At(u, "crop")' => host' = "worker" /\ IsFiniteSet(image'[u].kept)
                        /\ At(u, "adaface")' => space'[u].model # "none"
  BY <1>0, <1>3 DEF PhotoInv, Alone, Steady
<1> QED
  BY <1>0, <1>1, <1>4, <1>5 DEF PhotoInv

\* The worker's thread has the photo to itself.
LEMMA OthersIdle ==
  ASSUME WorkerInv, NEW t \in Thread, host = "worker", ~At(t, "idle"), UNCHANGED host, Alone(t)
  PROVE  \A u \in Thread \ {t} : /\ At(u, "idle") /\ Early(u) /\ Early(u)'
                                 /\ ~Gate(u)' /\ ~Embeds(u)' /\ ~Finished(u)'
                                 /\ ~At(u, "crop")' /\ ~At(u, "adaface")'
  BY DEF WorkerInv, Alone, Early, Gate, Embeds, Finished, AtLite, AtMbf, At

\* What the worker's step must come to for the photo to be right after it.
LEMMA WorkerKeeps ==
  ASSUME WorkerInv, PhotoInv, NEW t \in Thread, host = "worker", ~At(t, "idle"), UNCHANGED host, Alone(t),
         (PhotoOK /\ OneRowEach)', ~Early(t)', ~At(t, "adaface")',
         Gate(t)' => (todo # 0 /\ Ahead)', Embeds(t)' => (todo = 0 /\ Ahead)',
         Finished(t)' => (todo = 0 /\ buffer \subseteq StoredFaces)'
  PROVE  PhotoInv'
<1>1. WorkerPhoto'
  <2>1. \A u \in Thread \ {t} : ~Gate(u)' /\ ~Embeds(u)' /\ ~Finished(u)'
    BY OthersIdle
  <2> QED
    BY <2>1 DEF WorkerPhoto
<1>2. \A u \in Thread : ~At(u, "crop")' /\ ~At(u, "adaface")'
  BY OthersIdle DEF Early, At
<1> QED
  BY <1>1, <1>2 DEF PhotoInv

LEMMA NextFaceGoes ==
  ASSUME Threads, PhotoOK, NEW t \in Thread, NEW passed, NextFace(t, passed), todo # 0
  PROVE  /\ todo' = todo - 1 /\ buffer' = passed
         /\ ~Early(t)' /\ ~At(t, "adaface")'
         /\ Gate(t)' => todo' # 0
         /\ Embeds(t)' => todo' = 0
         /\ At(t, "end")' => todo' = 0 /\ passed = {}
<1>1. todo' = todo - 1 /\ buffer' = passed /\ todo \in Nat \ {0}
  BY DEF NextFace, PhotoOK
<1>2. CASE todo > 1
  <2>1. at'[t] = [step |-> "set", lite |-> "blur"]
    BY <1>2, GoesAt DEF NextFace
  <2> QED
    BY <1>1, <1>2, <2>1 DEF Early, Gate, Embeds, AtMbf, AtLite, At
<1>3. CASE ~(todo > 1)
  <2>1. at'[t] = IF passed = {} THEN [step |-> "end"] ELSE [step |-> "r100", size |-> AtOnce]
    BY <1>3, GoesAt DEF NextFace
  <2>2. todo' = 0
    BY <1>1, <1>3
  <2> QED
    BY <1>1, <2>1, <2>2 DEF Early, Gate, Embeds, AtMbf, AtLite, At
<1> QED
  BY <1>2, <1>3

LEMMA RejectsKeeps ==
  ASSUME Threads, WorkerInv, PhotoInv, NEW t \in Thread, NEW issue \in Flaw, Gate(t), Alone(t),
         UNCHANGED host, host = "worker", Rejects(t, issue)
  PROVE  PhotoInv' /\ UNCHANGED Accounted
<1> DEFINE its == [face |-> todo, issue |-> issue, flaws |-> flaws[t]]
<1>1. NextFace(t, buffer) /\ stored' = stored \cup {its}
  BY DEF Rejects
<1>2. PhotoOK /\ OneRowEach /\ todo # 0 /\ Ahead /\ ~At(t, "idle")
  BY DEF PhotoInv, WorkerPhoto, Gate, AtLite, At
<1>3. its \in Rows /\ its.face = todo
  BY <1>2 DEF Rows, Threads, PhotoOK
<1> HIDE DEF its
<1>4. /\ todo' = todo - 1 /\ buffer' = buffer
      /\ ~Early(t)' /\ ~At(t, "adaface")'
      /\ Gate(t)' => todo' # 0
      /\ Embeds(t)' => todo' = 0
      /\ At(t, "end")' => todo' = 0 /\ buffer = {}
  BY <1>1, <1>2, NextFaceGoes
<1>5. todo \in Nat \ {0} /\ todo' \in Nat /\ \A r \in stored : r.face \in Nat
  BY <1>2, <1>4 DEF PhotoOK, Rows
<1>6. PhotoOK'
  BY <1>1, <1>2, <1>3, <1>4, <1>5 DEF PhotoOK
<1>7. OneRowEach'
  BY <1>1, <1>2, <1>3, <1>5 DEF OneRowEach, Ahead
<1>8. Ahead'
  <2>1. \A f \in buffer' : f > todo'
    BY <1>2, <1>4, <1>5 DEF Ahead, PhotoOK
  <2>2. \A r \in stored' : r.face > todo' /\ r.face \notin buffer'
    BY <1>1, <1>2, <1>3, <1>4, <1>5 DEF Ahead
  <2> QED
    BY <2>1, <2>2 DEF Ahead
<1>9. UNCHANGED Accounted
  <2>1. StoredFaces' = StoredFaces \cup {todo}
    BY <1>1, <1>3 DEF StoredFaces
  <2>2. 1..todo = (1..todo') \cup {todo}
    BY <1>4, <1>5
  <2> QED
    BY <1>4, <2>1, <2>2 DEF Accounted
<1>10. Finished(t)' => (todo = 0 /\ buffer \subseteq StoredFaces)'
  BY <1>4 DEF Finished
<1> QED
  BY <1>2, <1>4, <1>6, <1>7, <1>8, <1>9, <1>10, WorkerKeeps

LEMMA PassesKeeps ==
  ASSUME Threads, WorkerInv, PhotoInv, NEW t \in Thread, Gate(t), Alone(t),
         UNCHANGED host, host = "worker", Passes(t)
  PROVE  PhotoInv' /\ UNCHANGED Accounted
<1>1. NextFace(t, buffer \cup {todo}) /\ stored' = stored
  BY DEF Passes
<1>2. PhotoOK /\ OneRowEach /\ todo # 0 /\ Ahead /\ ~At(t, "idle")
  BY DEF PhotoInv, WorkerPhoto, Gate, AtLite, At
<1>4. /\ todo' = todo - 1 /\ buffer' = buffer \cup {todo}
      /\ ~Early(t)' /\ ~At(t, "adaface")'
      /\ Gate(t)' => todo' # 0
      /\ Embeds(t)' => todo' = 0
      /\ ~At(t, "end")'
  BY <1>1, <1>2, NextFaceGoes
<1>5. todo \in Nat \ {0} /\ todo' \in Nat /\ \A r \in stored : r.face \in Nat
  BY <1>2, <1>4 DEF PhotoOK, Rows
<1>6. (PhotoOK /\ OneRowEach)'
  BY <1>1, <1>2, <1>4, <1>5 DEF PhotoOK, OneRowEach
<1>8. Ahead'
  <2>1. \A f \in buffer' : f > todo'
    BY <1>2, <1>4, <1>5 DEF Ahead, PhotoOK
  <2>2. \A r \in stored' : r.face > todo' /\ r.face \notin buffer'
    BY <1>1, <1>2, <1>4, <1>5 DEF Ahead
  <2> QED
    BY <2>1, <2>2 DEF Ahead
<1>9. UNCHANGED Accounted
  <2>1. StoredFaces' = StoredFaces
    BY <1>1 DEF StoredFaces
  <2>2. 1..todo = (1..todo') \cup {todo}
    BY <1>4, <1>5
  <2> QED
    BY <1>4, <2>1, <2>2 DEF Accounted
<1>10. ~Finished(t)'
  BY <1>4 DEF Finished
<1> QED
  BY <1>2, <1>4, <1>6, <1>8, <1>9, <1>10, WorkerKeeps

LEMMA AloneSteps ==
  ASSUME Threads, ModelsOK, DOMAIN image = Thread, NEW t \in Thread, Step(t)
  PROVE  Alone(t) /\ UNCHANGED host
<1>0. UNCHANGED host
  BY HostStays DEF process
<1>1. \A u \in Thread \ {t} : image'[u] = image[u]
  <2>1. CASE Detects(t) \/ CropAll(t)
    BY <2>1 DEF Detects, CropAll
  <2>2. CASE ~Detects(t) /\ ~CropAll(t)
    BY <2>2 DEF Step, Begins, Misses, Locks, Loads, Has, DetectFails, DetectsPrimary,
         Sets, Runs, LiteFails, Reads, EstimatesPose, EstimatesAge, EmbedsR100, R100OutOfMemory,
         R100Fails, AdaFace, TimesOut
  <2> QED
    BY <2>1, <2>2
<1>2. ASSUME NEW s, Goes(t, s), UNCHANGED answer PROVE \A u \in Thread \ {t} : at'[u] = at[u] /\ answer'[u] = answer[u]
  BY <1>2, GoesAt
<1>3. ASSUME \A u \in Thread \ {t} : at'[u] = at[u] /\ answer'[u] = answer[u],
             \A u \in Thread \ {t} : space'[u] = space[u]
      PROVE  Alone(t)
  BY <1>1, <1>3 DEF Alone
<1>4. CASE \/ Begins(t) \/ Misses(t) \/ Locks(t) \/ Loads(t) \/ Has(t)
           \/ Detects(t) \/ DetectFails(t) \/ CropAll(t) \/ DetectsPrimary(t)
           \/ LiteFails(t) \/ EstimatesPose(t) \/ EstimatesAge(t) \/ R100Fails(t)
  <2>1. Quiet(t) /\ UNCHANGED space
    BY <1>4, QuietSteps DEF vectors
  <2> QED
    BY <1>0, <1>3, <2>1 DEF Quiet, Apart
<1>5. CASE Sets(t) \/ Runs(t)
  BY <1>0, <1>3, <1>5, SetsRuns
<1>6. CASE Reads(t)
  <2>1. CASE at[t].lite = "mbf"
    BY <1>0, <1>3, <1>6, <2>1, MbfReads DEF ModelsOK
  <2>2. CASE at[t].lite # "mbf"
    BY <1>0, <1>3, <1>6, <2>2, GateReadsOnward DEF Apart
  <2> QED
    BY <2>1, <2>2
<1>7. CASE EmbedsR100(t)
  <2>1. \A u \in Thread \ {t} : space'[u] = space[u]
    BY <1>7 DEF EmbedsR100, ModelsOK
  <2> QED
    BY <1>0, <1>2, <1>3, <1>7, <2>1 DEF EmbedsR100
<1>8. CASE R100OutOfMemory(t)
  BY <1>0, <1>3, <1>8, MemoryFails
<1>9. CASE AdaFace(t)
  <2>1. \A u \in Thread \ {t} : space'[u] = space[u]
    BY <1>9 DEF AdaFace, ModelsOK, vectors
  <2>2. CASE Halves(t, "adaface") /\ UNCHANGED answer
    BY <1>0, <1>2, <1>3, <2>1, <2>2 DEF Halves
  <2>3. CASE \E second \in BOOLEAN : Stores(t, second)
    BY <1>0, <1>2, <1>3, <2>1, <2>3, EndsOnward DEF Stores
  <2> QED
    BY <1>9, <2>2, <2>3 DEF AdaFace
<1>10. CASE TimesOut(t)
  BY <1>0, <1>3, <1>10 DEF TimesOut, vectors, Threads
<1> QED
  BY <1>0, <1>4, <1>5, <1>6, <1>7, <1>8, <1>9, <1>10 DEF Step

\* A gate has judged the crop, or let it pass.
LEMMA GateKeeps ==
  ASSUME Threads, WorkerInv, PhotoInv, host \in {"worker", "api"}, NEW t \in Thread, Gate(t), Alone(t),
         UNCHANGED host,
         (\E issue \in Flaw : Rejects(t, issue)) \/ Passes(t) \/ PassesPose(t)
  PROVE  PhotoInv' /\ UNCHANGED Accounted
<1>1. CASE \E issue \in Flaw : Rejects(t, issue)
  <2>1. PICK issue \in Flaw : Rejects(t, issue)
    BY <1>1
  <2>2. CASE host = "worker"
    BY <2>1, <2>2, RejectsKeeps
  <2>3. CASE host = "api"
    <3>1. UNCHANGED photo /\ Onward(t)
      BY <2>1, <2>3, RejectsOnward DEF Rejects
    <3>2. Steady(t)
      BY <2>3, <3>1 DEF Steady, Onward, At
    <3> QED
      BY <3>2, SteadyKeeps
  <2> QED
    BY <2>2, <2>3
<1>2. CASE Passes(t)
  <2>2. CASE host = "worker"
    BY <1>2, <2>2, PassesKeeps
  <2>3. CASE host = "api"
    <3>1. UNCHANGED photo /\ Onward(t)
      BY <1>2, <2>3, PassesOnward DEF Passes, photo
    <3>2. Steady(t)
      BY <2>3, <3>1 DEF Steady, Onward, At
    <3> QED
      BY <3>2, SteadyKeeps
  <2> QED
    BY <2>2, <2>3
<1>3. CASE Goes(t, [step |-> "age"]) /\ UNCHANGED photo
  <2>1. at'[t] = [step |-> "age"]
    BY <1>3, GoesAt
  <2>2. Steady(t)
    BY <1>3, <2>1 DEF Steady, Gate, Embeds, Early, AtMbf, AtLite, At
  <2> QED
    BY <2>2, SteadyKeeps
<1> QED
  BY <1>1, <1>2, <1>3 DEF PassesPose

LEMMA RaisesSteady ==
  ASSUME Threads, NEW t \in Thread, Raises(t), UNCHANGED <<host, photo>>
  PROVE  Steady(t)
<1>1. at'[t] = [step |-> "end"] /\ answer'[t].status # "none"
  BY DEF Raises, Ends, Goes, Threads
<1> QED
  BY <1>1 DEF Steady, Gate, Embeds, Early, AtMbf, AtLite, At

\* Before the faces are known.
LEMMA EarlySteady ==
  ASSUME Threads, host \in {"worker", "api"}, UNCHANGED host, NEW t \in Thread,
         Begins(t) \/ Misses(t) \/ Locks(t) \/ Loads(t) \/ Has(t) \/ DetectFails(t) \/ DetectsPrimary(t)
  PROVE  Steady(t)
<1> USE DEF photo
<1>1. ASSUME NEW s, Goes(t, s), s.step \in {"get", "wait", "load", "detect"}, UNCHANGED photo, Early(t)
      PROVE  Steady(t)
  <2>1. at'[t].step \in {"get", "wait", "load", "detect"}
    BY <1>1, GoesAt
  <2> QED
    BY <1>1, <2>1 DEF Steady, Gate, Embeds, Early, AtMbf, AtLite, At
<1>2. UNCHANGED photo /\ Early(t)
  BY DEF Begins, Misses, Locks, Loads, Has, DetectFails, DetectsPrimary, Early, At
<1>3. CASE Begins(t)
  BY <1>1, <1>2, <1>3 DEF Begins
<1>4. CASE Misses(t) \/ Locks(t) \/ Loads(t)
  <2>1. at[t] = [step |-> at[t].step, want |-> at[t].want]
    BY <1>4, WantTyped DEF Misses, Locks, Loads, At
  <2>2. \A x \in {"get", "wait", "load"} : [at[t] EXCEPT !.step = x].step = x
    BY <2>1
  <2> QED
    BY <1>1, <1>2, <1>4, <2>2, RaisesSteady DEF Misses, Locks, Loads
<1>5. CASE Has(t)
  <2>1. CASE host = "worker"
    BY <1>1, <1>2, <1>5, <2>1 DEF Has
  <2>2. CASE host = "api"
    <3>1. at'[t].step \in {"get", "set", "detect"}
      BY <1>5, GoesAt DEF Has
    <3> QED
      BY <1>2, <2>2, <3>1 DEF Steady, At
  <2> QED
    BY <2>1, <2>2
<1>6. CASE DetectFails(t)
  BY <1>2, <1>6, RaisesSteady DEF DetectFails
<1>7. CASE DetectsPrimary(t)
  <2>1. host = "api"
    BY <1>7 DEF DetectsPrimary
  <2>2. at'[t].step \in {"end", "get"}
    BY <1>7, GoesAt DEF DetectsPrimary, Ends
  <2> QED
    BY <1>2, <2>1, <2>2 DEF Steady, At
<1> QED
  BY <1>3, <1>4, <1>5, <1>6, <1>7

LEMMA DetectsSteady ==
  ASSUME Threads, DOMAIN image = Thread, NEW t \in Thread, Detects(t), UNCHANGED host
  PROVE  Steady(t)
<1>1. PICK boxes \in Image(Score) :
         image' = [image EXCEPT ![t] = [boxes |-> boxes, kept |-> Autodetect(boxes)]]
  BY DEF Detects
<1>2. IsFiniteSet(boxes) /\ IsDetection(Autodetect(boxes), boxes)
  BY ImageBoxes, AutodetectDetects DEF Boxes
<1>3. IsFiniteSet(Autodetect(boxes))
  <2>1. Autodetect(boxes) \subseteq boxes
    BY <1>2 DEF IsDetection, Positive
  <2> QED
    BY <1>2, <2>1, FS_Subset
<1>4. image'[t].kept = Autodetect(boxes)
  BY <1>1
<1>5. at'[t] = [step |-> "crop"] /\ At(t, "detect") /\ UNCHANGED photo /\ host = "worker"
  BY GoesAt DEF Detects
<1> QED
  BY <1>3, <1>4, <1>5 DEF Steady, Gate, Embeds, Early, AtMbf, AtLite, At

LEMMA CropKeeps ==
  ASSUME Threads, WorkerInv, PhotoInv, NEW t \in Thread, CropAll(t), Alone(t), UNCHANGED host
  PROVE  PhotoInv'
<1> DEFINE found == Faces(image[t].kept, TRUE)
<1>1. host = "worker" /\ IsFiniteSet(image[t].kept) /\ ~At(t, "idle")
  BY DEF CropAll, PhotoInv, At
<1>2. Untouched
  <2>1. \A u \in Thread : Early(u)
    BY <1>1, OthersIdle DEF CropAll, Early, At
  <2> QED
    BY <1>1, <2>1 DEF PhotoInv, WorkerPhoto
<1>3. Cardinality(found) \in Nat
  <2> DEFINE face == [b \in image[t].kept |-> Face(b, TRUE)]
  <2>1. face \in Surjection(image[t].kept, found)
    BY DEF Surjection, Faces
  <2>2. IsFiniteSet(found)
    <3> HIDE DEF face, found
    <3> QED
      BY <1>1, <2>1, FS_Surjection
  <2> QED
    BY <2>2, FS_CardinalityType
<1>4. todo' \in Nat /\ buffer' = {} /\ stored' = {}
  BY <1>2, <1>3 DEF CropAll, Untouched
<1>5. at'[t] = IF todo' = 0 THEN [step |-> "end"] ELSE [step |-> "set", lite |-> "blur"]
  BY GoesAt DEF CropAll
<1>6. (PhotoOK /\ OneRowEach /\ Ahead)'
  BY <1>4 DEF PhotoOK, OneRowEach, Ahead
<1>7. /\ ~Early(t)' /\ ~At(t, "adaface")' /\ ~Embeds(t)'
      /\ Gate(t)' => todo' # 0
      /\ Finished(t)' => (todo = 0 /\ buffer \subseteq StoredFaces)'
  BY <1>4, <1>5 DEF Early, Embeds, Gate, Finished, AtMbf, AtLite, At
<1> QED
  BY <1>1, <1>6, <1>7, WorkerKeeps

\* The faces that the embedder was given get their rows.
LEMMA StoresKeeps ==
  ASSUME Threads, ModelsOK, WorkerInv, PhotoInv, NEW t \in Thread, At(t, "adaface"), Alone(t), UNCHANGED host,
         host = "worker", NEW second \in BOOLEAN, Stores(t, second), UNCHANGED <<todo, buffer>>
  PROVE  PhotoInv' /\ UNCHANGED Accounted
<1> DEFINE rowOf(f) == [face |-> f, model |-> space[t].model, second |-> second]
           new == {rowOf(f) : f \in buffer}
<1>1. stored' = stored \cup new /\ at'[t] = [step |-> "end"]
  BY GoesAt DEF Stores
<1>2. space[t].model \in {"r100", "mbf"}
  BY DEF PhotoInv, ModelsOK
<1>3. PhotoOK /\ OneRowEach /\ todo = 0 /\ Ahead
  BY DEF PhotoInv, WorkerPhoto, Embeds, At
<1>4. \A f \in buffer : rowOf(f) \in Rows /\ rowOf(f).face = f
  BY <1>2, <1>3 DEF Rows, PhotoOK
<1>5. \A r \in new : r.face \in buffer /\ r = rowOf(r.face) /\ r \in Rows
  BY <1>4
<1>6. \A f \in buffer : \E r \in new : r.face = f
  BY <1>4
<1> HIDE DEF new, rowOf
<1>7. PhotoOK'
  BY <1>1, <1>3, <1>5 DEF PhotoOK
<1>8. OneRowEach'
  BY <1>1, <1>3, <1>5 DEF OneRowEach, Ahead
<1>9. StoredFaces' = StoredFaces \cup buffer
  BY <1>1, <1>5, <1>6 DEF StoredFaces
<1>10. UNCHANGED Accounted
  BY <1>9 DEF Accounted
<1>11. ~At(t, "idle") /\ ~Early(t)' /\ ~Gate(t)' /\ ~Embeds(t)' /\ ~At(t, "adaface")'
  BY <1>1 DEF Early, Gate, Embeds, AtMbf, AtLite, At
<1>12. (todo = 0 /\ buffer \subseteq StoredFaces)'
  BY <1>3, <1>9
<1> QED
  BY <1>7, <1>8, <1>10, <1>11, <1>12, WorkerKeeps

LEMMA PhotoStep ==
  ASSUME ExtractionTyped, WorkerInv, PhotoInv, DOMAIN image = Thread, NEW t \in Thread, Step(t), ~CropAll(t)
  PROVE  PhotoInv' /\ UNCHANGED Accounted
<1>0. /\ Threads /\ ModelsOK /\ host \in {"worker", "api"} /\ Alone(t) /\ UNCHANGED host
      /\ Steady(t) => PhotoInv' /\ UNCHANGED Accounted
  <2>1. Threads /\ ModelsOK /\ host \in {"worker", "api"}
    BY DEF ExtractionTyped, ThreadsOK, Threads
  <2>2. Alone(t) /\ UNCHANGED host
    BY <2>1, AloneSteps
  <2> QED
    BY <2>1, <2>2, SteadyKeeps
<1>1. ASSUME NEW s, Goes(t, s), UNCHANGED photo, Gate(t),
             s.step = "pose" \/ (s.step = "set" /\ s.lite = "pose")
      PROVE  Steady(t)
  <2>1. at'[t] = s
    BY <1>0, <1>1, GoesAt
  <2> QED
    BY <1>0, <1>1, <2>1 DEF Steady, Gate, Embeds, Early, AtMbf, AtLite, At
<1>2. ASSUME Embeds(t), Embeds(t)', ~Gate(t)', ~Early(t)', UNCHANGED photo,
             At(t, "adaface")' => space'[t].model # "none"
      PROVE  Steady(t)
  <2>1. ~At(t, "end")' /\ ~At(t, "crop")'
    BY <1>2 DEF Embeds, Early, AtMbf, AtLite, At
  <2> QED
    BY <1>0, <1>2, <2>1 DEF Steady
<1>3. CASE Begins(t) \/ Misses(t) \/ Locks(t) \/ Loads(t) \/ Has(t) \/ DetectFails(t) \/ DetectsPrimary(t)
  BY <1>0, <1>3, EarlySteady
<1>4. CASE Detects(t)
  BY <1>0, <1>4, DetectsSteady
<1>5. CASE Sets(t) \/ Runs(t)
  <2>1. UNCHANGED photo
    BY <1>5 DEF Sets, Runs
  <2>2. AtLite(t) /\ \E x \in {"run", "read"} : at'[t] = [step |-> x, lite |-> at[t].lite]
    BY <1>0, <1>5, SetsRuns
  <2>3. Steady(t)
    BY <1>0, <2>1, <2>2 DEF Steady, Gate, Embeds, Early, AtMbf, AtLite, At
  <2> QED
    BY <1>0, <2>3
<1>6. CASE LiteFails(t)
  <2>1. AtLite(t)
    BY <1>6 DEF LiteFails, AtLite, At
  <2>2. CASE at[t].lite = "blur" /\ Goes(t, [step |-> "pose"]) /\ UNCHANGED photo
    BY <1>0, <1>1, <2>1, <2>2 DEF Gate
  <2>3. CASE at[t].lite = "pose" /\ PassesPose(t)
    BY <1>0, <2>1, <2>3, GateKeeps DEF Gate
  <2>4. CASE Raises(t) /\ UNCHANGED photo
    BY <1>0, <2>4, RaisesSteady
  <2> QED
    BY <1>6, <2>2, <2>3, <2>4 DEF LiteFails
<1>7. CASE Reads(t)
  <2>1. AtLite(t) /\ at[t].lite \in Lite
    BY <1>0, <1>7, LiteTyped DEF Reads, AtLite, At
  <2>2. CASE at[t].lite = "mbf"
    <3>1. at'[t] = [step |-> "adaface", size |-> AtOnce] /\ space'[t].model = "mbf"
      BY <1>0, <1>7, <2>2, MbfReads DEF ModelsOK
    <3>2. UNCHANGED photo
      BY <1>7, <2>2 DEF Reads
    <3>3. Embeds(t) /\ Embeds(t)' /\ ~Gate(t)' /\ ~Early(t)'
      BY <2>1, <2>2, <3>1 DEF Gate, Embeds, Early, AtMbf, AtLite
    <3> QED
      BY <1>0, <1>2, <3>1, <3>2, <3>3
  <2>3. CASE at[t].lite # "mbf"
    <3>1. Gate(t) /\ at[t].lite \in Flaw
      BY <2>1, <2>3 DEF Gate, Lite, Flaw
    <3>2. \/ Rejects(t, at[t].lite) \/ PassesPose(t)
          \/ Goes(t, [step |-> "pose"]) /\ UNCHANGED photo
      BY <1>7, <2>3 DEF Reads
    <3> QED
      BY <1>0, <1>1, <3>1, <3>2, GateKeeps
  <2> QED
    BY <2>2, <2>3
<1>8. CASE EstimatesPose(t)
  <2>1. Gate(t)
    BY <1>8 DEF EstimatesPose, Gate, At
  <2>2. CASE ThreeDDFA(t)
    BY <1>0, <2>1, <2>2, GateKeeps DEF ThreeDDFA, Flaw
  <2>3. CASE Goes(t, [step |-> "set", lite |-> "pose"]) /\ UNCHANGED photo
    BY <1>0, <1>1, <2>1, <2>3
  <2> QED
    BY <1>8, <2>2, <2>3 DEF EstimatesPose
<1>9. CASE EstimatesAge(t)
  <2>1. Gate(t) /\ (Rejects(t, "age") \/ Passes(t))
    BY <1>9 DEF EstimatesAge, Gate, At
  <2> QED
    BY <1>0, <2>1, GateKeeps DEF Flaw
<1>10. CASE EmbedsR100(t)
  <2>1. at'[t] = [step |-> "adaface", size |-> AtOnce] /\ space'[t].model = "r100" /\ UNCHANGED photo /\ At(t, "r100")
    BY <1>0, <1>10, GoesAt DEF EmbedsR100, ModelsOK
  <2>2. Embeds(t) /\ Embeds(t)' /\ ~Gate(t)' /\ ~Early(t)'
    BY <2>1 DEF Gate, Embeds, Early, AtMbf, AtLite, At
  <2> QED
    BY <1>0, <1>2, <2>1, <2>2
<1>11. CASE R100OutOfMemory(t)
  <2>1. UNCHANGED photo /\ At(t, "r100")
    BY <1>11 DEF R100OutOfMemory
  <2>2. at'[t].step = "r100" \/ at'[t] = [step |-> "set", lite |-> "mbf"]
    BY <1>0, <1>11, MemoryFails
  <2>3. Embeds(t) /\ Embeds(t)' /\ ~Gate(t)' /\ ~Early(t)' /\ ~At(t, "adaface")'
    BY <2>1, <2>2 DEF Gate, Embeds, Early, AtMbf, AtLite, At
  <2> QED
    BY <1>0, <1>2, <2>1, <2>3
<1>12. CASE R100Fails(t)
  BY <1>0, <1>12, RaisesSteady DEF R100Fails
<1>13. CASE AdaFace(t)
  <2>1. At(t, "adaface") /\ UNCHANGED <<todo, buffer>>
    BY <1>13 DEF AdaFace
  <2>2. CASE Halves(t, "adaface") /\ UNCHANGED <<stored, vectors>>
    <3>1. at'[t].step = "adaface"
      BY <1>0, <2>2, GoesAt DEF Halves
    <3>2. Embeds(t) /\ Embeds(t)' /\ ~Gate(t)' /\ ~Early(t)' /\ UNCHANGED photo
      BY <2>1, <2>2, <3>1 DEF Gate, Embeds, Early, AtMbf, AtLite, At, photo
    <3>3. space'[t].model # "none"
      BY <2>1, <2>2 DEF PhotoInv, vectors
    <3> QED
      BY <1>0, <1>2, <3>2, <3>3
  <2>3. CASE \E second \in BOOLEAN : Stores(t, second)
    <3>1. PICK second \in BOOLEAN : Stores(t, second)
      BY <2>3
    <3>2. CASE host = "worker"
      BY <1>0, <2>1, <3>1, <3>2, StoresKeeps DEF ExtractionTyped
    <3>3. CASE host = "api"
      <4>1. UNCHANGED photo /\ at'[t] = [step |-> "end"]
        BY <1>0, <2>1, <3>1, <3>3, GoesAt DEF Stores, Ends, photo
      <4>2. Steady(t)
        BY <1>0, <3>3, <4>1 DEF Steady, At
      <4> QED
        BY <1>0, <4>2
    <3> QED
      BY <1>0, <3>2, <3>3
  <2> QED
    BY <1>13, <2>2, <2>3 DEF AdaFace
<1>14. CASE TimesOut(t)
  <2>1. host = "api" /\ UNCHANGED <<at, image, photo, space>>
    BY <1>14 DEF TimesOut, vectors
  <2>2. Steady(t)
    BY <1>0, <2>1 DEF Steady, PhotoInv, At
  <2> QED
    BY <1>0, <2>2
<1> QED
  BY <1>3, <1>4, <1>5, <1>6, <1>7, <1>8, <1>9, <1>10, <1>11, <1>12, <1>13, <1>14 DEF Step

\* From the moment they were cropped, the faces of a photo that are to be judged, wait for the
\* embedder or have a row are the same.
FacesConserved == [][(\E t \in Thread : CropAll(t)) \/ UNCHANGED Accounted]_vars

\* No face has two rows, and when the worker is done with the photo without an error, each has one.
EachFaceStored ==
    /\ OneRowEach
    /\ \A t \in Thread : Finished(t) => Accounted = StoredFaces

AllInv == ExtractionTyped /\ JudgeInv /\ DetectionInv /\ PhotoInv

LEMMA PhotoKept ==
  AllInv /\ [Next]_vars => AllInv' /\ ((\E t \in Thread : CropAll(t)) \/ UNCHANGED Accounted)
<1> SUFFICES ASSUME AllInv, [Next]_vars
             PROVE  AllInv' /\ ((\E t \in Thread : CropAll(t)) \/ UNCHANGED Accounted)
  OBVIOUS
<1>1. (ExtractionTyped /\ JudgeInv /\ DetectionInv)'
  BY NextTyped, JudgeKept, DetectionKept DEF AllInv
<1>2. ExtractionTyped /\ WorkerInv /\ PhotoInv /\ DOMAIN image = Thread
  BY DEF AllInv, JudgeInv, DetectionInv
<1>3. ASSUME NEW t \in Thread, CropAll(t) PROVE PhotoInv'
  <2>1. Threads /\ ModelsOK
    BY <1>2 DEF ExtractionTyped, ThreadsOK, Threads
  <2>2. Alone(t) /\ UNCHANGED host
    BY <1>2, <1>3, <2>1, AloneSteps DEF Step
  <2> QED
    BY <1>2, <1>3, <2>1, <2>2, CropKeeps
<1>4. ASSUME NEW t \in Thread, Step(t), ~CropAll(t) PROVE PhotoInv' /\ UNCHANGED Accounted
  BY <1>2, <1>4, PhotoStep
<1>5. ASSUME UNCHANGED vars PROVE PhotoInv' /\ UNCHANGED Accounted
  <2>1. UNCHANGED <<host, todo, buffer, stored, at, image, answer, space>>
    BY <1>5 DEF vars, process, photo, vectors
  <2>2. UNCHANGED <<Untouched, PhotoOK, OneRowEach, Ahead, StoredFaces, Accounted>>
    BY <2>1 DEF PhotoOK, OneRowEach, Untouched, Ahead, StoredFaces, Accounted
  <2>3. \A t \in Thread : /\ Early(t)' = Early(t) /\ Gate(t)' = Gate(t) /\ Embeds(t)' = Embeds(t)
                         /\ Finished(t)' = Finished(t) /\ At(t, "crop")' = At(t, "crop")
                         /\ At(t, "adaface")' = At(t, "adaface")
    BY <2>1 DEF Early, Gate, Embeds, Finished, AtMbf, AtLite, At
  <2>4. WorkerPhoto' = WorkerPhoto
    BY <2>1, <2>2, <2>3 DEF WorkerPhoto
  <2> QED
    BY <1>2, <2>1, <2>2, <2>3, <2>4 DEF PhotoInv
<1> QED
  BY <1>1, <1>3, <1>4, <1>5 DEF AllInv, Next

LEMMA AllInit == Init => AllInv
<1> SUFFICES ASSUME Init PROVE AllInv
  OBVIOUS
<1>1. ExtractionTyped
  BY InitTyped
<1>2. JudgeInv
  BY DEF Init, JudgeInv, OwnInv, WorkerInv, RowsInv, FindsOwn, Judged, Within, At
<1>3. DetectionInv
  BY DEF Init, DetectionInv, DetectsEachFaceOnce
<1>4. Untouched /\ \A t \in Thread : at[t].step = "idle"
  BY DEF Init, Untouched
<1>5. PhotoInv
  BY <1>4 DEF Untouched, PhotoInv, PhotoOK, OneRowEach, WorkerPhoto, Early, Gate, Embeds, Finished,
            AtMbf, AtLite, At
<1> QED
  BY <1>1, <1>2, <1>3, <1>5 DEF AllInv

\* Every state component keeps its type, the faces of the photo and their rows included.
THEOREM ExtractionTypeCorrect == Spec => []TypeOK
<1>1. AllInv => TypeOK
  BY DEF AllInv, ExtractionTyped, PhotoInv, TypeOK
<1> QED
  BY <1>1, AllInit, PhotoKept, PTL DEF Spec

\* Every face of a photo that was cropped is judged once, and gets one row, of its rejection or
\* of its vector, unless the worker gives the photo up with an error, however its faces fall
\* into rejected and passed ones (face_service.py, quality_filter.py, dual_embedder.py).
THEOREM FacesAreStoredOnce == Spec => FacesConserved /\ []EachFaceStored
<1>1. AllInv => EachFaceStored
  <2>1. ASSUME AllInv, NEW t \in Thread, Finished(t) PROVE Accounted = StoredFaces
    <3>1. todo = 0 /\ buffer \subseteq StoredFaces
      BY <2>1 DEF AllInv, PhotoInv, WorkerPhoto, Finished
    <3> QED
      BY <3>1 DEF Accounted
  <2> QED
    BY <2>1 DEF AllInv, PhotoInv, EachFaceStored
<1>2. AllInv /\ [Next]_vars => AllInv' /\ [(\E t \in Thread : CropAll(t)) \/ UNCHANGED Accounted]_vars
  BY PhotoKept
<1> QED
  BY <1>1, <1>2, AllInit, PTL DEF Spec, FacesConserved

-----------------------------------------------------------------------------
(***************************************************************************)
(* Theorems about FaceClusters, for any faces, sessions, batch size and    *)
(* number of faults.                                                       *)
(*                                                                         *)
(* What a result does to a cluster is read off from where its faces and    *)
(* clusters go (Redirects); the four writers of results differ in what     *)
(* they count (Writes).  A person is kept because past the lock only one   *)
(* run is (HoldsInv), whose batch has no cluster yet (BatchInv).  The      *)
(* counters are right whoever overlaps, because a session whose copy of a  *)
(* cluster is up to date cannot have one of its faces in its batch: the    *)
(* copy never counts what is about to be added (CopyInv), so a face of     *)
(* the batch that another run has put there makes the copy out of date.    *)
(*                                                                         *)
(* A merge sums over clusters; the sum of the sizes of disjoint sets is    *)
(* the size of all of them together (SumCounts), proved like Suppression   *)
(* by a smallest set for which it would fail.                              *)
(***************************************************************************)
HIDE ExtractionAssumption

(* Sums over clusters *)

Together(D, s) == UNION {D[j] : j \in s}

Chosen(s) == CHOOSE x \in s : TRUE

\* What the sum of a merge folds over the sets of clusters.
FoldOver(f, S) ==
    CHOOSE g : g = [s \in SUBSET S |-> IF s = {} THEN 0 ELSE f[Chosen(s)] + g[s \ {Chosen(s)}]]

\* What the community modules sum over a set is that fold.
LEMMA SumIsFold == ASSUME NEW f, NEW S PROVE SumFunctionOnSet(f, S) = FoldOver(f, S)[S]
PROOF
BY DEF SumFunctionOnSet, FoldFunctionOnSet, MapThenFoldSet, FoldOver, Chosen

\* Finitely many finite sets are together finite.
LEMMA TogetherFinite ==
    ASSUME NEW S, IsFiniteSet(S), NEW D, \A j \in S : IsFiniteSet(D[j])
    PROVE  \A s \in SUBSET S : IsFiniteSet(Together(D, s))
PROOF
<1> DEFINE bad == {s \in SUBSET S : ~IsFiniteSet(Together(D, s))}
<1>1. ASSUME bad # {} PROVE FALSE
  <2>1. PICK s \in bad : \A t \in SUBSET s : t # s => t \notin bad
    <3>1. bad \subseteq SUBSET S
      OBVIOUS
    <3> HIDE DEF bad
    <3> QED BY <1>1, <3>1, SmallestSet
  <2>2. s # {}
    BY FS_EmptySet DEF Together
  <2>3. PICK j \in s : TRUE
    BY <2>2
  <2>4. IsFiniteSet(Together(D, s \ {j}))
    BY <2>1, <2>3
  <2>5. Together(D, s) = D[j] \cup Together(D, s \ {j})
    BY <2>3 DEF Together
  <2> QED BY <2>3, <2>4, <2>5, FS_Union
<1> QED BY <1>1

\* The sum of the sizes of disjoint sets is the size of all of them together.
LEMMA SumCounts ==
    ASSUME NEW S, IsFiniteSet(S), NEW D, NEW f,
           \A j \in S : IsFiniteSet(D[j]) /\ f[j] = Cardinality(D[j]),
           \A i, j \in S : i # j => D[i] \cap D[j] = {}
    PROVE  SumFunctionOnSet(f, S) = Cardinality(Together(D, S))
PROOF
<1>1. \A s \in SUBSET S : IsFiniteSet(Together(D, s))
  BY TogetherFinite
<1> DEFINE sum == [s \in SUBSET S |-> Cardinality(Together(D, s))]
           OneMore(g, s) == IF s = {} THEN 0 ELSE f[Chosen(s)] + g[s \ {Chosen(s)}]
           IsFold(g) == g = [s \in SUBSET S |-> OneMore(g, s)]
<1>2. \A s \in SUBSET S : s # {} => Chosen(s) \in s
  BY DEF Chosen
<1>3. ASSUME NEW s \in SUBSET S PROVE sum[s] = OneMore(sum, s)
  <2>1. CASE s = {}
    BY <2>1, FS_EmptySet DEF Together
  <2>2. CASE s # {}
    <3> DEFINE j == Chosen(s)
               rest == Together(D, s \ {j})
    <3>1. j \in s
      BY <1>2, <2>2
    <3> HIDE DEF j
    <3>2. Together(D, s) = D[j] \cup rest /\ D[j] \cap rest = {}
      BY <3>1 DEF Together
    <3>3. IsFiniteSet(rest) /\ IsFiniteSet(D[j])
      BY <1>1, <3>1
    <3>4. /\ Cardinality(D[j] \cup rest)
                = Cardinality(D[j]) + Cardinality(rest) - Cardinality(D[j] \cap rest)
          /\ Cardinality(D[j] \cap rest) = 0
          /\ Cardinality(D[j]) \in Nat /\ Cardinality(rest) \in Nat
      BY <3>2, <3>3, FS_Union, FS_EmptySet, FS_CardinalityType
    <3>5. Cardinality(Together(D, s)) = f[j] + Cardinality(rest)
      BY <3>1, <3>2, <3>4
    <3>6. sum[s] = Cardinality(Together(D, s)) /\ sum[s \ {j}] = Cardinality(rest)
      OBVIOUS
    <3> QED BY <2>2, <3>5, <3>6 DEF j
  <2> QED BY <2>1, <2>2
<1>4. IsFold(sum)
  BY <1>3
<1>5. IsFold(FoldOver(f, S))
  <2> HIDE DEF sum
  <2> QED BY <1>4 DEF FoldOver
<1> DEFINE fold == FoldOver(f, S)
           bad == {s \in SUBSET S : fold[s] # sum[s]}
<1>6. ASSUME bad # {} PROVE FALSE
  <2>1. PICK s \in bad : \A t \in SUBSET s : t # s => t \notin bad
    <3>1. bad \subseteq SUBSET S
      OBVIOUS
    <3> HIDE DEF bad
    <3> QED BY <1>6, <3>1, SmallestSet
  <2>2. s \in SUBSET S /\ fold[s] # sum[s]
    OBVIOUS
  <2>3. fold[s] = OneMore(fold, s) /\ sum[s] = OneMore(sum, s)
    <3> HIDE DEF sum, fold
    <3> QED BY <1>4, <1>5, <2>2 DEF fold
  <2>4. s # {} => fold[s \ {Chosen(s)}] = sum[s \ {Chosen(s)}]
    BY <1>2, <2>1, <2>2
  <2> HIDE DEF sum, fold
  <2> QED BY <2>2, <2>3, <2>4
<1>7. fold[S] = sum[S]
  BY <1>6
<1> QED BY <1>7, SumIsFold

\* A sum of natural numbers is one.
LEMMA SumIsNat ==
    ASSUME NEW S, IsFiniteSet(S), NEW f, \A j \in S : f[j] \in Nat
    PROVE  SumFunctionOnSet(f, S) \in Nat
PROOF
<1> DEFINE D == [j \in S |-> {<<j, n>> : n \in 1..f[j]}]
<1>1. ASSUME NEW j \in S PROVE IsFiniteSet(D[j]) /\ f[j] = Cardinality(D[j])
  <2>1. IsFiniteSet(1..f[j]) /\ Cardinality(1..f[j]) = f[j]
    BY FS_Interval
  <2> DEFINE pair == [n \in 1..f[j] |-> <<j, n>>]
  <2>2. pair \in Bijection(1..f[j], D[j])
    BY DEF Bijection, Injection, Surjection, IsInjective
  <2>3. ExistsBijection(1..f[j], D[j])
    BY <2>2 DEF ExistsBijection
  <2> QED BY <2>1, <2>3, FS_Bijection
<1>2. \A i, j \in S : i # j => D[i] \cap D[j] = {}
  OBVIOUS
<1> HIDE DEF D
<1>3. SumFunctionOnSet(f, S) = Cardinality(Together(D, S))
  BY <1>1, <1>2, SumCounts
<1>4. IsFiniteSet(Together(D, S))
  BY <1>1, TogetherFinite
<1> QED BY <1>3, <1>4, FS_CardinalityType

-----------------------------------------------------------------------------
(* The inductive invariant *)

\* A run past the lock holds it, unless a key expired under a live run.
HoldsInv ==
    /\ \A r \in Sessions : phase[r] \notin Phases => step[r] = "waits"
    /\ ~lapsed => \A r \in Sessions : step[r] # "waits" => holder = r

\* The faces of a batch are of the angles of the phase, and without a cluster until the
\* run writes, unless a key expired.
BatchInv ==
    /\ \A r \in Sessions : /\ batch[r] \subseteq Angles(r)
                           /\ step[r] # "loaded" \/ phase[r] = "merge" => batch[r] = {}
    /\ ~lapsed => \A r \in Sessions : \A c \in batch[r] : member[c] = Nil

\* An id that no cluster has had is nowhere.
FreshInv ==
    /\ \A c \in Crops : member[c] \notin fresh
    /\ \A r \in Sessions : held[r] \cap fresh = {}
    /\ \A k \in fresh : row[k] = NoRow /\ \A r \in Sessions : copy[r][k] = NoRow

FacesOf(k) == {c \in Crops : member[c] = k}
SizedOf(k) == FacesOf(k) \ swept
PyrsOf(k)  == {c \in Profile : member[c] = k}

\* What a session has of a cluster counts none of the faces that it is about to add.
CopyInv ==
    \A r \in Sessions : \A k \in (held[r] \cap live) \ tainted :
        /\ copy[r][k].size <= Cardinality(SizedOf(k) \ batch[r])
        /\ copy[r][k].pyr <= Cardinality(PyrsOf(k) \ batch[r])

\* Only faces that are stored, or were, are loaded and get a cluster.
StoredInv ==
    /\ \A c \in Crops : member[c] # Nil => c \in rows \cup gone
    /\ \A r \in Sessions : batch[r] \subseteq rows \cup gone

LockInv == ClusterTypeOK /\ HoldsInv /\ BatchInv /\ FreshInv /\ StoredInv

ClusterInv == LockInv /\ CopyInv /\ MembersAgree

-----------------------------------------------------------------------------
(* Where the faces of a batch, and the clusters read with it, go *)

\* Clusters go to clusters that stay where they are; faces to one of these or to a new one.
Redirects(r, to) ==
    /\ \A k \in held[r] : to[k] \in held[r] /\ to[to[k]] = to[k]
    /\ \A c \in batch[r] : /\ to[c] \in held[r] \cup fresh \cup {Nil}
                           /\ to[c] \in held[r] => to[to[c]] = to[c]

StaysPut(r, to) == \A k \in held[r] : to[k] = k

\* What each of the four writers of a result does with it.
Writes(r, to, counts) ==
    \/ phase[r] = "cluster" /\ counts = {"size"}
    \/ phase[r] = "sweeper" /\ counts = {"pyr"} /\ StaysPut(r, to)
       /\ \A c \in batch[r] : to[c] \notin fresh
    \/ phase[r] = "crops" /\ counts = {"size", "pyr"} /\ StaysPut(r, to)
       /\ \A c \in batch[r] : to[c] \notin fresh
    \/ phase[r] = "merge" /\ counts = {} /\ batch[r] = {}

Writer(r) == ClusterBatch(r) \/ SweepBatch(r) \/ RecoverBatch(r) \/ MergeOrphans(r)

\* Faces, clusters, fresh ids and Nil are told apart.
LEMMA Disjoint ==
    ASSUME ClusterTypeOK, NEW r \in Sessions
    PROVE  /\ held[r] \subseteq Clusters /\ batch[r] \subseteq Crops
           /\ held[r] \cap batch[r] = {} /\ Nil \notin held[r] /\ Nil \notin batch[r]
           /\ Nil \notin fresh /\ Nil \notin live /\ fresh \cap live = {}
           /\ fresh \subseteq Clusters
PROOF
BY ClusterAssumption DEF ClusterTypeOK

\* A grouping of the cluster pass, with ids for the clusters it founds, is such a redirection.
LEMMA ClusteredRedirects ==
    ASSUME ClusterTypeOK, FreshInv, NEW r \in Sessions,
           NEW f \in Groupings(r), NEW ids \in FreshIds(r, f)
    PROVE  Redirects(r, Clustered(r, f, ids))
PROOF
<1> DEFINE to == Clustered(r, f, ids)
<1>1. /\ f \in [held[r] \cup batch[r] -> held[r] \cup batch[r] \cup {Nil}]
      /\ \A x \in held[r] \cup batch[r] : f[x] # Nil => f[f[x]] = f[x]
      /\ \A k \in held[r] : f[k] \in held[r]
  BY DEF Groupings
<1>2. \A x \in held[r] \cup batch[r] : to[x] = IF f[x] \in batch[r] THEN ids[f[x]] ELSE f[x]
  BY <1>1 DEF Clustered
<1>3. ASSUME NEW c \in batch[r], f[c] \in batch[r] PROVE ids[f[c]] \in fresh
  <2>1. f[c] # Nil /\ f[f[c]] = f[c]
    BY <1>1, <1>3, Disjoint
  <2>2. f[c] \in Founders(r, f)
    BY <1>3, <2>1 DEF Founders
  <2> QED BY <2>2 DEF FreshIds
<1>4. ASSUME NEW k \in held[r] PROVE to[k] \in held[r] /\ to[k] = f[k] /\ to[to[k]] = to[k]
  BY <1>1, <1>2, Disjoint
<1>5. ASSUME NEW c \in batch[r]
      PROVE  to[c] \in held[r] \cup fresh \cup {Nil} /\ (to[c] \in held[r] => to[to[c]] = to[c])
  <2>1. CASE f[c] \in batch[r]
    <3>1. to[c] \in fresh
      BY <1>2, <1>3, <2>1
    <3> QED BY <3>1 DEF FreshInv
  <2>2. CASE f[c] \notin batch[r]
    <3>1. to[c] = f[c] /\ f[c] \in held[r] \cup {Nil}
      BY <1>1, <1>2, <2>2
    <3>2. f[c] \in held[r] => to[f[c]] = f[f[c]] /\ f[f[c]] = f[c]
      BY <1>1, <1>4, Disjoint
    <3> QED BY <3>1, <3>2
  <2> QED BY <2>1, <2>2
<1> HIDE DEF to
<1> QED BY <1>4, <1>5 DEF Redirects, to

\* The sweeper, the recovery of faces and that of clusters found nothing.
LEMMA OthersRedirect ==
    ASSUME ClusterTypeOK, FreshInv, NEW r \in Sessions
    PROVE  /\ \A f \in Groupings(r) :
                 LET to == SweptOnto(r, f)
                 IN  Redirects(r, to) /\ StaysPut(r, to) /\ \A c \in batch[r] : to[c] \notin fresh
           /\ \A to \in CropMatches(r) :
                 Redirects(r, to) /\ StaysPut(r, to) /\ \A c \in batch[r] : to[c] \notin fresh
           /\ batch[r] = {} => \A to \in ClusterMatches(r) : Redirects(r, to)
PROOF
<1>0. held[r] \cap fresh = {} /\ Nil \notin fresh
  BY Disjoint DEF FreshInv
<1>1. ASSUME NEW to, StaysPut(r, to), \A c \in batch[r] : to[c] \in held[r] \cup {Nil}
      PROVE  Redirects(r, to) /\ \A c \in batch[r] : to[c] \notin fresh
  BY <1>0, <1>1 DEF Redirects, StaysPut
<1>2. ASSUME NEW f \in Groupings(r)
      PROVE  LET to == SweptOnto(r, f)
             IN  Redirects(r, to) /\ StaysPut(r, to) /\ \A c \in batch[r] : to[c] \notin fresh
  <2> DEFINE to == SweptOnto(r, f)
  <2>1. DOMAIN f = held[r] \cup batch[r]
    BY DEF Groupings
  <2>2. StaysPut(r, to)
    BY <2>1 DEF SweptOnto, StaysPut
  <2>3. ASSUME NEW c \in batch[r] PROVE to[c] \in held[r] \cup {Nil}
    BY <2>1, Disjoint DEF SweptOnto, Sweepable
  <2> HIDE DEF to
  <2>4. Redirects(r, to) /\ \A c \in batch[r] : to[c] \notin fresh
    BY <1>1, <2>2, <2>3
  <2> QED BY <2>2, <2>4 DEF to
<1>3. ASSUME NEW to \in CropMatches(r)
      PROVE  Redirects(r, to) /\ StaysPut(r, to) /\ \A c \in batch[r] : to[c] \notin fresh
  <2>1. StaysPut(r, to) /\ \A c \in batch[r] : to[c] \in held[r] \cup {Nil}
    BY DEF CropMatches, StaysPut, WithPyr
  <2> QED BY <1>1, <2>1
<1>4. ASSUME batch[r] = {}, NEW to \in ClusterMatches(r) PROVE Redirects(r, to)
  BY <1>4 DEF ClusterMatches, Redirects
<1> QED BY <1>2, <1>3, <1>4

\* Each writer stores such a result, and goes on without its batch.
LEMMA WriterWrites ==
    ASSUME ClusterTypeOK, FreshInv, BatchInv, NEW r \in Sessions, Writer(r)
    PROVE  /\ step[r] = "loaded"
           /\ \E to, counts : Redirects(r, to) /\ Writes(r, to, counts) /\ Persist(r, to, counts)
           /\ batch' = [batch EXCEPT ![r] = {}]
           /\ \/ phase' = phase /\ step' = [step EXCEPT ![r] = "holds"] /\ holder' = holder
                 /\ tried' = tried
              \/ phase' = [phase EXCEPT ![r] = "over"] /\ step' = [step EXCEPT ![r] = "waits"]
                 /\ Drops(r) /\ tried' = [tried EXCEPT ![r] = {}]
PROOF
<1>1. CASE ClusterBatch(r)
  <2>1. PICK f \in Groupings(r) :
           \E ids \in FreshIds(r, f) : Persist(r, Clustered(r, f, ids), {"size"})
    BY <1>1 DEF ClusterBatch
  <2>2. PICK ids \in FreshIds(r, f) : Persist(r, Clustered(r, f, ids), {"size"})
    BY <2>1
  <2>3. Writes(r, Clustered(r, f, ids), {"size"})
    BY <1>1 DEF ClusterBatch, Writes
  <2> QED BY <1>1, <2>2, <2>3, ClusteredRedirects DEF ClusterBatch, Continues
<1>2. CASE SweepBatch(r)
  <2>1. PICK f \in Groupings(r) : Persist(r, SweptOnto(r, f), {"pyr"})
    BY <1>2 DEF SweepBatch
  <2>2. /\ Redirects(r, SweptOnto(r, f)) /\ StaysPut(r, SweptOnto(r, f))
        /\ \A c \in batch[r] : SweptOnto(r, f)[c] \notin fresh
    BY OthersRedirect
  <2>3. Writes(r, SweptOnto(r, f), {"pyr"})
    BY <1>2, <2>2 DEF SweepBatch, Writes
  <2> QED BY <1>2, <2>1, <2>2, <2>3 DEF SweepBatch, Continues
<1>3. CASE RecoverBatch(r)
  <2>1. PICK to \in CropMatches(r) : Persist(r, to, {"size", "pyr"})
    BY <1>3 DEF RecoverBatch
  <2>2. Redirects(r, to) /\ StaysPut(r, to) /\ \A c \in batch[r] : to[c] \notin fresh
    BY OthersRedirect
  <2>3. Writes(r, to, {"size", "pyr"})
    BY <1>3, <2>2 DEF RecoverBatch, Writes
  <2> QED BY <1>3, <2>1, <2>2, <2>3 DEF RecoverBatch, Continues
<1>4. CASE MergeOrphans(r)
  <2>1. PICK to \in ClusterMatches(r) : Persist(r, to, {})
    BY <1>4 DEF MergeOrphans
  <2>2. batch[r] = {}
    BY <1>4 DEF MergeOrphans, BatchInv
  <2>3. Redirects(r, to) /\ Writes(r, to, {})
    BY <1>4, <2>2, OthersRedirect DEF MergeOrphans, Writes
  <2> QED BY <1>4, <2>1, <2>3 DEF MergeOrphans, GoesTo
<1> QED BY <1>1, <1>2, <1>3, <1>4 DEF Writer

-----------------------------------------------------------------------------
(* Types *)

\* There are finitely many faces and clusters, so every set of them can be counted.
LEMMA CropsFinite ==
    /\ IsFiniteSet(Clusters)
    /\ \A S \in SUBSET Crops : IsFiniteSet(S) /\ Cardinality(S) \in Nat
PROOF
<1>1. IsFiniteSet(Clusters)
  BY ClusterAssumption, FS_Interval DEF Clusters
<1>2. \A S \in SUBSET Crops : IsFiniteSet(S)
  BY ClusterAssumption, FS_Subset
<1> QED BY <1>1, <1>2, FS_CardinalityType

\* Faces and clusters go to clusters that were read or to fresh ones, never to an absorbed one.
LEMMA TargetsTyped ==
    ASSUME ClusterTypeOK, NEW r \in Sessions, NEW to, Redirects(r, to)
    PROVE  /\ Targets(r, to) \subseteq held[r] \cup fresh
           /\ \A k \in Targets(r, to) : k \in held[r] => to[k] = k
           /\ Absorbed(r, to) \subseteq held[r]
           /\ Targets(r, to) \cap Absorbed(r, to) = {}
PROOF
<1>1. ASSUME NEW k \in Targets(r, to)
      PROVE  k \in held[r] \cup fresh /\ (k \in held[r] => to[k] = k)
  <2>1. CASE \E c \in batch[r] : k = to[c] /\ k # Nil
    BY <2>1 DEF Redirects
  <2>2. CASE \E j \in Absorbed(r, to) : k = to[j]
    BY <2>2 DEF Redirects, Absorbed
  <2> QED BY <2>1, <2>2 DEF Targets
<1> QED BY <1>1 DEF Absorbed

\* The counters of an UPDATE are natural numbers.
LEMMA ValuesTyped ==
    ASSUME ClusterTypeOK, NEW r \in Sessions, NEW to, NEW k \in Clusters, NEW counts, NEW kept,
           NEW old \in Row
    PROVE  Values(r, to, k, counts, kept, old) \in Row
PROOF
<1>1. Joining(r, to, k) \in SUBSET Crops
  BY DEF Joining, ClusterTypeOK
<1>2. Cardinality(Joining(r, to, k)) \in Nat
  BY <1>1, CropsFinite
<1>3. Into(r, to, k) \in SUBSET Clusters /\ Into(r, to, k) \cap live \in SUBSET Clusters
  BY DEF Into, ClusterTypeOK
<1>4. IsFiniteSet(Into(r, to, k)) /\ IsFiniteSet(Into(r, to, k) \cap live)
  BY <1>3, CropsFinite, FS_Subset
<1>5. \A j \in Clusters : copy[r][j].size \in Nat /\ copy[r][j].pyr \in Nat /\ row[j].pyr \in Nat
  BY DEF ClusterTypeOK, Row
<1>6. MergedSize(r, to, k) \in Nat
  <2> DEFINE f == [j \in Clusters |-> copy[r][j].size]
  <2>1. \A j \in Into(r, to, k) : f[j] \in Nat
    BY <1>3, <1>5
  <2> HIDE DEF f
  <2>2. SumFunctionOnSet(f, Into(r, to, k)) \in Nat
    BY <1>4, <2>1, SumIsNat
  <2> QED BY <2>2 DEF MergedSize, f
<1>7. MergedPyr(r, to, k, kept) \in Nat
  <2> DEFINE f == [j \in Clusters |-> IF j \in kept THEN copy[r][j].pyr ELSE row[j].pyr]
             S == Into(r, to, k) \cap live
  <2>1. \A j \in S : f[j] \in Nat
    BY <1>3, <1>5
  <2> HIDE DEF f
  <2>2. SumFunctionOnSet(f, S) \in Nat
    BY <1>4, <2>1, SumIsNat
  <2> QED BY <2>2 DEF MergedPyr, f
<1>8. old.size \in Nat /\ old.pyr \in Nat
  BY DEF Row
<1> DEFINE n == Cardinality(Joining(r, to, k))
           size == IF "size" \in counts \/ Merges(r, to, k) THEN n + MergedSize(r, to, k)
                   ELSE old.size
           pyr == IF Merges(r, to, k) THEN MergedPyr(r, to, k, kept)
                  ELSE IF "pyr" \in counts /\ n > 0 THEN copy[r][k].pyr + n ELSE old.pyr
<1>9. size \in Nat /\ pyr \in Nat
  BY <1>2, <1>5, <1>6, <1>7, <1>8
<1>10. Values(r, to, k, counts, kept, old) = [size |-> size, pyr |-> pyr]
  BY DEF Values
<1> HIDE DEF size, pyr
<1> QED BY <1>9, <1>10 DEF Row

\* What a row becomes, in the table and in the session.
After(r, to, counts, kept, k, old) ==
    IF k \notin LiveAfter(r, to) THEN NoRow
    ELSE IF k \in Targets(r, to) THEN Values(r, to, k, counts, kept, old) ELSE old

\* Table and session change alike.
LEMMA PersistRows ==
    ASSUME NEW r, NEW to, NEW counts, Persist(r, to, counts)
    PROVE  \E kept \in SUBSET Outdated(r) :
              /\ row' = [k \in Clusters |-> After(r, to, counts, kept, k, row[k])]
              /\ copy' = [copy EXCEPT ![r] =
                            [k \in Clusters |-> After(r, to, counts, kept, k, copy[r][k])]]
              /\ held' = [held EXCEPT ![r] = (@ \cup Targets(r, to)) \cap LiveAfter(r, to)]
PROOF
BY DEF Persist, After

\* A stored result keeps the types.
LEMMA PersistTyped ==
    ASSUME ClusterTypeOK, BatchInv, NEW r \in Sessions, NEW to, NEW counts,
           Redirects(r, to), Writes(r, to, counts), Persist(r, to, counts)
    PROVE  /\ member' \in [Crops -> Clusters \cup {Nil}]
           /\ live' \subseteq Clusters /\ fresh' \subseteq Clusters \ live'
           /\ row' \in [Clusters -> Row] /\ copy' \in [Sessions -> [Clusters -> Row]]
           /\ held' \in [Sessions -> SUBSET Clusters]
           /\ swept' \subseteq Profile /\ tainted' \subseteq Clusters
           /\ UNCHANGED <<rows, gone, faulty>>
PROOF
<1>0. Targets(r, to) \subseteq Clusters /\ Absorbed(r, to) \subseteq Clusters
  BY TargetsTyped, Disjoint
<1>1. member' \in [Crops -> Clusters \cup {Nil}]
  <2>1. \A c \in batch[r] : to[c] \in Clusters \cup {Nil}
    BY Disjoint DEF Redirects
  <2>2. \A k \in Absorbed(r, to) : to[k] \in Clusters
    BY Disjoint DEF Redirects, Absorbed
  <2>3. member' = MemberAfter(r, to)
    BY DEF Persist
  <2> QED BY <2>1, <2>2, <2>3 DEF MemberAfter, ClusterTypeOK
<1>2. live' \subseteq Clusters /\ fresh' \subseteq Clusters \ live'
  BY <1>0 DEF Persist, LiveAfter, ClusterTypeOK
<1>3. NoRow \in Row
  BY DEF NoRow, Row
<1>4. PICK kept \in SUBSET Outdated(r) :
         /\ row' = [k \in Clusters |-> After(r, to, counts, kept, k, row[k])]
         /\ copy' = [copy EXCEPT ![r] =
                       [k \in Clusters |-> After(r, to, counts, kept, k, copy[r][k])]]
         /\ held' = [held EXCEPT ![r] = (@ \cup Targets(r, to)) \cap LiveAfter(r, to)]
  BY PersistRows
<1>5. \A k \in Clusters, old \in Row : After(r, to, counts, kept, k, old) \in Row
  BY <1>3, ValuesTyped DEF After
<1>6. row' \in [Clusters -> Row]
  BY <1>4, <1>5 DEF ClusterTypeOK
<1>7. copy' \in [Sessions -> [Clusters -> Row]]
  <2>1. [k \in Clusters |-> After(r, to, counts, kept, k, copy[r][k])] \in [Clusters -> Row]
    BY <1>5 DEF ClusterTypeOK
  <2> QED BY <1>4, <2>1 DEF ClusterTypeOK
<1>8. held' \in [Sessions -> SUBSET Clusters]
  BY <1>0, <1>4 DEF ClusterTypeOK
<1>9. swept' \subseteq Profile
  <2>1. phase[r] = "sweeper" => batch[r] \subseteq Profile
    BY DEF BatchInv, Angles
  <2> QED BY <2>1 DEF Persist, ClusterTypeOK
<1>10. tainted' \subseteq Clusters
  <2>1. tainted' = TaintedAfter(r, to)
    BY DEF Persist
  <2>2. {to[j] : j \in held[r]} \subseteq Clusters
    BY Disjoint DEF Redirects
  <2>3. {member[c] : c \in {d \in batch[r] : member[d] # Nil}} \subseteq Clusters
    BY Disjoint DEF ClusterTypeOK
  <2> QED BY <2>1, <2>2, <2>3 DEF TaintedAfter, ClusterTypeOK
<1> QED BY <1>1, <1>2, <1>6, <1>7, <1>8, <1>9, <1>10 DEF Persist

\* The rows that are loaded are those there are, or older ones the session has.
LEMMA ReadsTyped ==
    ASSUME ClusterTypeOK, NEW r \in Sessions, ReadsClusters(r)
    PROVE  /\ held' = [held EXCEPT ![r] = live]
           /\ held' \in [Sessions -> SUBSET Clusters] /\ copy' \in [Sessions -> [Clusters -> Row]]
           /\ \A q \in Sessions : q # r => copy'[q] = copy[q]
           /\ \A k \in Clusters : \/ copy'[r][k] = row[k]
                                  \/ k \in held[r] \cap live /\ copy'[r][k] = copy[r][k]
PROOF
<1>1. PICK kept \in SUBSET Outdated(r) :
         /\ held' = [held EXCEPT ![r] = live]
         /\ copy' = [copy EXCEPT ![r] =
                       [k \in Clusters |-> IF k \in kept THEN copy[r][k] ELSE row[k]]]
  BY DEF ReadsClusters
<1>2. [k \in Clusters |-> IF k \in kept THEN copy[r][k] ELSE row[k]] \in [Clusters -> Row]
  BY DEF ClusterTypeOK
<1>3. kept \subseteq held[r] \cap live
  BY DEF Outdated
<1> QED BY <1>1, <1>2, <1>3 DEF ClusterTypeOK

Loader(r) == LoadBatch(r) \/ EndPass(r) \/ LoadOrphans(r) \/ LoadClusters(r)

\* A run that reads the clusters loads only faces that have none.
LEMMA LoadsFaces ==
    ASSUME ClusterTypeOK, BatchInv, NEW r \in Sessions, Loader(r)
    PROVE  /\ ReadsClusters(r) /\ UNCHANGED <<faces, clusters, history, faulty>>
           /\ step[r] = "holds" /\ phase[r] \in Phases
           /\ \E b \in SUBSET {c \in rows \cap Angles(r) : member[c] = Nil} :
                 /\ batch' = [batch EXCEPT ![r] = b]
                 /\ \/ b = {}
                    \/ UNCHANGED phase /\ step' = [step EXCEPT ![r] = "loaded"]
                       /\ phase[r] # "merge"
           /\ \E p \in Phases, s \in {"waits", "holds", "loaded"} :
                 /\ phase' = [phase EXCEPT ![r] = p] /\ step' = [step EXCEPT ![r] = s]
                 /\ IF s = "waits" THEN Drops(r) ELSE holder' = holder
           /\ tried' \in [Sessions -> SUBSET Crops]
PROOF
<1> USE DEF ClusterTypeOK
<1>1. \A b \in Batches(r) : /\ b \subseteq {c \in rows \cap Angles(r) : member[c] = Nil}
                            /\ b \subseteq Crops
  BY DEF Batches, kSubset, Unclustered
<1>2. CASE LoadBatch(r)
  <2>1. /\ phase[r] \in {"cluster", "sweeper"} /\ step[r] = "holds" /\ ReadsClusters(r)
        /\ step' = [step EXCEPT ![r] = "loaded"]
        /\ UNCHANGED <<faces, clusters, holder, phase, history, faulty>>
    BY <1>2 DEF LoadBatch
  <2>2. PICK b \in Batches(r) : /\ batch' = [batch EXCEPT ![r] = b]
                                /\ tried' = [tried EXCEPT ![r] = @ \cup b]
    BY <1>2 DEF LoadBatch
  <2>3. phase' = [phase EXCEPT ![r] = phase[r]]
    BY <2>1
  <2>4. phase[r] \in Phases /\ phase[r] # "merge"
    BY <2>1 DEF Phases
  <2>5. tried' \in [Sessions -> SUBSET Crops]
    BY <1>1, <2>2
  <2> QED BY <1>1, <2>1, <2>2, <2>3, <2>4, <2>5
<1>3. CASE EndPass(r)
  <2>1. /\ phase[r] \in {"cluster", "sweeper"} /\ step[r] = "holds" /\ ReadsClusters(r) /\ Drops(r)
        /\ UNCHANGED <<faces, clusters, history, faulty>>
        /\ GoesTo(r, IF phase[r] = "cluster" THEN "sweeper" ELSE "crops")
    BY <1>3 DEF EndPass
  <2>2. PICK p \in Phases : GoesTo(r, p)
    BY <2>1 DEF Phases
  <2>3. phase[r] \in Phases
    BY <2>1 DEF Phases
  <2>4. tried' \in [Sessions -> SUBSET Crops]
    BY <2>2 DEF GoesTo
  <2>5. \E s \in {"waits", "holds", "loaded"} :
           /\ phase' = [phase EXCEPT ![r] = p] /\ step' = [step EXCEPT ![r] = s]
           /\ IF s = "waits" THEN Drops(r) ELSE holder' = holder
    BY <2>1, <2>2 DEF GoesTo
  <2> QED BY <2>1, <2>2, <2>3, <2>4, <2>5 DEF GoesTo
<1>4. CASE LoadOrphans(r)
  <2>1. /\ phase[r] = "crops" /\ step[r] = "holds" /\ ReadsClusters(r)
        /\ UNCHANGED <<faces, clusters, holder, history, faulty>>
    BY <1>4 DEF LoadOrphans
  <2>2. PICK b \in Batches(r) :
           IF \E k \in live : copy'[r][k].pyr > 0
           THEN /\ batch' = [batch EXCEPT ![r] = b]
                /\ tried' = [tried EXCEPT ![r] = @ \cup b]
                /\ step' = [step EXCEPT ![r] = "loaded"]
                /\ UNCHANGED phase
           ELSE /\ phase' = [phase EXCEPT ![r] = "merge"]
                /\ UNCHANGED <<batch, tried, step>>
    BY <1>4 DEF LoadOrphans
  <2>3. phase[r] \in Phases /\ phase[r] # "merge" /\ "merge" \in Phases
    BY <2>1 DEF Phases
  <2>4. CASE \E k \in live : copy'[r][k].pyr > 0
    <3>1. phase' = [phase EXCEPT ![r] = phase[r]]
      BY <2>2, <2>4
    <3>2. tried' \in [Sessions -> SUBSET Crops]
      BY <1>1, <2>2, <2>4
    <3> QED BY <1>1, <2>1, <2>2, <2>3, <2>4, <3>1, <3>2
  <2>5. CASE ~\E k \in live : copy'[r][k].pyr > 0
    <3>1. batch[r] = {}
      BY <2>1 DEF BatchInv
    <3>2. batch' = [batch EXCEPT ![r] = {}] /\ step' = [step EXCEPT ![r] = "holds"]
      BY <2>1, <2>2, <2>5, <3>1
    <3> QED BY <2>1, <2>2, <2>3, <2>5, <3>2
  <2> QED BY <2>4, <2>5
<1>5. CASE LoadClusters(r)
  <2>1. /\ phase[r] = "merge" /\ step[r] = "holds" /\ ReadsClusters(r)
        /\ step' = [step EXCEPT ![r] = "loaded"]
        /\ UNCHANGED <<faces, clusters, holder, phase, batch, tried, history, faulty>>
    BY <1>5 DEF LoadClusters
  <2>2. batch' = [batch EXCEPT ![r] = {}] /\ phase' = [phase EXCEPT ![r] = "merge"]
    BY <2>1 DEF BatchInv
  <2>3. "merge" \in Phases
    BY DEF Phases
  <2> QED BY <2>1, <2>2, <2>3
<1> QED BY <1>2, <1>3, <1>4, <1>5 DEF Loader

\* What else a session does leaves faces, clusters and what it has read of them alone.
Others(r) == Acquire(r) \/ Busy(r) \/ EndCrops(r) \/ Fails(r) \/ Dies(r)

\* The steps by what they do to faces, clusters and sessions.
LEMMA StepCases ==
    ASSUME ClusterNext
    PROVE  \/ \E c \in Crops : StoreFace(c) \/ DeleteFace(c)
           \/ Archive \/ Expires \/ Lapses
           \/ \E r \in Sessions : Start(r) \/ Loader(r) \/ Writer(r) \/ Others(r)
PROOF
BY DEF ClusterNext, RunStep, Loader, Writer, Others

\* They only move the run along, or end it, and take or leave the lock.
LEMMA OthersQuiet ==
    ASSUME ClusterTypeOK, NEW r \in Sessions, Others(r)
    PROVE  /\ UNCHANGED <<faces, clusters, held, copy, history, lapsed>>
           /\ batch' \in [Sessions -> SUBSET Crops] /\ tried' \in [Sessions -> SUBSET Crops]
           /\ \A q \in Sessions : batch'[q] = batch[q] \/ batch'[q] = {}
           /\ faults' \in 0..MaxFaults
           /\ \E p \in Phases \cup {"over"}, s \in {"waits", "holds"} :
                 /\ phase' = [phase EXCEPT ![r] = p] /\ step' = [step EXCEPT ![r] = s]
                 /\ p = "over" => s = "waits"
                 /\ \/ s = "holds" /\ holder = Nil /\ holder' = r /\ step[r] = "waits"
                       /\ p = phase[r]
                       /\ batch' = batch
                    \/ s = "holds" /\ holder' = holder /\ step[r] = "holds" /\ batch' = batch
                       /\ p = "merge"
                    \/ s = "waits" /\ batch' = [batch EXCEPT ![r] = {}]
                       /\ holder' \in {holder, IF holder = r THEN Nil ELSE holder,
                                       IF holder = r THEN Dead ELSE holder}
PROOF
<1> USE DEF ClusterTypeOK
<1>0. faults \in 0..MaxFaults /\ MaxFaults \in Nat /\ "merge" \in Phases
  BY ClusterAssumption DEF Phases
<1>f. Fault => faults' \in 0..MaxFaults
  BY <1>0 DEF Fault
<1>b. /\ [batch EXCEPT ![r] = {}] \in [Sessions -> SUBSET Crops]
      /\ \A q \in Sessions : \/ [batch EXCEPT ![r] = {}][q] = batch[q]
                             \/ [batch EXCEPT ![r] = {}][q] = {}
      /\ [tried EXCEPT ![r] = {}] \in [Sessions -> SUBSET Crops]
  OBVIOUS
<1>1. CASE Acquire(r)
  <2>1. /\ phase[r] \in Phases /\ step[r] = "waits" /\ holder = Nil /\ holder' = r
        /\ step' = [step EXCEPT ![r] = "holds"]
        /\ UNCHANGED <<faces, clusters, phase, batch, tried, held, copy, history, faulty>>
    BY <1>1 DEF Acquire
  <2>2. phase' = [phase EXCEPT ![r] = phase[r]]
    BY <2>1
  <2>3. phase[r] # "over"
    BY <2>1 DEF Phases
  <2>4. faults' = faults /\ lapsed' = lapsed /\ batch' = batch /\ tried' = tried
    BY <2>1 DEF faulty
  <2> QED BY <1>0, <2>1, <2>2, <2>3, <2>4
<1>2. CASE Busy(r)
  <2>1. /\ GoesTo(r, "over")
        /\ UNCHANGED <<faces, clusters, holder, held, copy, history, faulty>>
    BY <1>2 DEF Busy
  <2> QED BY <1>0, <1>b, <2>1 DEF GoesTo, faulty
<1>3. CASE EndCrops(r)
  <2>1. /\ phase[r] = "crops" /\ step[r] = "holds" /\ phase' = [phase EXCEPT ![r] = "merge"]
        /\ UNCHANGED <<faces, clusters, holder, step, batch, tried, held, copy, history, faulty>>
    BY <1>3 DEF EndCrops
  <2>2. step' = [step EXCEPT ![r] = "holds"]
    BY <2>1
  <2>3. faults' = faults /\ lapsed' = lapsed /\ batch' = batch /\ tried' = tried
    BY <2>1 DEF faulty
  <2> QED BY <1>0, <2>1, <2>2, <2>3
<1>4. CASE Fails(r)
  BY <1>b, <1>f, <1>4 DEF Fails, GoesTo, Drops
<1>5. CASE Dies(r)
  BY <1>b, <1>f, <1>5 DEF Dies, GoesTo
<1> QED BY <1>1, <1>2, <1>3, <1>4, <1>5 DEF Others

\* Every step keeps the types.
LEMMA ClusterTypeStep ==
    ASSUME ClusterTypeOK, BatchInv, FreshInv, [ClusterNext]_clusterVars
    PROVE  ClusterTypeOK'
PROOF
<1> USE DEF faces, clusters, session, faulty, history
<1>1. ASSUME NEW c \in Crops, StoreFace(c) \/ DeleteFace(c) PROVE ClusterTypeOK'
  BY <1>1 DEF StoreFace, DeleteFace, ClusterTypeOK
<1>2. CASE Archive
  <2>1. NoRow \in Row
    BY DEF NoRow, Row
  <2>2. row' \in [Clusters -> Row] /\ member' \in [Crops -> Clusters \cup {Nil}]
    BY <1>2, <2>1 DEF Archive
  <2>3. rows' = {} /\ gone' = gone \cup rows /\ live' = {} /\ fresh' = fresh
    BY <1>2 DEF Archive
  <2> QED BY <1>2, <2>2, <2>3 DEF Archive, ClusterTypeOK
<1>3. ASSUME NEW r \in Sessions, Start(r) PROVE ClusterTypeOK'
  <2>1. phase' \in [Sessions -> Phases \cup {"new", "over"}]
    BY <1>3 DEF Start, ClusterTypeOK, Phases
  <2>2. held' \in [Sessions -> SUBSET Clusters] /\ copy' \in [Sessions -> [Clusters -> Row]]
    BY <1>3 DEF Start, ClusterTypeOK
  <2> QED BY <1>3, <2>1, <2>2 DEF Start, ClusterTypeOK
<1>4. ASSUME NEW r \in Sessions, Loader(r) PROVE ClusterTypeOK'
  <2>1. /\ ReadsClusters(r) /\ UNCHANGED <<faces, clusters, history, faulty>>
        /\ tried' \in [Sessions -> SUBSET Crops]
    BY <1>4, LoadsFaces
  <2>2. PICK b \in SUBSET {c \in rows \cap Angles(r) : member[c] = Nil} :
           batch' = [batch EXCEPT ![r] = b]
    BY <1>4, LoadsFaces
  <2>3. PICK p \in Phases, s \in {"waits", "holds", "loaded"} :
           /\ phase' = [phase EXCEPT ![r] = p] /\ step' = [step EXCEPT ![r] = s]
           /\ IF s = "waits" THEN Drops(r) ELSE holder' = holder
    BY <1>4, LoadsFaces
  <2>4. batch' \in [Sessions -> SUBSET Crops]
    BY <2>2 DEF ClusterTypeOK
  <2>5. /\ phase' \in [Sessions -> Phases \cup {"new", "over"}]
        /\ step' \in [Sessions -> {"waits", "holds", "loaded"}]
        /\ holder' \in Sessions \cup {Nil, Dead}
    BY <2>3 DEF Drops, ClusterTypeOK
  <2>6. held' \in [Sessions -> SUBSET Clusters] /\ copy' \in [Sessions -> [Clusters -> Row]]
    BY <2>1, ReadsTyped
  <2> QED BY <2>1, <2>4, <2>5, <2>6 DEF ClusterTypeOK
<1>5. ASSUME NEW r \in Sessions, Writer(r) PROVE ClusterTypeOK'
  <2>1. PICK to, counts : Redirects(r, to) /\ Writes(r, to, counts) /\ Persist(r, to, counts)
    BY <1>5, WriterWrites
  <2>2. /\ batch' = [batch EXCEPT ![r] = {}]
        /\ \/ phase' = phase /\ step' = [step EXCEPT ![r] = "holds"] /\ holder' = holder
              /\ tried' = tried
           \/ phase' = [phase EXCEPT ![r] = "over"] /\ step' = [step EXCEPT ![r] = "waits"]
              /\ Drops(r) /\ tried' = [tried EXCEPT ![r] = {}]
    BY <1>5, WriterWrites
  <2>3. /\ batch' \in [Sessions -> SUBSET Crops] /\ tried' \in [Sessions -> SUBSET Crops]
        /\ phase' \in [Sessions -> Phases \cup {"new", "over"}]
        /\ step' \in [Sessions -> {"waits", "holds", "loaded"}]
        /\ holder' \in Sessions \cup {Nil, Dead}
    BY <2>2 DEF Drops, ClusterTypeOK
  <2>4. /\ member' \in [Crops -> Clusters \cup {Nil}]
        /\ live' \subseteq Clusters /\ fresh' \subseteq Clusters \ live'
        /\ row' \in [Clusters -> Row] /\ copy' \in [Sessions -> [Clusters -> Row]]
        /\ held' \in [Sessions -> SUBSET Clusters]
        /\ swept' \subseteq Profile /\ tainted' \subseteq Clusters
        /\ UNCHANGED <<rows, gone, faulty>>
    BY <2>1, PersistTyped
  <2> QED BY <2>3, <2>4 DEF ClusterTypeOK
<1>6. ASSUME NEW r \in Sessions, Others(r) PROVE ClusterTypeOK'
  <2>1. PICK p \in Phases \cup {"over"}, s \in {"waits", "holds"} :
           /\ phase' = [phase EXCEPT ![r] = p] /\ step' = [step EXCEPT ![r] = s]
           /\ holder' \in {r, holder, Nil, Dead}
    BY <1>6, OthersQuiet
  <2>2. /\ phase' \in [Sessions -> Phases \cup {"new", "over"}]
        /\ step' \in [Sessions -> {"waits", "holds", "loaded"}]
        /\ holder' \in Sessions \cup {Nil, Dead}
    BY <2>1 DEF ClusterTypeOK
  <2>3. /\ UNCHANGED <<faces, clusters, held, copy, history, lapsed>>
        /\ batch' \in [Sessions -> SUBSET Crops] /\ tried' \in [Sessions -> SUBSET Crops]
        /\ faults' \in 0..MaxFaults
    BY <1>6, OthersQuiet
  <2> QED BY <2>2, <2>3 DEF ClusterTypeOK
<1>7. CASE Expires
  BY <1>7 DEF Expires, ClusterTypeOK
<1>8. CASE Lapses
  <2>1. faults' \in 0..MaxFaults
    BY <1>8, ClusterAssumption DEF Lapses, Fault, ClusterTypeOK
  <2> QED BY <1>8, <2>1 DEF Lapses, ClusterTypeOK
<1>9. CASE UNCHANGED clusterVars
  BY <1>9 DEF clusterVars, ClusterTypeOK
<1> QED BY <1>1, <1>2, <1>3, <1>4, <1>5, <1>6, <1>7, <1>8, <1>9, StepCases

\* Only a run that took the lock gets past it, until a key expires.
LEMMA HoldsStep ==
    ASSUME ClusterTypeOK, BatchInv, FreshInv, HoldsInv, [ClusterNext]_clusterVars
    PROVE  HoldsInv'
PROOF
<1> USE DEF session, faulty
<1>0. Nil \notin Sessions /\ Dead \notin Sessions /\ Nil # Dead
  BY ClusterAssumption
<1>t. /\ phase \in [Sessions -> Phases \cup {"new", "over"}]
      /\ step \in [Sessions -> {"waits", "holds", "loaded"}]
  BY DEF ClusterTypeOK
<1>1. CASE \/ UNCHANGED clusterVars \/ Archive
           \/ \E c \in Crops : StoreFace(c) \/ DeleteFace(c)
  <2>1. UNCHANGED <<phase, step, holder, lapsed>>
    BY <1>1 DEF clusterVars, Archive, StoreFace, DeleteFace
  <2> QED BY <2>1 DEF HoldsInv
<1>3. ASSUME NEW r \in Sessions, Start(r) PROVE HoldsInv'
  <2>1. phase' = [phase EXCEPT ![r] = "cluster"] /\ UNCHANGED <<step, holder, lapsed>>
    BY <1>3 DEF Start
  <2> QED BY <1>t, <2>1 DEF HoldsInv, Phases
<1>4. ASSUME NEW r \in Sessions, Loader(r) PROVE HoldsInv'
  <2>1. lapsed' = lapsed /\ step[r] = "holds"
    BY <1>4, LoadsFaces
  <2>2. PICK p \in Phases, s \in {"waits", "holds", "loaded"} :
           /\ phase' = [phase EXCEPT ![r] = p] /\ step' = [step EXCEPT ![r] = s]
           /\ IF s = "waits" THEN Drops(r) ELSE holder' = holder
    BY <1>4, LoadsFaces
  <2> QED BY <1>t, <2>1, <2>2 DEF HoldsInv, Drops
<1>5. ASSUME NEW r \in Sessions, Writer(r) PROVE HoldsInv'
  <2>1. /\ step[r] = "loaded"
        /\ \/ phase' = phase /\ step' = [step EXCEPT ![r] = "holds"] /\ holder' = holder
           \/ phase' = [phase EXCEPT ![r] = "over"] /\ step' = [step EXCEPT ![r] = "waits"]
              /\ Drops(r)
    BY <1>5, WriterWrites
  <2>2. lapsed' = lapsed
    <3>1. PICK to, counts : Persist(r, to, counts)
      BY <1>5, WriterWrites
    <3> QED BY <3>1 DEF Persist
  <2> QED BY <1>t, <2>1, <2>2 DEF HoldsInv, Drops
<1>6. ASSUME NEW r \in Sessions, Others(r) PROVE HoldsInv'
  <2>1. lapsed' = lapsed
    BY <1>6, OthersQuiet
  <2>2. PICK p \in Phases \cup {"over"}, s \in {"waits", "holds"} :
           /\ phase' = [phase EXCEPT ![r] = p] /\ step' = [step EXCEPT ![r] = s]
           /\ p = "over" => s = "waits"
           /\ \/ s = "holds" /\ holder = Nil /\ holder' = r
              \/ s = "holds" /\ holder' = holder /\ step[r] = "holds"
              \/ s = "waits" /\ holder' \in {holder, IF holder = r THEN Nil ELSE holder,
                                             IF holder = r THEN Dead ELSE holder}
    BY <1>6, OthersQuiet
  <2>3. ~lapsed => \A q \in Sessions : q # r /\ step[q] # "waits" => holder = q /\ holder # Nil
    BY <1>0 DEF HoldsInv
  <2>4. ASSUME NEW q \in Sessions, phase'[q] \notin Phases PROVE step'[q] = "waits"
    BY <1>t, <2>2, <2>4 DEF HoldsInv
  <2>5. ASSUME ~lapsed', NEW q \in Sessions, step'[q] # "waits" PROVE holder' = q
    BY <1>t, <2>1, <2>2, <2>3, <2>5 DEF HoldsInv
  <2> QED BY <2>4, <2>5 DEF HoldsInv
<1>7. CASE Expires
  BY <1>0, <1>7 DEF Expires, HoldsInv
<1>8. CASE Lapses
  BY <1>8 DEF Lapses, HoldsInv
<1> QED BY <1>1, <1>3, <1>4, <1>5, <1>6, <1>7, <1>8, StepCases

\* A batch keeps its angles, and its faces stay without a cluster while its run holds the lock.
LEMMA BatchStep ==
    ASSUME ClusterTypeOK, BatchInv, FreshInv, HoldsInv, [ClusterNext]_clusterVars
    PROVE  BatchInv'
PROOF
<1> USE DEF session, faulty, faces
<1>t. /\ phase \in [Sessions -> Phases \cup {"new", "over"}]
      /\ step \in [Sessions -> {"waits", "holds", "loaded"}]
      /\ batch \in [Sessions -> SUBSET Crops] /\ member \in [Crops -> Clusters \cup {Nil}]
  BY DEF ClusterTypeOK
<1>1. CASE \/ UNCHANGED clusterVars \/ Archive \/ Expires \/ Lapses
           \/ \E c \in Crops : StoreFace(c) \/ DeleteFace(c)
  <2>1. UNCHANGED <<phase, step, batch>> /\ (lapsed => lapsed')
    BY <1>1 DEF clusterVars, Archive, StoreFace, DeleteFace, Expires, Lapses
  <2>2. member' = member \/ member' = [c \in Crops |-> Nil]
    BY <1>1 DEF clusterVars, Archive, StoreFace, DeleteFace, Expires, Lapses
  <2> QED BY <1>t, <2>1, <2>2 DEF BatchInv, Angles
<1>3. ASSUME NEW r \in Sessions, Start(r) PROVE BatchInv'
  <2>1. /\ phase' = [phase EXCEPT ![r] = "cluster"] /\ UNCHANGED <<step, batch, member, lapsed>>
        /\ phase[r] = "new"
    BY <1>3 DEF Start
  <2>2. batch[r] = {}
    BY <2>1 DEF HoldsInv, BatchInv, Phases
  <2> QED BY <1>t, <2>1, <2>2 DEF BatchInv, Angles
<1>4. ASSUME NEW r \in Sessions, Loader(r) PROVE BatchInv'
  <2>1. lapsed' = lapsed /\ member' = member
    BY <1>4, LoadsFaces
  <2>2. PICK b \in SUBSET {c \in rows \cap Angles(r) : member[c] = Nil} :
           /\ batch' = [batch EXCEPT ![r] = b]
           /\ \/ b = {}
              \/ UNCHANGED phase /\ step' = [step EXCEPT ![r] = "loaded"] /\ phase[r] # "merge"
    BY <1>4, LoadsFaces
  <2>3. PICK p \in Phases, s \in {"waits", "holds", "loaded"} :
           phase' = [phase EXCEPT ![r] = p] /\ step' = [step EXCEPT ![r] = s]
    BY <1>4, LoadsFaces
  <2>4. ASSUME NEW q \in Sessions
        PROVE  /\ batch'[q] \subseteq Angles(q)'
               /\ step'[q] # "loaded" \/ phase'[q] = "merge" => batch'[q] = {}
               /\ ~lapsed' => \A c \in batch'[q] : member'[c] = Nil
    <3>1. CASE q # r
      BY <1>t, <2>1, <2>2, <2>3, <3>1 DEF BatchInv, Angles
    <3>2. CASE q = r
      BY <1>t, <2>1, <2>2, <2>3, <3>2 DEF Angles
    <3> QED BY <3>1, <3>2
  <2> QED BY <2>4 DEF BatchInv
<1>5. ASSUME NEW r \in Sessions, Writer(r) PROVE BatchInv'
  <2>1. /\ step[r] = "loaded" /\ batch' = [batch EXCEPT ![r] = {}]
        /\ \/ phase' = phase /\ step' = [step EXCEPT ![r] = "holds"]
           \/ phase' = [phase EXCEPT ![r] = "over"] /\ step' = [step EXCEPT ![r] = "waits"]
    BY <1>5, WriterWrites
  <2>2. lapsed' = lapsed
    <3>1. PICK to, counts : Persist(r, to, counts)
      BY <1>5, WriterWrites
    <3> QED BY <3>1 DEF Persist
  <2>3. ~lapsed => \A q \in Sessions : q # r => batch[q] = {}
    BY <2>1 DEF HoldsInv, BatchInv
  <2> QED BY <1>t, <2>1, <2>2, <2>3 DEF BatchInv, Angles
<1>6. ASSUME NEW r \in Sessions, Others(r) PROVE BatchInv'
  <2>1. lapsed' = lapsed /\ member' = member
    BY <1>6, OthersQuiet
  <2>2. PICK p \in Phases \cup {"over"}, s \in {"waits", "holds"} :
           /\ phase' = [phase EXCEPT ![r] = p] /\ step' = [step EXCEPT ![r] = s]
           /\ \/ step[r] = "waits" /\ batch' = batch
              \/ step[r] = "holds" /\ batch' = batch
              \/ batch' = [batch EXCEPT ![r] = {}]
    BY <1>6, OthersQuiet
  <2>3. batch'[r] = {} /\ \A q \in Sessions : q # r => batch'[q] = batch[q]
    BY <1>t, <2>2 DEF BatchInv
  <2> QED BY <1>t, <2>1, <2>2, <2>3 DEF BatchInv, Angles
<1> QED BY <1>1, <1>3, <1>4, <1>5, <1>6, StepCases

-----------------------------------------------------------------------------
(* What a result does to faces and clusters *)

Joins(r, to, c) == c \in batch[r] /\ to[c] # Nil

\* A face goes where the batch, or the cluster it was of, goes; the rest stays.
LEMMA PersistMoves ==
    ASSUME ClusterTypeOK, NEW r \in Sessions, NEW to, NEW counts,
           Redirects(r, to), Persist(r, to, counts)
    PROVE  /\ \A c \in Crops :
                 /\ Joins(r, to, c) => member'[c] = to[c] /\ to[c] \in Targets(r, to)
                 /\ ~Joins(r, to, c) /\ member[c] \in Absorbed(r, to)
                       => /\ member'[c] = to[member[c]]
                          /\ to[member[c]] \in Targets(r, to) \cap held[r]
                 /\ ~Joins(r, to, c) /\ member[c] \notin Absorbed(r, to) => member'[c] = member[c]
           /\ live' = (live \cup (Targets(r, to) \cap fresh)) \ Absorbed(r, to)
           /\ fresh' = fresh \ Targets(r, to)
           /\ UNCHANGED <<rows, gone, lapsed>>
PROOF
<1>1. member' = MemberAfter(r, to)
  BY DEF Persist
<1>2. \A j \in Absorbed(r, to) : to[j] \in held[r]
  BY DEF Redirects, Absorbed
<1>3. \A c \in Crops : Joins(r, to, c) => to[c] \in Targets(r, to)
  BY DEF Joins, Targets
<1>4. \A j \in Absorbed(r, to) : to[j] \in Targets(r, to)
  BY DEF Targets
<1>5. /\ live' = (live \cup (Targets(r, to) \cap fresh)) \ Absorbed(r, to)
      /\ fresh' = fresh \ Targets(r, to)
      /\ UNCHANGED <<rows, gone, lapsed>>
  BY DEF Persist, LiveAfter, faulty
<1>6. ASSUME NEW c \in Crops
      PROVE  member'[c] = IF Joins(r, to, c) THEN to[c]
                          ELSE IF member[c] \in Absorbed(r, to) THEN to[member[c]] ELSE member[c]
  BY <1>1 DEF MemberAfter, Joins
<1> QED BY <1>2, <1>3, <1>4, <1>5, <1>6

\* Only stored faces are loaded and clustered.
LEMMA StoredStep ==
    ASSUME ClusterTypeOK, BatchInv, FreshInv, StoredInv, [ClusterNext]_clusterVars
    PROVE  StoredInv'
PROOF
<1> USE DEF session, faulty, faces
<1>t. member \in [Crops -> Clusters \cup {Nil}] /\ batch \in [Sessions -> SUBSET Crops]
  BY DEF ClusterTypeOK
<1>1. CASE \/ UNCHANGED clusterVars \/ Archive \/ Expires \/ Lapses
           \/ \E c \in Crops : StoreFace(c) \/ DeleteFace(c)
           \/ \E r \in Sessions : Start(r)
  <2>1. batch' = batch /\ rows \cup gone \subseteq rows' \cup gone'
    BY <1>1 DEF clusterVars, Archive, StoreFace, DeleteFace, Expires, Lapses, Start
  <2>2. member' = member \/ member' = [c \in Crops |-> Nil]
    BY <1>1 DEF clusterVars, Archive, StoreFace, DeleteFace, Expires, Lapses, Start
  <2> QED BY <2>1, <2>2 DEF StoredInv
<1>2. ASSUME NEW r \in Sessions, Loader(r) PROVE StoredInv'
  <2>1. UNCHANGED <<rows, gone, member>>
    BY <1>2, LoadsFaces
  <2>2. PICK b \in SUBSET {c \in rows \cap Angles(r) : member[c] = Nil} :
           batch' = [batch EXCEPT ![r] = b]
    BY <1>2, LoadsFaces
  <2> QED BY <1>t, <2>1, <2>2 DEF StoredInv
<1>3. ASSUME NEW r \in Sessions, Writer(r) PROVE StoredInv'
  <2>1. PICK to, counts : Redirects(r, to) /\ Persist(r, to, counts)
    BY <1>3, WriterWrites
  <2>2. batch' = [batch EXCEPT ![r] = {}]
    BY <1>3, WriterWrites
  <2>3. /\ UNCHANGED <<rows, gone>>
        /\ \A c \in Crops : c \in batch[r] \/ member[c] # Nil \/ member'[c] = member[c]
    BY <2>1, PersistMoves, TargetsTyped, Disjoint DEF Joins
  <2> QED BY <1>t, <2>2, <2>3 DEF StoredInv
<1>4. ASSUME NEW r \in Sessions, Others(r) PROVE StoredInv'
  BY <1>t, <1>4, OthersQuiet DEF StoredInv
<1> QED BY <1>1, <1>2, <1>3, <1>4, StepCases

\* A fresh id stays unused until a cluster is founded with it.
LEMMA FreshStep ==
    ASSUME ClusterTypeOK, BatchInv, FreshInv, [ClusterNext]_clusterVars
    PROVE  FreshInv'
PROOF
<1> USE DEF session, clusters, faces
<1>t. /\ member \in [Crops -> Clusters \cup {Nil}] /\ held \in [Sessions -> SUBSET Clusters]
      /\ row \in [Clusters -> Row] /\ copy \in [Sessions -> [Clusters -> Row]]
      /\ fresh \subseteq Clusters \ live /\ Nil \notin fresh
  BY ClusterAssumption DEF ClusterTypeOK
<1>1. CASE \/ UNCHANGED clusterVars \/ Expires \/ Lapses
           \/ \E c \in Crops : StoreFace(c) \/ DeleteFace(c)
  <2>1. UNCHANGED <<member, fresh, held, row, copy>>
    BY <1>1 DEF clusterVars, StoreFace, DeleteFace, Expires, Lapses
  <2> QED BY <2>1 DEF FreshInv
<1>2. CASE Archive
  BY <1>t, <1>2 DEF Archive, FreshInv
<1>3. ASSUME NEW r \in Sessions, Start(r) PROVE FreshInv'
  <2>1. PICK loaded \in {{}, live} : held' = [held EXCEPT ![r] = loaded]
    BY <1>3 DEF Start
  <2>2. copy' = [copy EXCEPT ![r] = row] /\ UNCHANGED <<member, fresh, row>>
    BY <1>3 DEF Start
  <2> QED BY <1>t, <2>1, <2>2 DEF FreshInv
<1>4. ASSUME NEW r \in Sessions, Loader(r) PROVE FreshInv'
  <2>1. ReadsClusters(r) /\ UNCHANGED <<member, fresh, row>>
    BY <1>4, LoadsFaces
  <2>2. /\ held' = [held EXCEPT ![r] = live]
        /\ \A q \in Sessions : q # r => copy'[q] = copy[q]
        /\ \A k \in Clusters : copy'[r][k] = row[k] \/ copy'[r][k] = copy[r][k]
    BY <2>1, ReadsTyped
  <2> QED BY <1>t, <2>1, <2>2 DEF FreshInv
<1>5. ASSUME NEW r \in Sessions, Writer(r) PROVE FreshInv'
  <2>1. PICK to, counts : Redirects(r, to) /\ Persist(r, to, counts)
    BY <1>5, WriterWrites
  <2>2. fresh' = fresh \ Targets(r, to) /\ Targets(r, to) \subseteq held[r] \cup fresh
    BY <2>1, PersistMoves, TargetsTyped
  <2>3. \A c \in Crops : member'[c] \notin fresh'
    BY <2>1, <2>2, PersistMoves DEF FreshInv
  <2>4. PICK kept \in SUBSET Outdated(r) :
           /\ row' = [k \in Clusters |-> After(r, to, counts, kept, k, row[k])]
           /\ copy' = [copy EXCEPT ![r] =
                         [k \in Clusters |-> After(r, to, counts, kept, k, copy[r][k])]]
           /\ held' = [held EXCEPT ![r] = (@ \cup Targets(r, to)) \cap LiveAfter(r, to)]
    BY <2>1, PersistRows
  <2>5. \A q \in Sessions : held'[q] \cap fresh' = {}
    BY <1>t, <2>2, <2>4 DEF FreshInv
  <2>6. ASSUME NEW k \in fresh' PROVE row'[k] = NoRow /\ \A q \in Sessions : copy'[q][k] = NoRow
    <3>1. k \in Clusters /\ k \in fresh /\ k \notin Targets(r, to)
      BY <1>t, <2>2
    <3>2. \A old : After(r, to, counts, kept, k, old) \in {old, NoRow}
      BY <3>1 DEF After
    <3>3. row'[k] = After(r, to, counts, kept, k, row[k])
      BY <2>4, <3>1
    <3>4. \A q \in Sessions : copy'[q][k] =
             IF q = r THEN After(r, to, counts, kept, k, copy[r][k]) ELSE copy[q][k]
      BY <1>t, <2>4, <3>1
    <3> QED BY <3>1, <3>2, <3>3, <3>4 DEF FreshInv
  <2> QED BY <2>3, <2>5, <2>6 DEF FreshInv
<1>6. ASSUME NEW r \in Sessions, Others(r) PROVE FreshInv'
  <2>1. UNCHANGED <<member, fresh, held, row, copy>>
    BY <1>6, OthersQuiet
  <2> QED BY <2>1 DEF FreshInv
<1> QED BY <1>1, <1>2, <1>3, <1>4, <1>5, <1>6, StepCases

\* At first nothing is stored, held or loaded.
LEMMA LockInit == ClusterInit => LockInv
PROOF
<1> SUFFICES ASSUME ClusterInit PROVE LockInv
  OBVIOUS
<1>1. NoRow \in Row
  BY DEF NoRow, Row
<1>2. ClusterTypeOK
  <2>1. row \in [Clusters -> Row] /\ copy \in [Sessions -> [Clusters -> Row]]
    BY <1>1 DEF ClusterInit
  <2>2. MaxFaults \in Nat
    BY ClusterAssumption
  <2>3. /\ phase \in [Sessions -> Phases \cup {"new", "over"}]
        /\ step \in [Sessions -> {"waits", "holds", "loaded"}]
    BY DEF ClusterInit
  <2>4. /\ batch \in [Sessions -> SUBSET Crops] /\ tried \in [Sessions -> SUBSET Crops]
        /\ held \in [Sessions -> SUBSET Clusters]
        /\ member \in [Crops -> Clusters \cup {Nil}]
    BY DEF ClusterInit
  <2>5. /\ rows \subseteq Crops /\ gone \subseteq Crops \ rows
        /\ live \subseteq Clusters /\ fresh \subseteq Clusters \ live
        /\ holder \in Sessions \cup {Nil, Dead}
        /\ swept \subseteq Profile /\ tainted \subseteq Clusters
        /\ lapsed \in BOOLEAN /\ faults \in 0..MaxFaults
    <3>1. /\ rows = {} /\ gone = {} /\ live = {} /\ fresh = Clusters /\ holder = Nil
          /\ swept = {} /\ tainted = {}
      BY DEF ClusterInit
    <3>2. lapsed \in BOOLEAN
      BY DEF ClusterInit
    <3>3. faults \in 0..MaxFaults
      BY <2>2 DEF ClusterInit
    <3>4. fresh \subseteq Clusters \ live /\ live \subseteq Clusters
      BY <3>1
    <3> QED BY <3>1, <3>2, <3>3, <3>4
  <2> QED BY <2>1, <2>3, <2>4, <2>5 DEF ClusterTypeOK
<1>3. HoldsInv /\ BatchInv /\ StoredInv
  BY DEF ClusterInit, HoldsInv, BatchInv, StoredInv, Phases
<1>4. FreshInv
  BY ClusterAssumption DEF ClusterInit, FreshInv
<1> QED BY <1>2, <1>3, <1>4 DEF LockInv

\* Every step keeps the types, the lock and the batches.
LEMMA LockStep == LockInv /\ [ClusterNext]_clusterVars => LockInv'
PROOF
BY ClusterTypeStep, HoldsStep, BatchStep, FreshStep, StoredStep DEF LockInv

\* The rows, clusters, locks and sessions of clustering (ml/clustering) are always of the kinds the
\* code has, for any faces, sessions, batch size and number of faults.
THEOREM ClusterTypeCorrect == ClusterSpec => []ClusterTypeOK
PROOF
<1>1. LockInv => ClusterTypeOK
  BY DEF LockInv
<1> QED BY LockInit, LockStep, <1>1, PTL DEF ClusterSpec

\* A face keeps its person: runs do not cluster the same face twice (cluster_manager.py), unless
\* the lock expired under one of them, and a person changes only by being absorbed.
THEOREM FacesKeepTheirPerson == ClusterSpec => KeepsItsPerson
PROOF
<1> DEFINE KeepsAll ==
      \A c \in rows \cap rows' : member[c] # Nil =>
         /\ member'[c] # Nil
         /\ member'[c] = member[c] \/ member[c] \notin live' \/ lapsed
<1>1. ASSUME LockInv, [ClusterNext]_clusterVars PROVE KeepsAll
  <2> USE DEF faces
  <2>0. ClusterTypeOK /\ BatchInv /\ FreshInv
    BY <1>1 DEF LockInv
  <2>1. CASE \/ UNCHANGED clusterVars \/ Archive \/ Expires \/ Lapses
             \/ \E c \in Crops : StoreFace(c) \/ DeleteFace(c)
             \/ \E r \in Sessions : Start(r) \/ Loader(r) \/ Others(r)
    <3>1. member' = member \/ rows' = {}
      <4>1. \A r \in Sessions : Loader(r) \/ Others(r) => member' = member
        BY <2>0, LoadsFaces, OthersQuiet
      <4> QED BY <2>1, <4>1 DEF clusterVars, Archive, StoreFace, DeleteFace, Expires, Lapses, Start
    <3> QED BY <3>1
  <2>2. ASSUME NEW r \in Sessions, Writer(r) PROVE KeepsAll
    <3>1. PICK to, counts : Redirects(r, to) /\ Persist(r, to, counts)
      BY <2>0, <2>2, WriterWrites
    <3>2. ASSUME NEW c \in rows, member[c] # Nil
          PROVE  /\ member'[c] # Nil
                 /\ member'[c] = member[c] \/ member[c] \notin live' \/ lapsed
      <4>1. c \in Crops
        BY <2>0 DEF ClusterTypeOK
      <4>2. CASE Joins(r, to, c)
        BY <2>0, <3>1, <3>2, <4>1, <4>2, PersistMoves DEF Joins, BatchInv
      <4>3. CASE ~Joins(r, to, c) /\ member[c] \in Absorbed(r, to)
        BY <2>0, <3>1, <4>1, <4>3, PersistMoves, Disjoint
      <4>4. CASE ~Joins(r, to, c) /\ member[c] \notin Absorbed(r, to)
        BY <2>0, <3>1, <3>2, <4>1, <4>4, PersistMoves
      <4> QED BY <4>2, <4>3, <4>4
    <3> QED BY <3>2
  <2> QED BY <1>1, <2>1, <2>2, StepCases
<1> QED BY LockInit, LockStep, <1>1, PTL DEF ClusterSpec, KeepsItsPerson

-----------------------------------------------------------------------------
(* Counters *)

\* The faces of a cluster are faces, and those of high angle are in the sweeper's range.
LEMMA FacesFinite ==
    ASSUME NEW k
    PROVE  /\ FacesOf(k) \in SUBSET Crops /\ SizedOf(k) \in SUBSET Crops
           /\ PyrsOf(k) \in SUBSET Crops
           /\ SizedOf(k)' \in SUBSET Crops /\ PyrsOf(k)' \in SUBSET Crops
           /\ PyrsOf(k) = FacesOf(k) \cap Profile /\ PyrsOf(k)' = FacesOf(k)' \cap Profile
PROOF
BY DEF FacesOf, SizedOf, PyrsOf, Crops

\* A subset of the faces has no more of them.
LEMMA Smaller ==
    ASSUME NEW S \in SUBSET Crops, NEW T \in SUBSET S
    PROVE  Cardinality(T) <= Cardinality(S) /\ Cardinality(T) \in Nat /\ Cardinality(S) \in Nat
PROOF
BY CropsFinite, FS_Subset

\* Counting right, in the words of these proofs.
LEMMA CountedIs ==
    /\ \A k : Counted(k) <=> /\ row[k].size = Cardinality(SizedOf(k))
                             /\ row[k].pyr = Cardinality(PyrsOf(k))
    /\ \A k : Counted(k)' <=> /\ row'[k].size = Cardinality(SizedOf(k)')
                              /\ row'[k].pyr = Cardinality(PyrsOf(k)')
PROOF
BY DEF Counted, SizedOf, PyrsOf, FacesOf

\* A cluster that is untainted afterwards was written from rows as they are, and lost no face.
LEMMA Untainted ==
    ASSUME ClusterTypeOK, NEW r \in Sessions, NEW to, NEW counts, Redirects(r, to),
           Persist(r, to, counts), NEW k \in Clusters, k \notin tainted'
    PROVE  /\ k \notin tainted
           /\ \A c \in FacesOf(k) : ~Joins(r, to, c)
           /\ k \in Targets(r, to) =>
                 \A j \in Into(r, to, k) : j \in live \ tainted /\ copy[r][j] = row[j]
PROOF
<1>1. tainted' = TaintedAfter(r, to)
  BY DEF Persist
<1>2. k \notin tainted
  BY <1>1 DEF TaintedAfter
<1>3. ASSUME NEW c \in FacesOf(k), Joins(r, to, c) PROVE FALSE
  <2>1. c \in batch[r] /\ to[c] # Nil /\ member[c] = k /\ k # Nil
    BY <1>3, ClusterAssumption DEF FacesOf, Joins
  <2> QED BY <1>1, <2>1 DEF TaintedAfter
<1>4. ASSUME k \in Targets(r, to), NEW j \in Into(r, to, k)
      PROVE  j \in live \ tainted /\ copy[r][j] = row[j]
  <2>1. j \in held[r] /\ to[j] = k
    BY DEF Into
  <2>2. j \notin tainted \cup Outdated(r) /\ j \in live
    BY <1>1, <1>4, <2>1 DEF TaintedAfter
  <2> QED BY <2>1, <2>2 DEF Outdated
<1> QED BY <1>2, <1>3, <1>4

\* An untainted cluster keeps its faces, and they are counted as before.
LEMMA KeepsFaces ==
    ASSUME ClusterTypeOK, NEW r \in Sessions, NEW to, NEW counts, Redirects(r, to),
           Persist(r, to, counts), NEW k \in Clusters, k \notin tainted', k \in live'
    PROVE  /\ k \notin Absorbed(r, to)
           /\ SizedOf(k) \subseteq SizedOf(k)' /\ FacesOf(k) \subseteq FacesOf(k)'
           /\ PyrsOf(k) \subseteq PyrsOf(k)'
           /\ k \notin Targets(r, to) =>
                 /\ k \in live /\ SizedOf(k)' = SizedOf(k) /\ FacesOf(k)' = FacesOf(k)
                 /\ PyrsOf(k)' = PyrsOf(k)
PROOF
<1>1. k \notin Absorbed(r, to) /\ (k \notin Targets(r, to) => k \in live)
  BY PersistMoves
<1>2. \A c \in FacesOf(k) : c \in Crops /\ member[c] = k /\ ~Joins(r, to, c)
  BY Untainted DEF FacesOf
<1>3. FacesOf(k) \subseteq FacesOf(k)'
  BY <1>1, <1>2, PersistMoves DEF FacesOf
<1>4. \A c \in FacesOf(k) : c \in swept' <=> c \in swept
  BY <1>2 DEF Persist, Joins
<1>5. k \notin Targets(r, to) => FacesOf(k)' = FacesOf(k)
  <2> SUFFICES ASSUME k \notin Targets(r, to), NEW c \in Crops, member'[c] = k PROVE member[c] = k
    BY <1>3 DEF FacesOf
  <2> QED BY PersistMoves
<1> QED BY <1>1, <1>3, <1>4, <1>5, FacesFinite DEF SizedOf

\* A session whose copy of a cluster is up to date has none of its faces to add.
LEMMA NotTwice ==
    ASSUME ClusterTypeOK, CopyInv, MembersAgree, NEW r \in Sessions,
           NEW j \in (held[r] \cap live) \ tainted, copy[r][j] = row[j]
    PROVE  FacesOf(j) \cap batch[r] = {} /\ Counted(j)
PROOF
<1>1. Counted(j)
  BY DEF MembersAgree
<1>2. /\ Cardinality(SizedOf(j)) <= Cardinality(SizedOf(j) \ batch[r])
      /\ Cardinality(PyrsOf(j)) <= Cardinality(PyrsOf(j) \ batch[r])
  BY <1>1, CountedIs DEF CopyInv
<1>3. ASSUME NEW S \in SUBSET Crops, Cardinality(S) <= Cardinality(S \ batch[r])
      PROVE  S \cap batch[r] = {}
  <2>1. IsFiniteSet(S) /\ Cardinality(S \ batch[r]) <= Cardinality(S)
    BY CropsFinite, Smaller
  <2>2. Cardinality(S \ batch[r]) = Cardinality(S)
    BY <1>3, <2>1, CropsFinite
  <2> QED BY <2>1, <2>2, FS_Subset
<1>4. SizedOf(j) \cap batch[r] = {} /\ PyrsOf(j) \cap batch[r] = {}
  BY <1>2, <1>3, FacesFinite
<1>5. FacesOf(j) \subseteq SizedOf(j) \cup PyrsOf(j)
  BY DEF FacesOf, SizedOf, PyrsOf, ClusterTypeOK
<1> QED BY <1>1, <1>4, <1>5

\* Counting two disjoint sets together.
LEMMA Adds ==
    ASSUME NEW S \in SUBSET Crops, NEW T \in SUBSET Crops, S \cap T = {}
    PROVE  Cardinality(S \cup T) = Cardinality(S) + Cardinality(T)
PROOF
<1>1. Cardinality(S \cap T) = 0
  BY FS_EmptySet
<1> QED BY <1>1, CropsFinite, FS_Union

\* The faces of the clusters that go into one, all of them or those counted.
LEMMA MergedCounts ==
    ASSUME NEW S \in SUBSET Clusters, NEW D, NEW f,
           \A j \in S : D[j] \subseteq FacesOf(j) /\ f[j] = Cardinality(D[j])
    PROVE  SumFunctionOnSet(f, S) = Cardinality(Together(D, S)) /\ Together(D, S) \in SUBSET Crops
PROOF
<1>1. IsFiniteSet(S)
  BY CropsFinite, FS_Subset
<1>2. \A j \in S : IsFiniteSet(D[j]) /\ f[j] = Cardinality(D[j])
  BY CropsFinite DEF FacesOf
<1>3. \A i, j \in S : i # j => D[i] \cap D[j] = {}
  BY DEF FacesOf
<1>4. SumFunctionOnSet(f, S) = Cardinality(Together(D, S))
  BY <1>1, <1>2, <1>3, SumCounts
<1>5. Together(D, S) \in SUBSET Crops
  BY DEF Together, FacesOf
<1> QED BY <1>4, <1>5

-----------------------------------------------------------------------------
(* What a result counts *)

AllOf(S) == [j \in S |-> FacesOf(j)]
SizedIn(S) == [j \in S |-> SizedOf(j)]
PyrsIn(S) == [j \in S |-> PyrsOf(j)]

\* The clusters that go into one that is counted right are counted right themselves.
LEMMA IntoCounted ==
    ASSUME ClusterTypeOK, FreshInv, CopyInv, MembersAgree, NEW r \in Sessions, NEW to, NEW counts,
           Redirects(r, to), Persist(r, to, counts),
           NEW k \in Clusters, k \notin tainted', k \in Targets(r, to)
    PROVE  /\ \A j \in Into(r, to, k) :
                 /\ j \in (held[r] \cap live) \ tainted /\ j \in Clusters
                 /\ copy[r][j] = row[j] /\ Counted(j) /\ FacesOf(j) \cap batch[r] = {}
           /\ \/ k \in held[r] /\ k \in Into(r, to, k) /\ to[k] = k
              \/ k \in fresh /\ k \notin held[r] /\ Into(r, to, k) = {} /\ row[k] = NoRow
           /\ copy[r][k] = row[k]
PROOF
<1>1. ASSUME NEW j \in Into(r, to, k)
      PROVE  /\ j \in (held[r] \cap live) \ tainted /\ j \in Clusters
             /\ copy[r][j] = row[j] /\ Counted(j) /\ FacesOf(j) \cap batch[r] = {}
  <2>1. j \in (held[r] \cap live) \ tainted /\ copy[r][j] = row[j]
    BY Untainted DEF Into
  <2>2. Counted(j) /\ FacesOf(j) \cap batch[r] = {}
    BY <2>1, NotTwice
  <2> QED BY <2>1, <2>2, Disjoint
<1>2. \/ k \in held[r] /\ k \in Into(r, to, k) /\ to[k] = k
      \/ k \in fresh /\ k \notin held[r] /\ Into(r, to, k) = {} /\ row[k] = NoRow
  <2>1. CASE k \in held[r]
    BY <2>1, TargetsTyped DEF Into
  <2>2. CASE k \notin held[r]
    BY <2>2, TargetsTyped DEF Into, Redirects, FreshInv
  <2> QED BY <2>1, <2>2
<1>3. copy[r][k] = row[k]
  BY <1>1, <1>2 DEF FreshInv
<1> QED BY <1>1, <1>2, <1>3

\* Its faces are those that join it and those of the clusters that go into it.
LEMMA TargetFaces ==
    ASSUME ClusterTypeOK, FreshInv, CopyInv, MembersAgree, NEW r \in Sessions, NEW to, NEW counts,
           Redirects(r, to), Persist(r, to, counts),
           NEW k \in Clusters, k \notin tainted', k \in live', k \in Targets(r, to)
    PROVE  LET J == Joining(r, to, k)
               I == Into(r, to, k)
           IN  /\ J \cap Together(AllOf(I), I) = {}
               /\ FacesOf(k)' = J \cup Together(AllOf(I), I)
               /\ SizedOf(k)' = (IF phase[r] = "sweeper" THEN {} ELSE J)
                                \cup Together(SizedIn(I), I)
               /\ PyrsOf(k)' = (J \cap Profile) \cup Together(PyrsIn(I), I)
PROOF
<1> DEFINE J == Joining(r, to, k)
           I == Into(r, to, k)
<1>0. k # Nil /\ k \notin Absorbed(r, to)
  BY ClusterAssumption, KeepsFaces
<1>1. \A c \in Crops : c \in J <=> Joins(r, to, c) /\ to[c] = k
  BY <1>0 DEF Joining, Joins
<1>2. J \subseteq Crops
  BY Disjoint DEF Joining
<1>3. ASSUME NEW c \in Crops
      PROVE  member'[c] = k <=> c \in J \/ member[c] \in I
  <2>1. CASE Joins(r, to, c)
    <3>1. member'[c] = to[c] /\ c \in batch[r]
      BY <2>1, PersistMoves DEF Joins
    <3>2. member[c] \notin I
      BY <3>1, IntoCounted DEF FacesOf
    <3> QED BY <1>1, <2>1, <3>1, <3>2
  <2>2. CASE ~Joins(r, to, c) /\ member[c] \in Absorbed(r, to)
    <3>1. member'[c] = to[member[c]]
      BY <2>2, PersistMoves
    <3> QED BY <1>1, <2>2, <3>1 DEF Absorbed, Into
  <2>3. CASE ~Joins(r, to, c) /\ member[c] \notin Absorbed(r, to)
    <3>1. member'[c] = member[c]
      BY <2>3, PersistMoves
    <3>2. member[c] \in I => member[c] = k
      BY <2>3 DEF Absorbed, Into
    <3>3. member[c] = k => k \in I
      BY IntoCounted DEF FreshInv
    <3> QED BY <1>1, <2>3, <3>1, <3>2, <3>3
  <2> QED BY <2>1, <2>2, <2>3
<1>4. \A c \in Crops : c \in J => member[c] \notin I
  BY IntoCounted DEF FacesOf, Joining
<1>5. ASSUME NEW c \in Crops, member'[c] = k
      PROVE  c \in swept' <=> IF c \in J THEN phase[r] = "sweeper" ELSE c \in swept
  <2>1. swept' = IF phase[r] = "sweeper" THEN swept \cup {d \in batch[r] : to[d] # Nil}
                 ELSE swept \ {d \in batch[r] : to[d] # Nil}
    BY DEF Persist
  <2>2. c \in J <=> Joins(r, to, c)
    BY <1>1, <1>5, PersistMoves
  <2> HIDE DEF J
  <2> QED BY <2>1, <2>2 DEF Joins
<1>6. \A x : /\ x \in Together(AllOf(I), I) <=> x \in Crops /\ member[x] \in I
             /\ x \in Together(SizedIn(I), I) <=> x \in Crops /\ member[x] \in I /\ x \notin swept
             /\ x \in Together(PyrsIn(I), I) <=> x \in Profile /\ member[x] \in I
  BY DEF Together, AllOf, SizedIn, PyrsIn, SizedOf, FacesOf, PyrsOf
<1>7. \A x : /\ x \in FacesOf(k)' <=> x \in Crops /\ member'[x] = k
             /\ x \in SizedOf(k)' <=> x \in Crops /\ member'[x] = k /\ x \notin swept'
             /\ x \in PyrsOf(k)' <=> x \in Profile /\ member'[x] = k
  BY DEF SizedOf, FacesOf, PyrsOf
<1>8. Profile \subseteq Crops
  BY DEF Crops
<1> HIDE DEF J, I
<1>9. J \cap Together(AllOf(I), I) = {}
  BY <1>4, <1>6
<1>10. FacesOf(k)' = J \cup Together(AllOf(I), I)
  BY <1>2, <1>3, <1>6, <1>7
<1>11. SizedOf(k)' = (IF phase[r] = "sweeper" THEN {} ELSE J) \cup Together(SizedIn(I), I)
  BY <1>2, <1>3, <1>4, <1>5, <1>6, <1>7
<1>12. PyrsOf(k)' = (J \cap Profile) \cup Together(PyrsIn(I), I)
  BY <1>3, <1>6, <1>7, <1>8
<1> QED BY <1>9, <1>10, <1>11, <1>12 DEF J, I

\* How many that makes, in the sums of an UPDATE.
LEMMA TargetSums ==
    ASSUME ClusterTypeOK, FreshInv, CopyInv, MembersAgree, NEW r \in Sessions, NEW to, NEW counts,
           Redirects(r, to), Persist(r, to, counts),
           NEW k \in Clusters, k \notin tainted', k \in live', k \in Targets(r, to), NEW kept
    PROVE  LET J == Joining(r, to, k)
           IN  /\ phase[r] # "sweeper" =>
                     Cardinality(SizedOf(k)') = Cardinality(J) + MergedSize(r, to, k)
               /\ J \cap Profile = {} => Cardinality(PyrsOf(k)') = MergedPyr(r, to, k, kept)
PROOF
<1> DEFINE J == Joining(r, to, k)
           I == Into(r, to, k)
           sizes == [j \in Clusters |-> copy[r][j].size]
           pyrs == [j \in Clusters |-> IF j \in kept THEN copy[r][j].pyr ELSE row[j].pyr]
<1>1. I \in SUBSET Clusters /\ I \cap live = I
  BY IntoCounted
<1>2. \A j \in I : sizes[j] = Cardinality(SizedOf(j)) /\ pyrs[j] = Cardinality(PyrsOf(j))
  BY <1>1, IntoCounted, CountedIs
<1>3. /\ \A j \in I : SizedIn(I)[j] \subseteq FacesOf(j) /\ PyrsIn(I)[j] \subseteq FacesOf(j)
      /\ \A j \in I : /\ sizes[j] = Cardinality(SizedIn(I)[j])
                      /\ pyrs[j] = Cardinality(PyrsIn(I)[j])
  BY <1>2 DEF SizedIn, PyrsIn, SizedOf, PyrsOf, FacesOf, Crops
<1>4. MergedSize(r, to, k) = SumFunctionOnSet(sizes, I)
      /\ MergedPyr(r, to, k, kept) = SumFunctionOnSet(pyrs, I)
  BY <1>1 DEF MergedSize, MergedPyr
<1> HIDE DEF sizes, pyrs
<1>5. /\ SumFunctionOnSet(sizes, I) = Cardinality(Together(SizedIn(I), I))
      /\ Together(SizedIn(I), I) \in SUBSET Crops
  BY <1>1, <1>3, MergedCounts
<1>6. SumFunctionOnSet(pyrs, I) = Cardinality(Together(PyrsIn(I), I))
  BY <1>1, <1>3, MergedCounts
<1>7. /\ SizedOf(k)' = (IF phase[r] = "sweeper" THEN {} ELSE J) \cup Together(SizedIn(I), I)
      /\ PyrsOf(k)' = (J \cap Profile) \cup Together(PyrsIn(I), I)
      /\ J \cap Together(AllOf(I), I) = {}
  BY TargetFaces
<1>8. Together(SizedIn(I), I) \subseteq Together(AllOf(I), I)
  BY DEF Together, SizedIn, AllOf, SizedOf
<1>9. J \in SUBSET Crops
  BY Disjoint DEF Joining
<1> HIDE DEF J, I
<1>10. ASSUME phase[r] # "sweeper"
       PROVE  Cardinality(SizedOf(k)') = Cardinality(J) + MergedSize(r, to, k)
  <2>1. SizedOf(k)' = J \cup Together(SizedIn(I), I) /\ J \cap Together(SizedIn(I), I) = {}
    BY <1>7, <1>8, <1>10
  <2> QED BY <1>4, <1>5, <1>9, <2>1, Adds
<1>11. J \cap Profile = {} => Cardinality(PyrsOf(k)') = MergedPyr(r, to, k, kept)
  BY <1>4, <1>6, <1>7
<1> QED BY <1>10, <1>11 DEF J

\* A cluster into which no other goes has only its own faces to keep.
LEMMA TargetAlone ==
    ASSUME ClusterTypeOK, FreshInv, CopyInv, MembersAgree, NEW r \in Sessions, NEW to, NEW counts,
           Redirects(r, to), Persist(r, to, counts),
           NEW k \in Clusters, k \notin tainted', k \in live', k \in Targets(r, to),
           ~Merges(r, to, k)
    PROVE  LET J == Joining(r, to, k)
           IN  /\ phase[r] = "sweeper" /\ k \in held[r] =>
                     Cardinality(SizedOf(k)') = row[k].size
               /\ J \cap Profile = {} => Cardinality(PyrsOf(k)') = row[k].pyr
               /\ J \subseteq Profile /\ k \in held[r] =>
                     Cardinality(PyrsOf(k)') = row[k].pyr + Cardinality(J)
PROOF
<1> DEFINE J == Joining(r, to, k)
           I == Into(r, to, k)
<1>1. I \subseteq {k}
  BY DEF Merges
<1>2. /\ SizedOf(k)' = (IF phase[r] = "sweeper" THEN {} ELSE J) \cup Together(SizedIn(I), I)
      /\ PyrsOf(k)' = (J \cap Profile) \cup Together(PyrsIn(I), I)
      /\ J \cap Together(AllOf(I), I) = {}
  BY TargetFaces
<1>3. J \in SUBSET Crops /\ Profile \subseteq Crops
  BY Disjoint DEF Joining, Crops
<1>4. CASE k \in held[r]
  <2>1. I = {k} /\ Counted(k)
    BY <1>1, <1>4, IntoCounted
  <2>2. /\ Together(SizedIn(I), I) = SizedOf(k) /\ Together(PyrsIn(I), I) = PyrsOf(k)
        /\ Together(AllOf(I), I) = FacesOf(k)
    <3> HIDE DEF I
    <3> QED BY <2>1 DEF Together, SizedIn, PyrsIn, AllOf
  <2>3. row[k].size = Cardinality(SizedOf(k)) /\ row[k].pyr = Cardinality(PyrsOf(k))
    BY <2>1, CountedIs
  <2>4. J \cap PyrsOf(k) = {} /\ PyrsOf(k) \in SUBSET Crops
    BY <1>2, <2>2, FacesFinite
  <2> HIDE DEF J, I
  <2>5. phase[r] = "sweeper" => Cardinality(SizedOf(k)') = row[k].size
    BY <1>2, <2>2, <2>3
  <2>6. J \cap Profile = {} => Cardinality(PyrsOf(k)') = row[k].pyr
    BY <1>2, <2>2, <2>3
  <2>7. ASSUME J \subseteq Profile PROVE Cardinality(PyrsOf(k)') = row[k].pyr + Cardinality(J)
    <3>1. PyrsOf(k)' = PyrsOf(k) \cup J
      BY <1>2, <2>2, <2>7
    <3> QED BY <1>3, <2>3, <2>4, <3>1, Adds
  <2> QED BY <2>5, <2>6, <2>7 DEF J
<1>5. CASE k \notin held[r]
  <2>1. I = {} /\ row[k] = NoRow
    BY <1>5, IntoCounted
  <2>2. Together(PyrsIn(I), I) = {}
    BY <2>1 DEF Together
  <2> HIDE DEF I, J
  <2>3. J \cap Profile = {} => Cardinality(PyrsOf(k)') = row[k].pyr
    BY <1>2, <2>1, <2>2, FS_EmptySet DEF NoRow
  <2> QED BY <1>5, <2>3 DEF J
<1> QED BY <1>4, <1>5

\* A cluster that is written counts its faces, one of them in the range of the cluster pass.
LEMMA TargetCounted ==
    ASSUME ClusterTypeOK, BatchInv, FreshInv, CopyInv, MembersAgree, NEW r \in Sessions, NEW to,
           NEW counts, Redirects(r, to), Writes(r, to, counts), Persist(r, to, counts),
           NEW k \in Clusters, k \notin tainted', k \in live', k \in Targets(r, to)
    PROVE  Counted(k)' /\ copy'[r][k] = row'[k] /\ \E c \in Frontal : member'[c] = k
PROOF
<1> DEFINE J == Joining(r, to, k)
           n == Cardinality(J)
<1>1. PICK kept \in SUBSET Outdated(r) :
         /\ row' = [j \in Clusters |-> After(r, to, counts, kept, j, row[j])]
         /\ copy' = [copy EXCEPT ![r] =
                       [j \in Clusters |-> After(r, to, counts, kept, j, copy[r][j])]]
  BY PersistRows
<1>2. k \in LiveAfter(r, to)
  BY DEF Persist
<1>3. row'[k] = Values(r, to, k, counts, kept, row[k])
  BY <1>1, <1>2 DEF After
<1>4. copy'[r][k] = row'[k]
  <2>1. copy'[r][k] = After(r, to, counts, kept, k, copy[r][k])
    BY <1>1 DEF ClusterTypeOK
  <2> QED BY <1>1, <2>1, IntoCounted
<1>5. J \subseteq batch[r] /\ J \in SUBSET Crops /\ n \in Nat
  BY Disjoint, CropsFinite DEF Joining
<1>6. /\ phase[r] = "cluster" => J \cap Profile = {}
      /\ phase[r] \in {"sweeper", "crops"} => J \subseteq Profile
  BY <1>5, ClusterAssumption DEF BatchInv, Angles
<1>7. copy[r][k] = row[k] /\ row[k] \in Row
  BY IntoCounted DEF ClusterTypeOK
<1>8. phase[r] = "merge" => Merges(r, to, k) /\ J = {}
  BY <1>5 DEF Writes, Targets, Merges, Into, Absorbed
<1>9. phase[r] \in {"sweeper", "crops"} => ~Merges(r, to, k) /\ k \in held[r]
  <2> SUFFICES ASSUME phase[r] \in {"sweeper", "crops"} PROVE ~Merges(r, to, k) /\ k \in held[r]
    OBVIOUS
  <2>1. StaysPut(r, to) /\ \A c \in batch[r] : to[c] \notin fresh
    BY DEF Writes
  <2>2. Absorbed(r, to) = {} /\ Into(r, to, k) \subseteq {k}
    BY <2>1 DEF StaysPut, Absorbed, Into
  <2>3. k \notin fresh
    BY <2>1, <2>2 DEF Targets
  <2> QED BY <2>2, <2>3, TargetsTyped DEF Merges
<1>10. row'[k].size = Cardinality(SizedOf(k)')
  <2>1. row'[k].size = IF "size" \in counts \/ Merges(r, to, k)
                       THEN n + MergedSize(r, to, k) ELSE row[k].size
    BY <1>3 DEF Values
  <2>2. CASE phase[r] = "sweeper"
    <3>1. row'[k].size = row[k].size
      BY <1>9, <2>1, <2>2 DEF Writes
    <3> QED BY <1>9, <2>2, <3>1, TargetAlone
  <2>3. CASE phase[r] # "sweeper"
    <3>1. row'[k].size = n + MergedSize(r, to, k)
      BY <1>8, <2>1, <2>3 DEF Writes
    <3> QED BY <2>3, <3>1, TargetSums
  <2> QED BY <2>2, <2>3
<1>11. row'[k].pyr = Cardinality(PyrsOf(k)')
  <2>1. row'[k].pyr = IF Merges(r, to, k) THEN MergedPyr(r, to, k, kept)
                      ELSE IF "pyr" \in counts /\ n > 0 THEN copy[r][k].pyr + n
                      ELSE row[k].pyr
    BY <1>3 DEF Values
  <2>2. CASE Merges(r, to, k)
    <3>1. J \cap Profile = {}
      BY <1>6, <1>8, <1>9, <2>2 DEF Writes
    <3> QED BY <2>1, <2>2, <3>1, TargetSums
  <2>3. CASE ~Merges(r, to, k) /\ phase[r] = "cluster"
    <3>1. row'[k].pyr = row[k].pyr
      BY <2>1, <2>3 DEF Writes
    <3> QED BY <1>6, <2>3, <3>1, TargetAlone
  <2>4. CASE ~Merges(r, to, k) /\ phase[r] \in {"sweeper", "crops"}
    <3>1. row'[k].pyr = row[k].pyr + n
      <4>1. "pyr" \in counts
        BY <2>4 DEF Writes
      <4>2. row[k].pyr \in Nat
        BY <1>7 DEF Row
      <4> QED BY <1>5, <1>7, <2>1, <2>4, <4>1, <4>2
    <3> QED BY <1>6, <1>9, <2>4, <3>1, TargetAlone
  <2> QED BY <1>8, <2>2, <2>3, <2>4 DEF Writes
<1>12. \E c \in Frontal : member'[c] = k
  <2>1. CASE k \in held[r]
    <3>1. k \in live \ tainted
      BY <2>1, IntoCounted
    <3>2. PICK c \in Frontal : member[c] = k
      BY <3>1 DEF MembersAgree
    <3>3. c \in FacesOf(k)
      BY <3>2 DEF FacesOf, Crops
    <3>4. member'[c] = k
      BY <3>3, KeepsFaces DEF FacesOf
    <3> QED BY <3>4
  <2>2. CASE k \notin held[r]
    <3>1. phase[r] = "cluster"
      BY <1>8, <1>9, <2>2, IntoCounted DEF Writes, Merges
    <3>2. \A j \in Absorbed(r, to) : to[j] \in held[r]
      BY DEF Redirects, Absorbed
    <3>3. PICK c \in batch[r] : to[c] = k /\ to[c] # Nil
      BY <2>2, <3>2 DEF Targets
    <3>4. c \in Frontal /\ c \in Crops
      BY <3>1, Disjoint DEF BatchInv, Angles
    <3> QED BY <3>3, <3>4, PersistMoves DEF Joins
  <2> QED BY <2>1, <2>2
<1>13. Counted(k)'
  BY <1>10, <1>11, CountedIs
<1> QED BY <1>4, <1>12, <1>13

\* After a result is stored faces and clusters agree.
LEMMA PersistAgrees ==
    ASSUME ClusterTypeOK, BatchInv, FreshInv, CopyInv, MembersAgree, NEW r \in Sessions, NEW to,
           NEW counts, Redirects(r, to), Writes(r, to, counts), Persist(r, to, counts)
    PROVE  MembersAgree'
PROOF
<1>1. ASSUME NEW c \in rows' PROVE member'[c] \in live' \cup {Nil}
  <2>1. rows' = rows /\ c \in rows /\ c \in Crops
    BY PersistMoves DEF ClusterTypeOK
  <2>2. live' = (live \cup (Targets(r, to) \cap fresh)) \ Absorbed(r, to)
    BY PersistMoves
  <2>3. Targets(r, to) \cap Absorbed(r, to) = {}
    BY TargetsTyped
  <2>4. CASE Joins(r, to, c)
    <3>1. member'[c] = to[c] /\ to[c] \in Targets(r, to)
      BY <2>1, <2>4, PersistMoves
    <3>2. to[c] \in live \cup fresh
      BY <2>1, <2>4 DEF Persist, Referable, Joins
    <3> QED BY <2>2, <2>3, <3>1, <3>2
  <2>5. CASE ~Joins(r, to, c) /\ member[c] \in Absorbed(r, to)
    <3>1. member'[c] = to[member[c]] /\ to[member[c]] \in Targets(r, to)
      BY <2>1, <2>5, PersistMoves
    <3>2. to[member[c]] \in live
      BY <2>1, <2>5 DEF Persist, Referable
    <3> QED BY <2>2, <2>3, <3>1, <3>2
  <2>6. CASE ~Joins(r, to, c) /\ member[c] \notin Absorbed(r, to)
    BY <2>1, <2>2, <2>6, PersistMoves DEF MembersAgree
  <2> QED BY <2>4, <2>5, <2>6
<1>2. ASSUME NEW k \in live' \ tainted' PROVE Counted(k)' /\ \E c \in Frontal : member'[c] = k
  <2>0. k \in Clusters
    BY PersistTyped
  <2>1. CASE k \in Targets(r, to)
    BY <1>2, <2>0, <2>1, TargetCounted
  <2>2. CASE k \notin Targets(r, to)
    <3>1. /\ k \in live /\ SizedOf(k)' = SizedOf(k) /\ FacesOf(k)' = FacesOf(k)
          /\ PyrsOf(k)' = PyrsOf(k)
      BY <1>2, <2>0, <2>2, KeepsFaces
    <3>2. k \notin tainted
      BY <1>2, <2>0, Untainted
    <3>3. row'[k] = row[k]
      <4>1. k \in LiveAfter(r, to)
        BY <1>2 DEF Persist
      <4> QED BY <2>0, <2>2, <4>1, PersistRows DEF After
    <3>4. Counted(k) /\ \E c \in Frontal : member[c] = k
      BY <3>1, <3>2 DEF MembersAgree
    <3>5. \E c \in Frontal : member'[c] = k
      BY <3>1, <3>4 DEF FacesOf, Crops
    <3> QED BY <3>1, <3>3, <3>4, <3>5, CountedIs
  <2> QED BY <2>1, <2>2
<1> QED BY <1>1, <1>2 DEF MembersAgree

\* And what the sessions have counts nothing they are about to add.
LEMMA PersistCopies ==
    ASSUME ClusterTypeOK, BatchInv, FreshInv, CopyInv, MembersAgree, NEW r \in Sessions, NEW to,
           NEW counts, Redirects(r, to), Writes(r, to, counts), Persist(r, to, counts),
           batch' = [batch EXCEPT ![r] = {}]
    PROVE  CopyInv'
PROOF
<1> SUFFICES ASSUME NEW q \in Sessions, NEW k \in (held'[q] \cap live') \ tainted'
             PROVE  /\ copy'[q][k].size <= Cardinality(SizedOf(k)' \ batch'[q])
                    /\ copy'[q][k].pyr <= Cardinality(PyrsOf(k)' \ batch'[q])
  BY DEF CopyInv
<1>0. k \in Clusters
  BY PersistTyped
<1>1. k \notin tainted
  BY <1>0, Untainted
<1>2. SizedOf(k) \subseteq SizedOf(k)' /\ PyrsOf(k) \subseteq PyrsOf(k)'
  BY <1>0, KeepsFaces
<1>3. PICK kept \in SUBSET Outdated(r) :
         /\ row' = [j \in Clusters |-> After(r, to, counts, kept, j, row[j])]
         /\ copy' = [copy EXCEPT ![r] =
                       [j \in Clusters |-> After(r, to, counts, kept, j, copy[r][j])]]
         /\ held' = [held EXCEPT ![r] = (@ \cup Targets(r, to)) \cap LiveAfter(r, to)]
  BY PersistRows
<1>t. /\ held \in [Sessions -> SUBSET Clusters] /\ copy \in [Sessions -> [Clusters -> Row]]
      /\ batch \in [Sessions -> SUBSET Crops]
  BY DEF ClusterTypeOK
<1>4. CASE k \in Targets(r, to) /\ q = r
  <2>1. Counted(k)' /\ copy'[r][k] = row'[k]
    BY <1>0, <1>4, TargetCounted
  <2>2. batch'[q] = {}
    BY <1>t, <1>4
  <2>3. /\ copy'[q][k].size = Cardinality(SizedOf(k)') /\ Cardinality(SizedOf(k)') \in Nat
        /\ copy'[q][k].pyr = Cardinality(PyrsOf(k)') /\ Cardinality(PyrsOf(k)') \in Nat
    BY <1>4, <2>1, CountedIs, FacesFinite, CropsFinite
  <2> QED BY <2>2, <2>3
<1>5. CASE ~(k \in Targets(r, to) /\ q = r)
  <2>1. k \in held[q] /\ copy'[q][k] = copy[q][k]
    <3>1. CASE q # r
      BY <1>t, <1>3, <3>1
    <3>2. CASE q = r
      <4>1. k \in LiveAfter(r, to) /\ k \notin Targets(r, to)
        BY <1>5, <3>2 DEF Persist
      <4> QED BY <1>t, <1>0, <1>3, <3>2, <4>1 DEF After
    <3> QED BY <3>1, <3>2
  <2>2. k \in live
    BY <1>0, <2>1, PersistMoves DEF FreshInv
  <2>3. /\ copy[q][k].size <= Cardinality(SizedOf(k) \ batch[q])
        /\ copy[q][k].pyr <= Cardinality(PyrsOf(k) \ batch[q])
        /\ copy[q][k].size \in Nat /\ copy[q][k].pyr \in Nat
    BY <1>t, <1>0, <1>1, <2>1, <2>2 DEF CopyInv, Row
  <2>4. batch'[q] \subseteq batch[q]
    BY <1>t
  <2>5. /\ Cardinality(SizedOf(k) \ batch[q]) <= Cardinality(SizedOf(k)' \ batch'[q])
        /\ Cardinality(SizedOf(k) \ batch[q]) \in Nat
        /\ Cardinality(SizedOf(k)' \ batch'[q]) \in Nat
    <3>1. /\ SizedOf(k) \ batch[q] \in SUBSET (SizedOf(k)' \ batch'[q])
          /\ SizedOf(k)' \ batch'[q] \in SUBSET Crops
      BY <1>2, <2>4, FacesFinite
    <3> QED BY <3>1, Smaller
  <2>6. /\ Cardinality(PyrsOf(k) \ batch[q]) <= Cardinality(PyrsOf(k)' \ batch'[q])
        /\ Cardinality(PyrsOf(k) \ batch[q]) \in Nat
        /\ Cardinality(PyrsOf(k)' \ batch'[q]) \in Nat
    <3>1. /\ PyrsOf(k) \ batch[q] \in SUBSET (PyrsOf(k)' \ batch'[q])
          /\ PyrsOf(k)' \ batch'[q] \in SUBSET Crops
      BY <1>2, <2>4, FacesFinite
    <3> QED BY <3>1, Smaller
  <2> QED BY <2>1, <2>3, <2>5, <2>6
<1> QED BY <1>4, <1>5

\* Every step keeps faces and clusters in agreement.
LEMMA AgreeStep ==
    ASSUME ClusterInv, [ClusterNext]_clusterVars
    PROVE  MembersAgree'
PROOF
<1> USE DEF faces, clusters, session, history, faulty
<1>0. /\ ClusterTypeOK /\ BatchInv /\ FreshInv /\ StoredInv /\ HoldsInv
      /\ CopyInv /\ MembersAgree
  BY DEF ClusterInv, LockInv
<1>k. ASSUME UNCHANGED <<member, live, row, swept, tainted>>,
             \A c \in rows' : c \in rows \/ member[c] = Nil
      PROVE  MembersAgree'
  BY <1>0, <1>k DEF MembersAgree, Counted
<1>1. ASSUME NEW c \in Crops, StoreFace(c) PROVE MembersAgree'
  <2>1. member[c] = Nil
    BY <1>0, <1>1 DEF StoreFace, StoredInv
  <2> QED BY <1>1, <1>k, <2>1 DEF StoreFace
<1>2. CASE \/ UNCHANGED clusterVars \/ Expires \/ Lapses
           \/ \E c \in Crops : DeleteFace(c)
           \/ \E r \in Sessions : Start(r)
  <2>1. UNCHANGED <<member, live, row, swept, tainted>> /\ rows' \subseteq rows
    BY <1>2 DEF clusterVars, DeleteFace, Start, Expires, Lapses
  <2> QED BY <1>k, <2>1
<1>3. CASE Archive
  BY <1>3 DEF Archive, MembersAgree
<1>4. ASSUME NEW r \in Sessions, Loader(r) \/ Others(r) PROVE MembersAgree'
  <2>1. UNCHANGED <<rows, member, live, row, swept, tainted>>
    BY <1>0, <1>4, LoadsFaces, OthersQuiet
  <2> QED BY <1>k, <2>1
<1>5. ASSUME NEW r \in Sessions, Writer(r) PROVE MembersAgree'
  BY <1>0, <1>5, WriterWrites, PersistAgrees
<1> QED BY <1>1, <1>2, <1>3, <1>4, <1>5, StepCases

\* Every step keeps what the sessions have from counting what they are about to add.
LEMMA CopyStep ==
    ASSUME ClusterInv, [ClusterNext]_clusterVars
    PROVE  CopyInv'
PROOF
<1> USE DEF faces, clusters, session, history, faulty
<1>0. /\ ClusterTypeOK /\ BatchInv /\ FreshInv /\ StoredInv /\ HoldsInv
      /\ CopyInv /\ MembersAgree
  BY DEF ClusterInv, LockInv
<1>t. /\ held \in [Sessions -> SUBSET Clusters] /\ copy \in [Sessions -> [Clusters -> Row]]
      /\ batch \in [Sessions -> SUBSET Crops]
  BY <1>0 DEF ClusterTypeOK
<1>c. \A k \in live \ tainted : /\ row[k].size = Cardinality(SizedOf(k))
                                /\ row[k].pyr = Cardinality(PyrsOf(k))
                                /\ Cardinality(SizedOf(k)) \in Nat /\ Cardinality(PyrsOf(k)) \in Nat
  BY <1>0, CountedIs, FacesFinite, CropsFinite DEF MembersAgree
\* A smaller batch is no harder.
<1>m. ASSUME NEW q \in Sessions, NEW k \in (held[q] \cap live) \ tainted, NEW b \in SUBSET Crops,
             b \cap FacesOf(k) \subseteq batch[q]
      PROVE  /\ copy[q][k].size <= Cardinality(SizedOf(k) \ b)
             /\ copy[q][k].pyr <= Cardinality(PyrsOf(k) \ b)
  <2>1. /\ copy[q][k].size <= Cardinality(SizedOf(k) \ batch[q])
        /\ copy[q][k].pyr <= Cardinality(PyrsOf(k) \ batch[q])
        /\ copy[q][k].size \in Nat /\ copy[q][k].pyr \in Nat
    BY <1>0, <1>t DEF CopyInv, Row
  <2>2. /\ SizedOf(k) \ batch[q] \in SUBSET (SizedOf(k) \ b) /\ SizedOf(k) \ b \in SUBSET Crops
        /\ PyrsOf(k) \ batch[q] \in SUBSET (PyrsOf(k) \ b) /\ PyrsOf(k) \ b \in SUBSET Crops
    BY <1>m, FacesFinite DEF SizedOf
  <2>3. /\ Cardinality(SizedOf(k) \ batch[q]) <= Cardinality(SizedOf(k) \ b)
        /\ Cardinality(SizedOf(k) \ batch[q]) \in Nat /\ Cardinality(SizedOf(k) \ b) \in Nat
    BY <2>2, Smaller
  <2>4. /\ Cardinality(PyrsOf(k) \ batch[q]) <= Cardinality(PyrsOf(k) \ b)
        /\ Cardinality(PyrsOf(k) \ batch[q]) \in Nat /\ Cardinality(PyrsOf(k) \ b) \in Nat
    BY <2>2, Smaller
  <2> QED BY <2>1, <2>3, <2>4
\* What is said of the state after a step that leaves clusters and members alone.
<1>p. ASSUME UNCHANGED <<member, live, swept, tainted>>,
             \A q \in Sessions : \A k \in (held'[q] \cap live) \ tainted :
                /\ copy'[q][k].size <= Cardinality(SizedOf(k) \ batch'[q])
                /\ copy'[q][k].pyr <= Cardinality(PyrsOf(k) \ batch'[q])
      PROVE  CopyInv'
  <2>1. \A k : SizedOf(k)' = SizedOf(k) /\ PyrsOf(k)' = PyrsOf(k)
    BY <1>p DEF SizedOf, PyrsOf, FacesOf
  <2> QED BY <1>p, <2>1 DEF CopyInv
<1>1. CASE \/ UNCHANGED clusterVars \/ Expires \/ Lapses
           \/ \E c \in Crops : StoreFace(c) \/ DeleteFace(c)
  <2>1. UNCHANGED <<member, live, swept, tainted, held, copy, batch>>
    BY <1>1 DEF clusterVars, StoreFace, DeleteFace, Expires, Lapses
  <2> QED BY <1>0, <1>p, <2>1 DEF CopyInv
<1>2. CASE Archive
  BY <1>2 DEF Archive, CopyInv
<1>3. ASSUME NEW r \in Sessions, Start(r) PROVE CopyInv'
  <2>1. /\ UNCHANGED <<member, live, swept, tainted, batch, row>>
        /\ copy' = [copy EXCEPT ![r] = row]
        /\ batch[r] = {} /\ \A q \in Sessions : q # r => held'[q] = held[q]
    <3>1. phase[r] = "new"
      BY <1>3 DEF Start
    <3>2. batch[r] = {}
      BY <1>0, <3>1 DEF HoldsInv, BatchInv, Phases
    <3> QED BY <1>t, <1>3, <3>2 DEF Start
  <2>2. ASSUME NEW q \in Sessions, NEW k \in (held'[q] \cap live) \ tainted
        PROVE  /\ copy'[q][k].size <= Cardinality(SizedOf(k) \ batch'[q])
               /\ copy'[q][k].pyr <= Cardinality(PyrsOf(k) \ batch'[q])
    <3>1. CASE q # r
      BY <1>0, <1>t, <2>1, <2>2, <3>1 DEF CopyInv
    <3>2. CASE q = r
      <4>1. copy'[q][k] = row[k] /\ batch'[q] = {}
        BY <1>t, <2>1, <3>2
      <4>2. SizedOf(k) \ batch'[q] = SizedOf(k) /\ PyrsOf(k) \ batch'[q] = PyrsOf(k)
        BY <4>1
      <4> QED BY <1>c, <2>2, <4>1, <4>2
    <3> QED BY <3>1, <3>2
  <2> QED BY <1>p, <2>1, <2>2
<1>4. ASSUME NEW r \in Sessions, Loader(r) PROVE CopyInv'
  <2>1. ReadsClusters(r) /\ UNCHANGED <<member, live, swept, tainted, row>>
    BY <1>0, <1>4, LoadsFaces
  <2>2. PICK b \in SUBSET {c \in rows \cap Angles(r) : member[c] = Nil} :
           batch' = [batch EXCEPT ![r] = b]
    BY <1>0, <1>4, LoadsFaces
  <2>3. /\ held' = [held EXCEPT ![r] = live]
        /\ \A q \in Sessions : q # r => copy'[q] = copy[q]
        /\ \A k \in Clusters : \/ copy'[r][k] = row[k]
                               \/ k \in held[r] \cap live /\ copy'[r][k] = copy[r][k]
    BY <1>0, <2>1, ReadsTyped
  <2>4. ASSUME NEW q \in Sessions, NEW k \in (held'[q] \cap live) \ tainted
        PROVE  /\ copy'[q][k].size <= Cardinality(SizedOf(k) \ batch'[q])
               /\ copy'[q][k].pyr <= Cardinality(PyrsOf(k) \ batch'[q])
    <3>1. CASE q # r
      <4>1. held'[q] = held[q] /\ copy'[q] = copy[q] /\ batch'[q] = batch[q]
        BY <1>t, <2>2, <2>3, <3>1
      <4> QED BY <1>0, <2>4, <4>1 DEF CopyInv
    <3>2. CASE q = r
      <4>1. batch'[q] = b /\ b \in SUBSET Crops
        BY <1>0, <1>t, <2>2, <3>2 DEF ClusterTypeOK
      <4>2. k \in Clusters /\ k # Nil
        BY <1>0, <2>4, Disjoint DEF ClusterTypeOK
      <4>3. b \cap FacesOf(k) = {}
        BY <4>2 DEF FacesOf
      <4>4. CASE copy'[r][k] = row[k]
        <5>1. SizedOf(k) \ b = SizedOf(k) /\ PyrsOf(k) \ b = PyrsOf(k)
          BY <4>3, FacesFinite DEF SizedOf
        <5>2. SizedOf(k) \ batch'[q] = SizedOf(k) /\ PyrsOf(k) \ batch'[q] = PyrsOf(k)
          BY <4>1, <5>1
        <5>3. copy'[q][k] = row[k] /\ k \in live \ tainted
          BY <2>4, <3>2, <4>4
        <5>4. /\ row[k].size = Cardinality(SizedOf(k)) /\ row[k].pyr = Cardinality(PyrsOf(k))
              /\ Cardinality(SizedOf(k)) \in Nat /\ Cardinality(PyrsOf(k)) \in Nat
          BY <1>c, <5>3
        <5>5. /\ copy'[q][k].size <= Cardinality(SizedOf(k))
              /\ copy'[q][k].pyr <= Cardinality(PyrsOf(k))
          BY <5>3, <5>4
        <5> QED BY <5>2, <5>5
      <4>5. CASE k \in held[r] /\ copy'[r][k] = copy[r][k]
        BY <1>m, <2>4, <3>2, <4>1, <4>3, <4>5
      <4> QED BY <2>3, <4>2, <4>4, <4>5
    <3> QED BY <3>1, <3>2
  <2> QED BY <1>p, <2>1, <2>4
<1>5. ASSUME NEW r \in Sessions, Writer(r) PROVE CopyInv'
  BY <1>0, <1>5, WriterWrites, PersistCopies
<1>6. ASSUME NEW r \in Sessions, Others(r) PROVE CopyInv'
  <2>1. /\ UNCHANGED <<member, live, swept, tainted, held, copy>>
        /\ \A q \in Sessions : batch'[q] = batch[q] \/ batch'[q] = {}
    BY <1>0, <1>6, OthersQuiet
  <2>2. \A q \in Sessions : batch'[q] \in SUBSET Crops /\ batch'[q] \subseteq batch[q]
    BY <1>t, <2>1
  <2> QED BY <1>m, <1>p, <2>1, <2>2
<1> QED BY <1>1, <1>2, <1>3, <1>4, <1>5, <1>6, StepCases

\* Whatever sessions overlap, and whatever they read of it, faces and clusters agree
\* (write_result, IncrementalClusterer): a face refers to a cluster there is, the counters
\* count its faces, and no cluster consists of high-angle faces only, except for clusters that
\* two sessions wrote at once.
THEOREM ClustersCountMembers == ClusterSpec => []MembersAgree
PROOF
<1>1. ClusterInit => ClusterInv
  <2> SUFFICES ASSUME ClusterInit PROVE CopyInv /\ MembersAgree
    BY LockInit DEF ClusterInv
  <2> QED BY DEF ClusterInit, CopyInv, MembersAgree
<1>2. ClusterInv /\ [ClusterNext]_clusterVars => ClusterInv'
  <2> SUFFICES ASSUME ClusterInv, [ClusterNext]_clusterVars PROVE ClusterInv'
    OBVIOUS
  <2>1. LockInv'
    BY LockStep DEF ClusterInv
  <2> QED BY <2>1, AgreeStep, CopyStep DEF ClusterInv
<1>3. ClusterInv => MembersAgree
  BY DEF ClusterInv
<1> QED BY <1>1, <1>2, <1>3, PTL DEF ClusterSpec

=============================================================================
