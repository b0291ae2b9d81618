----------------------------- MODULE LibraryProofs -----------------------------
(***************************************************************************)
(* Theorems about Library, for any folders, photos and requests and for    *)
(* any depth and limit.                                                    *)
(*                                                                         *)
(* A request works with copies that other requests outdate, so the         *)
(* invariants say what still holds of a copy when the request comes to its *)
(* write: the tree that a check walks is one that was sound when it was    *)
(* copied (TreeInv), and the counter that an upload has seen had room for  *)
(* it (RoomInv).                                                           *)
(***************************************************************************)
EXTENDS Library, FiniteSetTheorems, TLAPS

USE LibraryAssumption

-----------------------------------------------------------------------------
(* The inductive invariants *)

\* A photo that has a row is kept, and an upload was asked for a folder that was there once.  An
\* accepted one is kept, or else the folder is deleted for good.
KeptInv ==
    /\ Rows \subseteq kept
    /\ \A p \in Photo : sent[p] \in Folder => parent[sent[p]] # None
    /\ \A p \in told : p \in kept \/ (sent[p] \in Folder /\ parent[sent[p]] = Gone)
    /\ \A r \in Request : call[r].step = "finish" => sent[call[r].photo] # None

\* What an upload has seen, or what it will see, has room for it unless the counter has grown.
RoomInv ==
    /\ \A p \in Admitted \ grew : Fits(used)
    /\ \A r \in Request :
          /\ call[r].step = "finish" /\ call[r].photo \notin grew => Fits(call[r].seen)
          /\ call[r].step = "direct" => Fits(call[r].seen)

\* The folders of a tree, or of a copy of it, are below one another and in the end below the root.
LiveOf(par) == {f \in Folder : par[f] \in Where}

Rooted(par) == \A f \in LiveOf(par) : Ends(par, f) /\ par[f] \in LiveOf(par) \cup {Root}

TreeSound ==
    /\ Rooted(parent)
    /\ \A f \in Live \ carried : Depth(parent, f) <= MaxDepth
    /\ \A r \in Request :
          /\ call[r].step # "hung"
          /\ call[r].step \in {"create", "update"} =>
                Rooted(call[r].copy) /\ call[r].to \in LiveOf(call[r].copy) \cup {Root}

TreeInv == tangled \/ TreeSound

-----------------------------------------------------------------------------
(* What a step makes of its request *)

CallsOK == call \in [Request -> Calls]

Step(r) == FolderStep(r) \/ PhotoStep(r) \/ ReportStep(r) \/ EraseStep(r) \/ Fails(r)

LEMMA NextCases ==
  ASSUME [Next]_vars
  PROVE  \/ \E r \in Request : Step(r)
         \/ \E p \in Photo : Renders(p)
         \/ \E ids \in SUBSET Photo : Archives(ids)
         \/ \E p \in Photo, g \in Where \cup {Other} : PreCreate(p, g)
         \/ UNCHANGED vars
  BY DEF Next, Step

FolderCalls == [step : {"create", "update"}, folder : Folder, to : Where, copy : Trees]
EmptyCalls  == [step : {"empty"}, folder : Folder, inside : SUBSET Photo]
RowCalls    == [step : {"rows", "last"}, folder : Folder \cup {None}, inside : SUBSET Photo,
                ids : SUBSET Photo, bytes : Nat]
FinishCalls == [step : {"finish"}, photo : Photo, seen : Int]
DirectCalls == [step : {"direct"}, photo : Photo, to : Where \cup {Other}, seen : Int]
ReportCalls == [step : {"report"}, seen : Int]
WriteCalls  == [step : {"write"}, seen : Int, sum : Nat]
SumCalls    == [step : {"sum", "set"}, bytes : Nat, sum : Nat]

LEMMA CallKinds ==
  Calls = [step : {"off", "done", "hung"}] \cup FolderCalls \cup EmptyCalls \cup RowCalls
          \cup FinishCalls \cup DirectCalls \cup ReportCalls \cup WriteCalls \cup [step : {"erase"}]
          \cup SumCalls
  BY DEF Calls, FolderCalls, EmptyCalls, RowCalls, FinishCalls, DirectCalls, ReportCalls, WriteCalls, SumCalls

\* Which requests have which fields.
LEMMA CallFields ==
  ASSUME CallsOK, NEW r \in Request
  PROVE  /\ call[r].step \in {"create", "update"} => call[r] \in FolderCalls
         /\ call[r].step = "empty" => call[r] \in EmptyCalls
         /\ call[r].step \in {"rows", "last"} => call[r] \in RowCalls
         /\ call[r].step = "finish" => call[r] \in FinishCalls
         /\ call[r].step = "direct" => call[r] \in DirectCalls
         /\ call[r].step = "report" => call[r] \in ReportCalls
         /\ call[r].step = "write" => call[r] \in WriteCalls
         /\ call[r].step \in {"sum", "set"} => call[r] \in SumCalls
<1>1. call[r] \in [step : {"off", "done", "hung"}] \cup FolderCalls \cup EmptyCalls \cup RowCalls
          \cup FinishCalls \cup DirectCalls \cup ReportCalls \cup WriteCalls \cup [step : {"erase"}]
          \cup SumCalls
  BY CallKinds DEF CallsOK
<1> QED
  BY <1>1 DEF FolderCalls, EmptyCalls, RowCalls, FinishCalls, DirectCalls, ReportCalls, WriteCalls, SumCalls

\* How much is stored of a set of photos.
LEMMA BytesTyped ==
  ASSUME TreeOK, NEW S \in SUBSET Photo
  PROVE  /\ BytesOf(S) \in Nat /\ Stored \in Nat
         /\ IsFiniteSet(S \cap Rows) /\ IsFiniteSet(S \cap proxied) /\ IsFiniteSet(S \cap full)
         /\ IsFiniteSet(Rows) /\ IsFiniteSet(proxied) /\ IsFiniteSet(full)
<1>1. Rows \subseteq Photo /\ proxied \subseteq Photo /\ full \subseteq Photo
  BY DEF Rows, TreeOK
<1>2. /\ IsFiniteSet(S \cap Rows) /\ IsFiniteSet(S \cap proxied) /\ IsFiniteSet(S \cap full)
      /\ IsFiniteSet(Photo \cap Rows) /\ IsFiniteSet(Photo \cap proxied)
      /\ IsFiniteSet(Photo \cap full)
      /\ IsFiniteSet(Rows) /\ IsFiniteSet(proxied) /\ IsFiniteSet(full)
  BY <1>1, FS_Subset
<1> QED
  BY <1>2, FS_CardinalityType DEF BytesOf, Stored

\* The new call of the request.
Into(r, c) == call' = [call EXCEPT ![r] = c]

LEMMA IntoTyped ==
  ASSUME CallsOK, NEW r \in Request, NEW c \in Calls, Into(r, c)
  PROVE  CallsOK' /\ call'[r] = c /\ \A q \in Request \ {r} : call'[q] = call[q]
  BY DEF CallsOK, Into

\* What a request begins with.
NewCall(r, c) ==
    /\ c.step \in {"create", "update"} =>
          \E f \in Folder, g \in Where : /\ CreateBegins(r, f, g) \/ UpdateBegins(r, f, g)
                                         /\ c.to = g /\ c.copy = parent
    /\ c.step = "finish" => \E p \in Photo : FinishBegins(r, p) /\ c.photo = p /\ c.seen = used
    /\ c.step = "direct" =>
          \E p \in Photo, g \in Where \cup {Other} : DirectBegins(r, p, g) /\ c.seen = used
    /\ c.step = "hung" => UpdateHangs(r)

LEMMA Simple ==
  ASSUME NEW r \in Request, NEW x \in {"done", "erase"}
  PROVE  [step |-> x] \in Calls /\ NewCall(r, [step |-> x])
  BY DEF Calls, NewCall

\* Requests that work on folders and photos.
LEMMA FolderStepCall ==
  ASSUME CallsOK, TreeOK, NEW r \in Request, FolderStep(r)
  PROVE  \E c \in Calls : Into(r, c) /\ NewCall(r, c)
<1>1. ASSUME NEW f \in Folder, NEW g \in Where, CreateBegins(r, f, g) \/ UpdateBegins(r, f, g)
      PROVE  \E c \in Calls : Into(r, c) /\ NewCall(r, c)
  <2>1. PICK x \in {"create", "update"} :
           Into(r, [step |-> x, folder |-> f, to |-> g, copy |-> parent])
    BY <1>1 DEF CreateBegins, UpdateBegins, Begins, Into
  <2> DEFINE c == [step |-> x, folder |-> f, to |-> g, copy |-> parent]
  <2>2. c \in FolderCalls
    BY <2>1 DEF FolderCalls, TreeOK
  <2>3. NewCall(r, c)
    BY <1>1, <2>1 DEF NewCall
  <2> QED
    BY <2>1, <2>2, <2>3, CallKinds
<1>2. CASE CreateCommits(r) \/ UpdateCommits(r)
  BY <1>2, Simple DEF CreateCommits, UpdateCommits, Answers, Becomes, Into
<1>3. CASE UpdateHangs(r)
  <2>1. [step |-> "hung"] \in Calls /\ NewCall(r, [step |-> "hung"])
    BY <1>3 DEF Calls, NewCall
  <2> QED
    BY <1>3, <2>1 DEF UpdateHangs, Becomes, Into
<1>4. ASSUME NEW f \in Folder, DropBegins(r, f)
      PROVE  \E c \in Calls : Into(r, c) /\ NewCall(r, c)
  <2> DEFINE c == [step |-> "last", folder |-> f, inside |-> PhotosIn({f}), ids |-> {}, bytes |-> 0]
  <2>1. c \in RowCalls
    BY DEF RowCalls, PhotosIn
  <2>2. NewCall(r, c)
    BY DEF NewCall
  <2> QED
    BY <1>4, <2>1, <2>2, CallKinds DEF DropBegins, Begins, Into
<1>5. ASSUME NEW f \in Folder, EmptyBegins(r, f)
      PROVE  \E c \in Calls : Into(r, c) /\ NewCall(r, c)
  <2> DEFINE c == [step |-> "empty", folder |-> f, inside |-> PhotosIn({f})]
  <2>1. c \in EmptyCalls
    BY DEF EmptyCalls, PhotosIn
  <2>2. NewCall(r, c)
    BY DEF NewCall
  <2> QED
    BY <1>5, <2>1, <2>2, CallKinds DEF EmptyBegins, Begins, Into
<1>6. CASE EmptyFinds(r)
  <2>1. call[r] \in EmptyCalls
    BY <1>6, CallFields DEF EmptyFinds
  <2>2. Found(call[r].folder) \in SUBSET Photo
    BY DEF Found, PhotosIn
  <2>3. BytesOf(Found(call[r].folder)) \in Nat
    BY <2>2, BytesTyped
  <2>4. PICK x \in {"last", "rows"} :
           Into(r, [step |-> x, folder |-> call[r].folder, inside |-> call[r].inside,
                    ids |-> Found(call[r].folder), bytes |-> BytesOf(Found(call[r].folder))])
    BY <1>6 DEF EmptyFinds, Becomes, Into
  <2> DEFINE c == [step |-> x, folder |-> call[r].folder, inside |-> call[r].inside,
                   ids |-> Found(call[r].folder), bytes |-> BytesOf(Found(call[r].folder))]
  <2>5. c \in RowCalls
    BY <2>1, <2>2, <2>3, <2>4 DEF RowCalls, EmptyCalls
  <2>6. NewCall(r, c)
    BY <2>4 DEF NewCall
  <2> QED
    BY <2>4, <2>5, <2>6, CallKinds
<1> QED
  BY <1>1, <1>2, <1>3, <1>4, <1>5, <1>6 DEF FolderStep

LEMMA PhotoStepCall ==
  ASSUME CallsOK, TreeOK, CounterOK, NEW r \in Request, PhotoStep(r)
  PROVE  \E c \in Calls : Into(r, c) /\ NewCall(r, c)
<1>1. ASSUME NEW p \in Photo, DeleteBegins(r, p)
      PROVE  \E c \in Calls : Into(r, c) /\ NewCall(r, c)
  <2> DEFINE c == [step |-> "rows", folder |-> None, inside |-> {}, ids |-> {p}, bytes |-> BytesOf({p})]
  <2>1. BytesOf({p}) \in Nat
    BY BytesTyped
  <2>2. c \in RowCalls
    BY <2>1 DEF RowCalls
  <2>3. NewCall(r, c)
    BY DEF NewCall
  <2> QED
    BY <1>1, <2>2, <2>3, CallKinds DEF DeleteBegins, Begins, Into
<1>2. ASSUME NEW p \in Photo, FinishBegins(r, p)
      PROVE  \E c \in Calls : Into(r, c) /\ NewCall(r, c)
  <2>1. CASE Into(r, [step |-> "done"])
    BY <2>1, Simple
  <2>2. CASE Into(r, [step |-> "finish", photo |-> p, seen |-> used])
    <3> DEFINE c == [step |-> "finish", photo |-> p, seen |-> used]
    <3>1. c \in FinishCalls
      BY DEF FinishCalls, CounterOK
    <3>2. NewCall(r, c)
      BY <1>2 DEF NewCall
    <3> QED
      BY <2>2, <3>1, <3>2, CallKinds
  <2> QED
    BY <1>2, <2>1, <2>2 DEF FinishBegins, Begins, Into
<1>3. CASE DeleteRows(r)
  <2>1. call[r] \in RowCalls
    BY <1>3, CallFields DEF DeleteRows
  <2> DEFINE c == [call[r] EXCEPT !.step = "last"]
  <2>2. c \in RowCalls /\ c.step = "last"
    BY <2>1 DEF RowCalls
  <2>3. Into(r, c)
    BY <1>3 DEF DeleteRows, Into
  <2> HIDE DEF c
  <2>4. NewCall(r, c)
    BY <2>2 DEF NewCall
  <2> QED
    BY <2>2, <2>3, <2>4, CallKinds
<1>4. CASE LastCommits(r) \/ FinishCommits(r) \/ FinishAnswers(r) \/ DirectCommits(r)
  BY <1>4, Simple DEF LastCommits, FinishCommits, FinishAnswers, DirectCommits, Answers, Becomes, Into
<1>5. ASSUME NEW p \in Photo, NEW g \in Where, Move(r, p, g)
      PROVE  \E c \in Calls : Into(r, c) /\ NewCall(r, c)
  BY <1>5, Simple DEF Move, Begins, Into
<1>6. ASSUME NEW p \in Photo, NEW g \in Where \cup {Other}, DirectBegins(r, p, g)
      PROVE  \E c \in Calls : Into(r, c) /\ NewCall(r, c)
  <2> DEFINE c == [step |-> "direct", photo |-> p, to |-> g, seen |-> used]
  <2>1. c \in DirectCalls
    BY DEF DirectCalls, CounterOK
  <2>2. NewCall(r, c)
    BY <1>6 DEF NewCall
  <2> QED
    BY <1>6, <2>1, <2>2, CallKinds DEF DirectBegins, Begins, Into
<1> QED
  BY <1>1, <1>2, <1>3, <1>4, <1>5, <1>6 DEF PhotoStep

LEMMA CounterStepCall ==
  ASSUME CallsOK, TreeOK, CounterOK, NEW r \in Request, ReportStep(r) \/ EraseStep(r)
  PROVE  \E c \in Calls : Into(r, c) /\ NewCall(r, c)
<1>0. Stored \in Nat
  BY BytesTyped
<1>1. CASE ReportBegins(r)
  <2> DEFINE c == [step |-> "report", seen |-> used]
  <2>1. c \in ReportCalls /\ NewCall(r, c)
    BY DEF ReportCalls, CounterOK, NewCall
  <2> QED
    BY <1>1, <2>1, CallKinds DEF ReportBegins, Begins, Into
<1>2. CASE ReportSums(r)
  <2> DEFINE c == [step |-> "write", seen |-> call[r].seen, sum |-> Stored]
  <2>1. call[r].seen \in Int
    BY <1>2, CallFields DEF ReportSums, ReportCalls
  <2>2. c \in WriteCalls /\ NewCall(r, c)
    BY <1>0, <2>1 DEF WriteCalls, NewCall
  <2> QED
    BY <1>2, <2>2, CallKinds DEF ReportSums, Becomes, Into
<1>3. CASE ReportWrites(r) \/ EraseSets(r)
  BY <1>3, Simple DEF ReportWrites, EraseSets, Answers, Becomes, Into
<1>4. CASE EraseBegins(r)
  BY <1>4, Simple DEF EraseBegins, Begins, Into
<1>5. CASE EraseCommits(r)
  <2> DEFINE c == [step |-> "sum", bytes |-> BytesOf(PhotosIn(Where)), sum |-> 0]
  <2>1. BytesOf(PhotosIn(Where)) \in Nat
    BY BytesTyped DEF PhotosIn
  <2>2. c \in SumCalls /\ NewCall(r, c)
    BY <2>1 DEF SumCalls, NewCall
  <2> QED
    BY <1>5, <2>2, CallKinds DEF EraseCommits, Becomes, Into
<1>6. CASE EraseSums(r)
  <2> DEFINE c == [step |-> "set", bytes |-> call[r].bytes, sum |-> Stored]
  <2>1. call[r].bytes \in Nat
    BY <1>6, CallFields DEF EraseSums, SumCalls
  <2>2. c \in SumCalls /\ NewCall(r, c)
    BY <1>0, <2>1 DEF SumCalls, NewCall
  <2> QED
    BY <1>6, <2>2, CallKinds DEF EraseSums, Becomes, Into
<1> QED
  BY <1>1, <1>2, <1>3, <1>4, <1>5, <1>6 DEF ReportStep, EraseStep

\* A step belongs to one request, which does not begin in the middle of its work.
LEMMA StepCall ==
  ASSUME CallsOK, TreeOK, CounterOK, NEW r \in Request, Step(r)
  PROVE  /\ CallsOK' /\ NewCall(r, call'[r])
         /\ \A q \in Request \ {r} : call'[q] = call[q]
<1>1. PICK c \in Calls : Into(r, c) /\ NewCall(r, c)
  <2>1. CASE Fails(r)
    BY <2>1, Simple DEF Fails, Answers, Becomes, Into
  <2> QED
    BY <2>1, FolderStepCall, PhotoStepCall, CounterStepCall DEF Step
<1> QED
  BY <1>1, IntoTyped

-----------------------------------------------------------------------------
(* Type correctness *)

LEMMA TreeKept ==
  ASSUME TreeOK, UploadsOK, CallsOK, NEW r \in Request, Step(r)
  PROVE  TreeOK'
<1>1. CASE CreateCommits(r) \/ UpdateCommits(r)
  <2>1. call[r] \in FolderCalls
    BY <1>1, CallFields DEF CreateCommits, UpdateCommits
  <2>2. parent' = [parent EXCEPT ![call[r].folder] = call[r].to] /\ UNCHANGED <<event, place, sizes>>
    BY <1>1 DEF CreateCommits, UpdateCommits, Placed
  <2> QED
    BY <2>1, <2>2 DEF TreeOK, FolderCalls, Trees, sizes
<1>2. CASE DeleteRows(r)
  BY <1>2 DEF DeleteRows, Forgets, TreeOK
<1>3. CASE LastCommits(r)
  <2>1. call[r] \in RowCalls /\ Unfiled(call[r]) \subseteq Rows /\ UNCHANGED <<event, sizes>>
    BY <1>3, CallFields DEF LastCommits
  <2>2. /\ parent' = [f \in Folder |-> IF f \in Doomed(call[r].folder) THEN Gone ELSE parent[f]]
        /\ place' = [p \in Photo |-> IF place[p] \in Doomed(call[r].folder) \/ p \in Unfiled(call[r])
                                     THEN Root ELSE place[p]]
    BY <1>3 DEF LastCommits
  <2>3. parent' \in Trees
    BY <2>2 DEF TreeOK, Trees
  <2>4. place' \in [Photo -> Where \cup {Other, None}]
    BY <2>2 DEF TreeOK, Where
  <2> QED
    BY <2>1, <2>2, <2>3, <2>4 DEF TreeOK, sizes, Rows, Where
<1>4. ASSUME NEW p \in Photo, NEW g \in Where, Move(r, p, g)
      PROVE  TreeOK'
  BY <1>4 DEF Move, TreeOK, Rows, Where, sizes
<1>5. CASE FinishCommits(r) \/ DirectCommits(r)
  BY <1>5, CallFields DEF FinishCommits, DirectCommits, FinishCalls, DirectCalls, Inserts, TreeOK, UploadsOK,
     sizes
<1>6. CASE EraseCommits(r)
  BY <1>6 DEF EraseCommits, Forgets, TreeOK, Trees
<1>7. CASE UNCHANGED tree
  BY <1>7 DEF tree, sizes, TreeOK
<1> QED
  BY <1>1, <1>2, <1>3, <1>4, <1>5, <1>6, <1>7 DEF Step, FolderStep, PhotoStep, ReportStep, EraseStep, Fails,
     CreateBegins, UpdateBegins, UpdateHangs, DropBegins, EmptyBegins, EmptyFinds, DeleteBegins,
     FinishBegins, DirectBegins, FinishAnswers, ReportBegins, ReportSums, ReportWrites, EraseBegins, EraseSums, EraseSets

LEMMA UploadsKept ==
  ASSUME UploadsOK, CallsOK, NEW r \in Request, Step(r)
  PROVE  UploadsOK' /\ sent' = sent /\ told \subseteq told'
<1>1. CASE FinishCommits(r) \/ FinishAnswers(r)
  BY <1>1, CallFields DEF FinishCommits, FinishAnswers, FinishCalls, UploadsOK
<1>2. ASSUME NEW p \in Photo, FinishBegins(r, p)
      PROVE  UploadsOK' /\ sent' = sent /\ told \subseteq told'
  BY <1>2 DEF FinishBegins, UploadsOK
<1>3. CASE UNCHANGED uploads
  BY <1>3 DEF uploads, UploadsOK
<1> QED
  BY <1>1, <1>2, <1>3 DEF Step, FolderStep, PhotoStep, ReportStep, EraseStep, Fails, CreateBegins, UpdateBegins,
     CreateCommits, UpdateCommits, UpdateHangs, DropBegins, EmptyBegins, EmptyFinds, DeleteBegins, DeleteRows,
     LastCommits, Move, DirectBegins, DirectCommits, ReportBegins, ReportSums, ReportWrites, EraseBegins,
     EraseCommits, EraseSums, EraseSets

LEMMA ChecksKept ==
  ASSUME ChecksOK, TreeOK, CallsOK, NEW r \in Request, Step(r)
  PROVE  ChecksOK' /\ (tangled => tangled') /\ kept \subseteq kept'
<1>1. CASE CreateCommits(r)
  BY <1>1 DEF CreateCommits, ChecksOK
<1>2. CASE UpdateCommits(r)
  BY <1>2 DEF UpdateCommits, ChecksOK, Below, Live
<1>3. CASE LastCommits(r) \/ EraseCommits(r)
  BY <1>3 DEF LastCommits, EraseCommits, ChecksOK
<1>4. CASE FinishCommits(r) \/ DirectCommits(r)
  BY <1>4, CallFields DEF FinishCommits, DirectCommits, FinishCalls, DirectCalls, Inserts, checks, ChecksOK
<1>5. CASE UNCHANGED <<checks, kept>>
  BY <1>5 DEF checks, ChecksOK
<1> QED
  BY <1>1, <1>2, <1>3, <1>4, <1>5 DEF Step, FolderStep, PhotoStep, ReportStep, EraseStep, Fails, CreateBegins,
     UpdateBegins, UpdateHangs, DropBegins, EmptyBegins, EmptyFinds, DeleteBegins, DeleteRows, FinishBegins,
     FinishAnswers, Move, DirectBegins, ReportBegins, ReportSums, ReportWrites, EraseBegins, EraseSums, EraseSets

LEMMA CounterKept ==
  ASSUME CounterOK, TreeOK, CallsOK, NEW r \in Request, Step(r)
  PROVE  CounterOK'
<1>0. grew \subseteq Photo /\ Grown \subseteq Photo
  BY DEF CounterOK, Grown, Admitted
<1>1. CASE DeleteRows(r)
  BY <1>1, CallFields DEF DeleteRows, RowCalls, CounterOK
<1>2. CASE LastCommits(r)
  BY <1>2, CallFields DEF LastCommits, RowCalls, CounterOK
<1>3. CASE FinishCommits(r) \/ DirectCommits(r)
  <2>1. call[r].seen \in Int
    BY <1>3, CallFields DEF FinishCommits, DirectCommits, FinishCalls, DirectCalls
  <2>2. /\ used' = call[r].seen + 1 /\ raced' \in BOOLEAN /\ UNCHANGED <<debt, owed>>
        /\ grew' = Grown
    BY <1>3 DEF FinishCommits, DirectCommits, Inserts, CounterOK
  <2> QED
    BY <1>0, <2>1, <2>2 DEF CounterOK
<1>4. CASE ReportWrites(r)
  BY <1>0, <1>4, CallFields DEF ReportWrites, WriteCalls, CounterOK
<1>5. CASE EraseCommits(r)
  <2>1. BytesOf(PhotosIn(Where)) \in Nat
    BY BytesTyped DEF PhotosIn
  <2> QED
    BY <1>5, <2>1 DEF EraseCommits, CounterOK
<1>6. CASE EraseSets(r)
  BY <1>0, <1>6, CallFields DEF EraseSets, SumCalls, CounterOK
<1>7. CASE Fails(r)
  <2>1. call[r].step \in {"last", "sum", "set"} => call[r].bytes \in Nat
    BY CallFields DEF RowCalls, SumCalls
  <2> QED
    BY <1>7, <2>1 DEF Fails, CounterOK
<1>8. CASE UNCHANGED counter
  BY <1>8 DEF counter, CounterOK
<1> QED
  BY <1>1, <1>2, <1>3, <1>4, <1>5, <1>6, <1>7, <1>8 DEF Step, FolderStep, PhotoStep, ReportStep, EraseStep,
     CreateBegins, UpdateBegins, CreateCommits, UpdateCommits, UpdateHangs, DropBegins, EmptyBegins, EmptyFinds,
     DeleteBegins, FinishBegins, FinishAnswers, Move, DirectBegins, ReportBegins, ReportSums, EraseBegins, EraseSums

LEMMA InitTyped == Init => TypeOK
<1> SUFFICES ASSUME Init PROVE TypeOK
  OBVIOUS
<1>1. TreeOK
  BY DEF Init, TreeOK, Trees, Where, Live, Rows
<1>2. UploadsOK /\ ChecksOK /\ call \in [Request -> Calls]
  BY DEF Init, UploadsOK, ChecksOK, Calls, Rows
<1>3. CounterOK
  <2>1. {} \in SUBSET Photo
    OBVIOUS
  <2>2. Stored \in Nat
    BY <1>1, <2>1, BytesTyped
  <2>3. used = Stored /\ debt = 0 /\ owed = 0 /\ raced = FALSE /\ grew = {}
    BY DEF Init
  <2>4. used \in Int /\ debt \in Int /\ owed \in Int
    BY <2>2, <2>3
  <2>5. raced \in BOOLEAN /\ grew \subseteq Photo
    BY <2>3, Zenon
  <2> QED
    BY <2>4, <2>5 DEF CounterOK
<1> QED
  BY <1>1, <1>2, <1>3 DEF TypeOK

LEMMA NextTyped == TypeOK /\ [Next]_vars => TypeOK'
<1> SUFFICES ASSUME TypeOK, [Next]_vars PROVE TypeOK'
  OBVIOUS
<1> USE DEF TypeOK
<1>1. ASSUME NEW r \in Request, Step(r) PROVE TypeOK'
  BY <1>1, TreeKept, UploadsKept, StepCall, ChecksKept, CounterKept DEF CallsOK
<1>2. ASSUME NEW p \in Photo, Renders(p) PROVE TypeOK'
  BY <1>2 DEF Renders, uploads, checks, TreeOK, UploadsOK, ChecksOK, CounterOK, Rows
<1>5. ASSUME NEW ids \in SUBSET Photo, Archives(ids) PROVE TypeOK'
  <2>1. IsFiniteSet(ids) /\ Cardinality(ids) \in Nat
    BY FS_Subset, FS_CardinalityType
  <2> QED
    BY <1>5, <2>1 DEF Archives, uploads, checks, TreeOK, UploadsOK, ChecksOK, CounterOK
<1>3. ASSUME NEW p \in Photo, NEW g \in Where \cup {Other}, PreCreate(p, g) PROVE TypeOK'
  BY <1>3 DEF PreCreate, tree, sizes, checks, counter, TreeOK, UploadsOK, ChecksOK, CounterOK
<1>4. CASE UNCHANGED vars
  BY <1>4 DEF vars, tree, sizes, uploads, checks, counter, TreeOK, UploadsOK, ChecksOK, CounterOK
<1> QED
  BY <1>1, <1>2, <1>3, <1>4, <1>5, NextCases

\* The tree, the photos filed in it, the counter and what every request is at keep their types.
THEOREM LibraryTypeCorrect == Spec => []TypeOK
<1> QED
  BY InitTyped, NextTyped, PTL DEF Spec

-----------------------------------------------------------------------------
(* The counter *)

LEMMA StoredSum ==
  ASSUME TreeOK
  PROVE  /\ Stored = Cardinality(Rows) + Cardinality(proxied) + Cardinality(full)
         /\ Cardinality(Rows) \in Nat /\ Cardinality(proxied) \in Nat /\ Cardinality(full) \in Nat
<1>1. Photo \cap Rows = Rows /\ Photo \cap proxied = proxied /\ Photo \cap full = full
  BY DEF Rows, TreeOK
<1>2. IsFiniteSet(Rows) /\ IsFiniteSet(proxied) /\ IsFiniteSet(full)
  BY BytesTyped
<1> QED
  BY <1>1, <1>2, FS_CardinalityType DEF Stored, BytesOf

LEMMA StoredSumNext ==
  ASSUME TreeOK'
  PROVE  Stored' = Cardinality(Rows') + Cardinality(proxied') + Cardinality(full')
<1>1. Photo \cap Rows' = Rows' /\ Photo \cap proxied' = proxied' /\ Photo \cap full' = full'
  BY DEF Rows, TreeOK
<1> QED
  BY <1>1 DEF Stored, BytesOf

LEMMA StoredSame ==
  ASSUME TreeOK, TreeOK', Rows' = Rows, UNCHANGED sizes
  PROVE  Stored' = Stored
<1>1. Stored' = Cardinality(Rows') + Cardinality(proxied') + Cardinality(full')
  BY StoredSumNext
<1> QED
  BY <1>1, StoredSum DEF sizes

\* A set without some of its members.
LEMMA CardLess ==
  ASSUME NEW T, IsFiniteSet(T), NEW S
  PROVE  /\ Cardinality(T \ S) = Cardinality(T) - Cardinality(S \cap T)
         /\ Cardinality(S \cap T) \in Nat
<1>1. T \cap S = S \cap T
  OBVIOUS
<1>2. Cardinality(T \ S) = Cardinality(T) - Cardinality(T \cap S)
  BY FS_Difference
<1>3. IsFiniteSet(S \cap T)
  BY FS_Subset
<1> QED
  BY <1>1, <1>2, <1>3, FS_CardinalityType

\* What is stored becomes less by what was stored of the deleted photos.
LEMMA StoredLess ==
  ASSUME TreeOK, TreeOK', NEW S \in SUBSET Photo, Rows' = Rows \ S, Forgets(S)
  PROVE  Stored' = Stored - BytesOf(S)
<1>1. Stored' = Cardinality(Rows \ S) + Cardinality(proxied \ S) + Cardinality(full \ S)
  <2>1. Stored' = Cardinality(Rows') + Cardinality(proxied') + Cardinality(full')
    BY StoredSumNext
  <2> QED
    BY <2>1 DEF Forgets
<1>2. IsFiniteSet(Rows) /\ IsFiniteSet(proxied) /\ IsFiniteSet(full)
  BY BytesTyped
<1>3. /\ Cardinality(Rows \ S) = Cardinality(Rows) - Cardinality(S \cap Rows)
      /\ Cardinality(proxied \ S) = Cardinality(proxied) - Cardinality(S \cap proxied)
      /\ Cardinality(full \ S) = Cardinality(full) - Cardinality(S \cap full)
      /\ Cardinality(S \cap Rows) \in Nat /\ Cardinality(S \cap proxied) \in Nat
      /\ Cardinality(S \cap full) \in Nat
  BY <1>2, CardLess
<1> QED
  BY <1>1, <1>3, StoredSum DEF BytesOf

\* A photo more is an original more, and what is recorded of a rendition adds to it.
LEMMA StoredMore ==
  ASSUME TreeOK, TreeOK', NEW p \in Photo
  PROVE  /\ p \notin Rows /\ Rows' = Rows \cup {p} /\ UNCHANGED sizes => Stored' = Stored + 1
         /\ p \notin full /\ Rows' = Rows /\ proxied' = proxied \cup {p} /\ full' = full \cup {p}
               => Stored' = Stored + (IF p \in proxied THEN 1 ELSE 2)
<1>1. Stored' = Cardinality(Rows') + Cardinality(proxied') + Cardinality(full')
  BY StoredSumNext
<1>2. IsFiniteSet(Rows) /\ IsFiniteSet(proxied) /\ IsFiniteSet(full)
  BY BytesTyped
<1>3. /\ p \notin Rows => Cardinality(Rows \cup {p}) = Cardinality(Rows) + 1
      /\ p \notin full => Cardinality(full \cup {p}) = Cardinality(full) + 1
      /\ p \notin proxied => Cardinality(proxied \cup {p}) = Cardinality(proxied) + 1
      /\ p \in proxied => proxied \cup {p} = proxied
  BY <1>2, FS_AddElement
<1>4. ASSUME p \notin full, Rows' = Rows, proxied' = proxied \cup {p}, full' = full \cup {p}
      PROVE  Stored' = Stored + (IF p \in proxied THEN 1 ELSE 2)
  <2>1. /\ Cardinality(Rows') = Cardinality(Rows)
        /\ Cardinality(full') = Cardinality(full) + 1
    BY <1>3, <1>4
  <2>2. CASE p \in proxied
    <3>1. Cardinality(proxied') = Cardinality(proxied)
      BY <1>3, <1>4, <2>2
    <3> QED
      BY <1>1, <2>1, <2>2, <3>1, StoredSum
  <2>3. CASE p \notin proxied
    <3>1. Cardinality(proxied') = Cardinality(proxied) + 1
      BY <1>3, <1>4, <2>3
    <3> QED
      BY <1>1, <2>1, <2>3, <3>1, StoredSum
  <2> QED
    BY <2>2, <2>3
<1>5. ASSUME p \notin Rows, Rows' = Rows \cup {p}, UNCHANGED sizes
      PROVE  Stored' = Stored + 1
  <2>1. /\ Cardinality(Rows') = Cardinality(Rows) + 1
        /\ Cardinality(full') = Cardinality(full) /\ Cardinality(proxied') = Cardinality(proxied)
    BY <1>3, <1>5 DEF sizes
  <2> QED
    BY <1>1, <2>1, StoredSum
<1> QED
  BY <1>4, <1>5

\* An archival takes away what is recorded of the small renditions.
LEMMA StoredArchived ==
  ASSUME TreeOK, TreeOK', NEW ids \in SUBSET Photo, Archives(ids)
  PROVE  Stored' = Stored - Cardinality(ids) /\ Cardinality(ids) \in Nat
<1>1. Rows' = Rows /\ proxied' = proxied /\ full' = full \ ids /\ ids \cap full = ids
  BY DEF Archives, Rows
<1>2. IsFiniteSet(full)
  BY BytesTyped
<1>3. Cardinality(full') = Cardinality(full) - Cardinality(ids) /\ Cardinality(ids) \in Nat
  <2>1. /\ Cardinality(full \ ids) = Cardinality(full) - Cardinality(ids \cap full)
        /\ Cardinality(ids \cap full) \in Nat
    BY <1>2, CardLess
  <2> QED
    BY <1>1, <2>1
<1> QED
  BY <1>1, <1>3, StoredSum, StoredSumNext

LEMMA InsertsRow ==
  ASSUME TreeOK, NEW p \in Photo, NEW g, NEW seen, Inserts(p, g, seen)
  PROVE  p \notin Rows /\ Rows' = Rows \cup {p} /\ g # None
<1>1. g # None
  BY DEF Inserts, Valid, Live, Where
<1> QED
  BY <1>1 DEF Inserts, Rows, TreeOK

LEMMA CounterExplainedKept == TypeOK /\ CounterExplained /\ [Next]_vars => CounterExplained'
<1> SUFFICES ASSUME TypeOK, CounterExplained, [Next]_vars PROVE CounterExplained'
  OBVIOUS
<1>0. TreeOK /\ TreeOK' /\ CallsOK /\ CounterOK /\ UploadsOK
  BY NextTyped DEF TypeOK, CallsOK
<1>a. Stored \in Nat /\ \A S \in SUBSET Photo : BytesOf(S) \in Nat
  <2>1. {} \in SUBSET Photo
    OBVIOUS
  <2> QED
    BY <1>0, <2>1, BytesTyped
<1>b. used \in Int /\ debt \in Int /\ owed \in Int
  BY <1>0 DEF CounterOK
<1>1. ASSUME Rows' = Rows, UNCHANGED <<sizes, used, debt, owed, raced>> PROVE CounterExplained'
  BY <1>0, <1>1, StoredSame DEF CounterExplained
<1>2. ASSUME NEW r \in Request, DeleteRows(r) PROVE CounterExplained'
  <2>1. PICK S \in SUBSET Photo : S = call[r].ids
    BY <1>0, <1>2, CallFields DEF DeleteRows, RowCalls
  <2>2. PICK n \in Nat : n = call[r].bytes
    BY <1>0, <1>2, CallFields DEF DeleteRows, RowCalls
  <2>3. /\ place' = [p \in Photo |-> IF p \in S THEN None ELSE place[p]] /\ Forgets(S)
        /\ (raced \/ BytesOf(S) # n => raced') /\ owed' = owed + n /\ UNCHANGED <<used, debt>>
    BY <1>2, <2>1, <2>2 DEF DeleteRows
  <2>4. Rows' = Rows \ S
    BY <2>3 DEF Rows
  <2>5. Stored' = Stored - BytesOf(S)
    BY <1>0, <2>3, <2>4, StoredLess
  <2>6. ~raced' => used + debt = Stored + owed /\ BytesOf(S) = n
    BY <2>3 DEF CounterExplained
  <2>7. ~raced' => used' + debt' = Stored' + owed'
    BY <1>a, <1>b, <2>3, <2>5, <2>6
  <2> QED
    BY <2>7 DEF CounterExplained
<1>3. ASSUME NEW r \in Request, LastCommits(r) PROVE CounterExplained'
  <2>1. PICK n \in Nat : n = call[r].bytes
    BY <1>0, <1>3, CallFields DEF LastCommits, RowCalls
  <2>2. /\ used' = used - n /\ owed' = owed - n /\ UNCHANGED <<sizes, debt, raced>>
        /\ Unfiled(call[r]) \subseteq Rows
        /\ place' = [p \in Photo |-> IF place[p] \in Doomed(call[r].folder) \/ p \in Unfiled(call[r])
                                     THEN Root ELSE place[p]]
    BY <1>3, <2>1 DEF LastCommits
  <2>3. Doomed(call[r].folder) \subseteq Folder
    BY DEF Doomed, Below, Live
  <2>4. Rows' = Rows
    BY <2>2, <2>3 DEF Rows
  <2>5. Stored' = Stored
    BY <1>0, <2>2, <2>4, StoredSame
  <2> QED
    BY <1>a, <1>b, <2>1, <2>2, <2>5 DEF CounterExplained
<1>4. ASSUME NEW r \in Request, FinishCommits(r) \/ DirectCommits(r) PROVE CounterExplained'
  <2>1. PICK p \in Photo, n \in Int : p = call[r].photo /\ n = call[r].seen
    BY <1>0, <1>4, CallFields DEF FinishCommits, DirectCommits, FinishCalls, DirectCalls
  <2>2. (\E g : Inserts(p, g, n)) /\ UNCHANGED <<sizes, debt, owed>>
    BY <1>4, <2>1 DEF FinishCommits, DirectCommits
  <2>3. used' = n + 1 /\ (raced \/ n # used => raced')
    BY <2>2 DEF Inserts
  <2>4. Stored' = Stored + 1
    BY <1>0, <2>2, InsertsRow, StoredMore
  <2> QED
    BY <1>a, <1>b, <2>1, <2>2, <2>3, <2>4 DEF CounterExplained
<1>5. ASSUME NEW p \in Photo, Renders(p) PROVE CounterExplained'
  <2>1. /\ p \notin full /\ proxied' = proxied \cup {p} /\ full' = full \cup {p}
        /\ debt' = debt + (IF p \in proxied THEN 1 ELSE 2)
        /\ UNCHANGED <<place, used, owed, raced>>
    BY <1>5 DEF Renders
  <2>2. Rows' = Rows
    BY <2>1 DEF Rows
  <2>3. Stored' = Stored + (IF p \in proxied THEN 1 ELSE 2)
    BY <1>0, <2>1, <2>2, StoredMore
  <2> QED
    BY <1>a, <1>b, <2>1, <2>3 DEF CounterExplained
<1>13. ASSUME NEW ids \in SUBSET Photo, Archives(ids) PROVE CounterExplained'
  <2>1. debt' = debt - Cardinality(ids) /\ UNCHANGED <<used, owed, raced>>
    BY <1>13 DEF Archives
  <2>2. Stored' = Stored - Cardinality(ids) /\ Cardinality(ids) \in Nat
    BY <1>0, <1>13, StoredArchived
  <2> QED
    BY <1>a, <1>b, <2>1, <2>2 DEF CounterExplained
<1>6. ASSUME NEW r \in Request, ReportWrites(r) PROVE CounterExplained'
  <2>1. PICK n \in Int, m \in Nat : n = call[r].seen /\ m = call[r].sum
    BY <1>0, <1>6, CallFields DEF ReportWrites, WriteCalls
  <2>2. /\ used' = IF m # n THEN m ELSE used
        /\ (n # used \/ m # Stored \/ owed # 0 => raced')
        /\ debt' = 0 /\ owed' = owed /\ UNCHANGED tree
    BY <1>6, <2>1 DEF ReportWrites
  <2>3. Stored' = Stored
    BY <1>0, <2>2, StoredSame DEF tree, Rows
  <2> QED
    BY <1>a, <1>b, <2>1, <2>2, <2>3 DEF CounterExplained
<1>7. ASSUME NEW r \in Request, EraseCommits(r) PROVE CounterExplained'
  <2>1. PICK S \in SUBSET Photo : S = PhotosIn(Where)
    BY DEF PhotosIn
  <2>2. /\ place' = [p \in Photo |-> IF p \in S THEN None ELSE place[p]] /\ Forgets(S)
        /\ owed' = owed + BytesOf(S) /\ UNCHANGED <<used, debt, raced>>
    BY <1>7, <2>1 DEF EraseCommits
  <2>3. Rows' = Rows \ S
    BY <2>2 DEF Rows
  <2>4. Stored' = Stored - BytesOf(S)
    BY <1>0, <2>2, <2>3, StoredLess
  <2> QED
    BY <1>a, <1>b, <2>2, <2>4 DEF CounterExplained
<1>8. ASSUME NEW r \in Request, EraseSets(r) PROVE CounterExplained'
  <2>1. PICK n \in Nat, m \in Nat : n = call[r].bytes /\ m = call[r].sum
    BY <1>0, <1>8, CallFields DEF EraseSets, SumCalls
  <2>2. /\ used' = m /\ debt' = 0 /\ owed' = owed - n
        /\ (m # Stored \/ owed' # 0 => raced') /\ UNCHANGED tree
    BY <1>8, <2>1 DEF EraseSets
  <2>3. Stored' = Stored
    BY <1>0, <2>2, StoredSame DEF tree, Rows
  <2> QED
    BY <1>a, <1>b, <2>1, <2>2, <2>3 DEF CounterExplained
<1>9. ASSUME NEW r \in Request, Fails(r) PROVE CounterExplained'
  <2>0. Stored' = Stored
    BY <1>0, <1>9, StoredSame DEF Fails, tree, Rows
  <2>1. CASE call[r].step \in {"last", "sum", "set"}
    <3>1. PICK n \in Nat : n = call[r].bytes
      BY <1>0, <2>1, CallFields DEF RowCalls, SumCalls
    <3>2. (raced \/ n # 0 => raced') /\ owed' = owed - n /\ UNCHANGED <<used, debt>>
      BY <1>9, <2>1, <3>1 DEF Fails
    <3>3. ~raced' => used + debt = Stored + owed /\ n = 0
      BY <3>2 DEF CounterExplained
    <3>4. ~raced' => used' + debt' = Stored' + owed'
      BY <1>a, <1>b, <2>0, <3>2, <3>3
    <3> QED
      BY <3>4 DEF CounterExplained
  <2>2. CASE call[r].step \notin {"last", "sum", "set"}
    <3>1. (raced => raced') /\ owed' = owed /\ UNCHANGED <<used, debt>>
      BY <1>9, <2>2 DEF Fails
    <3> QED
      BY <2>0, <3>1 DEF CounterExplained
  <2> QED
    BY <2>1, <2>2
<1>10. ASSUME NEW r \in Request, NEW p \in Photo, NEW g \in Where, Move(r, p, g) PROVE CounterExplained'
  <2>1. Rows' = Rows
    BY <1>0, <1>10 DEF Move, Rows, TreeOK, Where
  <2> QED
    BY <1>1, <1>10, <2>1 DEF Move, counter
<1>11. ASSUME NEW r \in Request, Step(r), ~DeleteRows(r), ~LastCommits(r), ~FinishCommits(r), ~DirectCommits(r),
              ~ReportWrites(r), ~EraseCommits(r), ~EraseSets(r), ~Fails(r),
              \A p \in Photo, g \in Where : ~Move(r, p, g)
       PROVE  CounterExplained'
  <2>1. UNCHANGED <<place, sizes, used, debt, owed, raced>>
    BY <1>11 DEF Step, FolderStep, PhotoStep, ReportStep, EraseStep, tree, counter,
       CreateBegins, UpdateBegins, CreateCommits, UpdateCommits, UpdateHangs, DropBegins, EmptyBegins, EmptyFinds,
       DeleteBegins, FinishBegins, FinishAnswers, DirectBegins, ReportBegins, ReportSums, EraseBegins, EraseSums
  <2> QED
    BY <1>1, <2>1 DEF Rows
<1>12. CASE (\E p \in Photo, g \in Where \cup {Other} : PreCreate(p, g)) \/ UNCHANGED vars
  BY <1>1, <1>12 DEF PreCreate, vars, tree, counter, Rows
<1> QED
  BY <1>2, <1>3, <1>4, <1>5, <1>6, <1>7, <1>8, <1>9, <1>10, <1>11, <1>12, <1>13, NextCases

\* The counter is the bytes that the rows record, but for the renditions recorded and those dropped
\* by an archival since it was last set right, and with those of the deleted rows that are still to
\* be subtracted, unless it was written from outdated values, or a deletion failed half way
\* (photo_service.py:113, archival_service.py:94 and :192).
THEOREM CounterIsExplained == Spec => []CounterExplained
<1>1. Init => CounterExplained
  <2> SUFFICES ASSUME Init PROVE CounterExplained
    OBVIOUS
  <2>1. used = Stored /\ debt = 0 /\ owed = 0
    BY DEF Init
  <2> QED
    BY <2>1 DEF CounterExplained
<1> QED
  BY <1>1, InitTyped, NextTyped, CounterExplainedKept, PTL DEF Spec

-----------------------------------------------------------------------------
(* Accepted uploads *)

\* What was a folder does not become none again, and what is gone stays gone.
FoldersLast ==
    \A f \in Folder : /\ parent[f] # None => parent'[f] # None
                      /\ parent[f] = Gone => parent'[f] = Gone

LEMMA StepLasts ==
  ASSUME TypeOK, [Next]_vars
  PROVE  FoldersLast
<1>0. TreeOK /\ CallsOK
  BY DEF TypeOK, CallsOK
<1>1. CASE UNCHANGED parent
  BY <1>1 DEF FoldersLast
<1>2. ASSUME NEW r \in Request, CreateCommits(r) \/ UpdateCommits(r) PROVE FoldersLast
  <2>1. call[r].folder \in Folder /\ call[r].to \in Where
    BY <1>0, <1>2, CallFields DEF CreateCommits, UpdateCommits, FolderCalls
  <2>2. parent' = [parent EXCEPT ![call[r].folder] = call[r].to] /\ parent[call[r].folder] \in Where \cup {None}
    BY <1>2 DEF CreateCommits, UpdateCommits, Placed, Live
  <2> QED
    BY <1>0, <2>1, <2>2 DEF FoldersLast, Where, TreeOK, Trees
<1>3. ASSUME NEW r \in Request, LastCommits(r) PROVE FoldersLast
  BY <1>3 DEF LastCommits, FoldersLast
<1>4. ASSUME NEW r \in Request, EraseCommits(r) PROVE FoldersLast
  BY <1>4 DEF EraseCommits, FoldersLast
<1>5. ASSUME NEW r \in Request, Step(r), ~CreateCommits(r), ~UpdateCommits(r), ~LastCommits(r), ~EraseCommits(r)
      PROVE  UNCHANGED parent
  BY <1>5 DEF Step, FolderStep, PhotoStep, ReportStep, EraseStep, Fails, tree, CreateBegins, UpdateBegins,
     UpdateHangs, DropBegins, EmptyBegins, EmptyFinds, DeleteBegins, DeleteRows, FinishBegins, FinishCommits,
     FinishAnswers, Move, DirectBegins, DirectCommits, ReportBegins, ReportSums, ReportWrites, EraseBegins,
     EraseSums, EraseSets
<1> QED
  BY <1>1, <1>2, <1>3, <1>4, <1>5, NextCases DEF Renders, Archives, PreCreate, vars, tree

\* Photos without a row get one only where they are inserted.
LEMMA RowsInserted ==
  ASSUME TypeOK, NEW r \in Request, Step(r)
  PROVE  \A p \in Photo : place[p] = None /\ place'[p] # None =>
            /\ FinishCommits(r) \/ DirectCommits(r)
            /\ p = call[r].photo
<1>0. TreeOK /\ TreeOK' /\ CallsOK
  BY TreeKept DEF TypeOK, CallsOK
<1>1. CASE FinishCommits(r) \/ DirectCommits(r)
  <2>1. PICK q \in Photo : q = call[r].photo
    BY <1>0, <1>1, CallFields DEF FinishCommits, DirectCommits, FinishCalls, DirectCalls
  <2>2. \E g : place' = [place EXCEPT ![q] = g]
    BY <1>1, <2>1 DEF FinishCommits, DirectCommits, Inserts
  <2> QED
    BY <1>0, <1>1, <2>1, <2>2 DEF TreeOK
<1>2. CASE LastCommits(r)
  <2>1. /\ place' = [p \in Photo |-> IF place[p] \in Doomed(call[r].folder) \/ p \in Unfiled(call[r])
                                     THEN Root ELSE place[p]]
        /\ Unfiled(call[r]) \subseteq Rows
    BY <1>2 DEF LastCommits
  <2>2. Doomed(call[r].folder) \subseteq Folder
    BY DEF Doomed, Below, Live
  <2> QED
    BY <2>1, <2>2 DEF Rows
<1>3. CASE DeleteRows(r)
  BY <1>3 DEF DeleteRows
<1>4. CASE EraseCommits(r)
  BY <1>4 DEF EraseCommits
<1>5. ASSUME NEW p \in Photo, NEW g \in Where, Move(r, p, g)
      PROVE  \A q \in Photo : place[q] = None => place'[q] = None
  BY <1>0, <1>5 DEF Move, Rows, TreeOK
<1>6. CASE UNCHANGED place
  BY <1>6
<1>7. ASSUME Step(r), ~LastCommits(r), ~DeleteRows(r), ~EraseCommits(r), ~FinishCommits(r), ~DirectCommits(r),
             \A p \in Photo, g \in Where : ~Move(r, p, g)
      PROVE  UNCHANGED place
  BY <1>7 DEF Step, FolderStep, PhotoStep, ReportStep, EraseStep, Fails, tree, CreateBegins, UpdateBegins,
     CreateCommits, UpdateCommits, UpdateHangs, DropBegins, EmptyBegins, EmptyFinds, DeleteBegins, FinishBegins,
     FinishAnswers, DirectBegins, ReportBegins, ReportSums, ReportWrites, EraseBegins, EraseSums, EraseSets
<1> QED
  BY <1>1, <1>2, <1>3, <1>4, <1>5, <1>6, <1>7

LEMMA ToldStep ==
  ASSUME TypeOK, KeptInv, NEW r \in Request, Step(r)
  PROVE  \A p \in told' \ told : p \in kept' \/ (sent[p] \in Folder /\ parent[sent[p]] = Gone)
<1>0. TreeOK /\ CallsOK /\ UploadsOK
  BY DEF TypeOK, CallsOK
<1>1. CASE FinishCommits(r)
  BY <1>1 DEF FinishCommits, Inserts
<1>2. CASE FinishAnswers(r)
  <2>1. PICK p \in Photo : p = call[r].photo
    BY <1>0, <1>2, CallFields DEF FinishAnswers, FinishCalls
  <2>2. /\ told' = told \cup {p} /\ kept' = kept
        /\ place[p] # None \/ (event /\ sent[p] \notin Valid)
    BY <1>2, <2>1 DEF FinishAnswers
  <2>3. CASE place[p] # None
    BY <2>2, <2>3 DEF KeptInv, Rows
  <2>4. CASE event /\ sent[p] \notin Valid
    <3>1. sent[p] \in Where \cup {Other} /\ sent[p] \notin Live \cup {Root, Other}
      BY <1>0, <1>2, <2>1, <2>4 DEF FinishAnswers, KeptInv, UploadsOK, Valid
    <3>2. sent[p] \in Folder /\ parent[sent[p]] \notin Where /\ parent[sent[p]] # None
      BY <3>1 DEF Where, Live, KeptInv
    <3>3. parent[sent[p]] = Gone
      BY <1>0, <3>2 DEF TreeOK, Trees
    <3> QED
      BY <2>2, <3>2, <3>3
  <2> QED
    BY <2>2, <2>3, <2>4
<1>3. ASSUME NEW p \in Photo, FinishBegins(r, p)
      PROVE  \A q \in told' \ told : q \in kept'
  BY <1>3 DEF FinishBegins, KeptInv, Rows
<1>4. ASSUME ~FinishCommits(r), ~FinishAnswers(r), \A p \in Photo : ~FinishBegins(r, p)
      PROVE  told' = told
  BY <1>4 DEF Step, FolderStep, PhotoStep, ReportStep, EraseStep, Fails, uploads, CreateBegins, UpdateBegins,
     CreateCommits, UpdateCommits, UpdateHangs, DropBegins, EmptyBegins, EmptyFinds, DeleteBegins, DeleteRows,
     LastCommits, Move, DirectBegins, DirectCommits, ReportBegins, ReportSums, ReportWrites, EraseBegins,
     EraseCommits, EraseSums, EraseSets
<1> QED
  BY <1>1, <1>2, <1>3, <1>4

LEMMA KeptKept == TypeOK /\ KeptInv /\ [Next]_vars => KeptInv'
<1> SUFFICES ASSUME TypeOK, KeptInv, [Next]_vars PROVE KeptInv'
  OBVIOUS
<1>0. TreeOK /\ TreeOK' /\ CallsOK /\ CallsOK' /\ UploadsOK /\ ChecksOK /\ CounterOK /\ FoldersLast
  BY NextTyped, StepLasts DEF TypeOK, CallsOK
<1>1. ASSUME NEW r \in Request, Step(r) PROVE KeptInv'
  <2>1. sent' = sent /\ kept \subseteq kept'
    BY <1>0, <1>1, UploadsKept, ChecksKept
  <2>2. Rows' \subseteq kept'
    <3>1. ASSUME NEW p \in Photo, place[p] = None, place'[p] # None PROVE p \in kept'
      <4>1. (FinishCommits(r) \/ DirectCommits(r)) /\ p = call[r].photo
        BY <1>1, <3>1, RowsInserted
      <4> QED
        BY <4>1 DEF FinishCommits, DirectCommits, Inserts
    <3> QED
      BY <2>1, <3>1 DEF KeptInv, Rows
  <2>3. \A p \in Photo : sent'[p] \in Folder => parent'[sent'[p]] # None
    BY <1>0, <2>1 DEF KeptInv, FoldersLast
  <2>4. \A p \in told' : p \in kept' \/ (sent'[p] \in Folder /\ parent'[sent'[p]] = Gone)
    BY <1>0, <1>1, <2>1, ToldStep DEF KeptInv, FoldersLast
  <2>5. \A q \in Request : call'[q].step = "finish" => sent'[call'[q].photo] # None
    <3>1. NewCall(r, call'[r]) /\ \A q \in Request \ {r} : call'[q] = call[q]
      BY <1>0, <1>1, StepCall
    <3>2. call'[r].step = "finish" => sent[call'[r].photo] # None
      BY <3>1 DEF NewCall, FinishBegins
    <3> QED
      BY <2>1, <3>1, <3>2 DEF KeptInv
  <2> QED
    BY <2>2, <2>3, <2>4, <2>5 DEF KeptInv
<1>2. ASSUME NEW p \in Photo, NEW g \in Where \cup {Other}, PreCreate(p, g) PROVE KeptInv'
  <2>1. /\ UNCHANGED <<parent, place, told, call, kept>> /\ sent' = [sent EXCEPT ![p] = g] /\ sent[p] = None
        /\ g \in Folder => parent[g] # None
    BY <1>2 DEF PreCreate, tree
  <2>2. g # None
    BY <1>2 DEF Where
  <2>3. sent'[p] = g /\ \A q \in Photo \ {p} : sent'[q] = sent[q]
    BY <1>0, <2>1 DEF UploadsOK
  <2>4. p \in told => p \in kept
    BY <2>1 DEF KeptInv
  <2>5. \A r \in Request : call[r].step = "finish" => call[r].photo \in Photo
    BY <1>0, CallFields DEF FinishCalls
  <2> QED
    BY <1>0, <2>1, <2>2, <2>3, <2>4, <2>5 DEF KeptInv, Rows, UploadsOK
<1>3. CASE (\E p \in Photo : Renders(p)) \/ (\E ids \in SUBSET Photo : Archives(ids)) \/ UNCHANGED vars
  BY <1>3 DEF Renders, Archives, vars, tree, sizes, uploads, checks, KeptInv, Rows
<1> QED
  BY <1>1, <1>2, <1>3, NextCases

LEMMA InitKept == Init => KeptInv /\ RoomInv
<1> SUFFICES ASSUME Init PROVE KeptInv /\ RoomInv
  OBVIOUS
<1>1. kept = Rows /\ told = {} /\ sent = [p \in Photo |-> None] /\ call = [r \in Request |-> [step |-> "off"]]
  BY DEF Init
<1> QED
  BY <1>1 DEF KeptInv, RoomInv, Admitted

\* An upload that was answered "accepted" is or was a photo, unless the folder it was meant for is
\* gone (upload_service.py:132).
THEOREM AcceptedUploadsKept == Spec => []AcceptedIsKept
<1>1. TypeOK /\ KeptInv => AcceptedIsKept
  BY DEF TypeOK, UploadsOK, KeptInv, AcceptedIsKept, Live, Where
<1> QED
  BY <1>1, InitTyped, NextTyped, InitKept, KeptKept, PTL DEF Spec

-----------------------------------------------------------------------------
(* The quota *)

LEMMA FitsLess == ASSUME NEW n \in Int, NEW m \in Int, m <= n, Fits(n) PROVE Fits(m)
  BY DEF Fits

LEMMA RoomKept == TypeOK /\ RoomInv /\ [Next]_vars => RoomInv'
<1> SUFFICES ASSUME TypeOK, RoomInv, [Next]_vars PROVE RoomInv'
  OBVIOUS
<1>0. CallsOK /\ UploadsOK /\ CounterOK /\ CounterOK' /\ TreeOK
  BY NextTyped DEF TypeOK, CallsOK
<1>1. ASSUME NEW r \in Request, Step(r) PROVE RoomInv'
  <2>1. sent' = sent
    BY <1>0, <1>1, UploadsKept
  <2>2. grew \subseteq grew' /\ (used' <= used \/ Admitted \subseteq grew')
    <3>1. CASE FinishCommits(r) \/ DirectCommits(r) \/ ReportWrites(r) \/ EraseSets(r)
      <4>1. grew' = Grown
        BY <3>1 DEF FinishCommits, DirectCommits, ReportWrites, EraseSets
      <4> QED
        BY <1>0, <4>1 DEF Grown, CounterOK
    <3>2. CASE LastCommits(r)
      <4>1. used' = used - call[r].bytes /\ grew' = grew /\ call[r].bytes \in Nat
        BY <1>0, <3>2, CallFields DEF LastCommits, RowCalls
      <4> QED
        BY <1>0, <4>1 DEF CounterOK
    <3>3. ASSUME ~FinishCommits(r), ~DirectCommits(r), ~ReportWrites(r), ~EraseSets(r), ~LastCommits(r)
          PROVE  UNCHANGED <<used, grew>>
      BY <1>1, <3>3 DEF Step, FolderStep, PhotoStep, ReportStep, EraseStep, Fails, counter, CreateBegins,
         UpdateBegins, CreateCommits, UpdateCommits, UpdateHangs, DropBegins, EmptyBegins, EmptyFinds,
         DeleteBegins, DeleteRows, FinishBegins, FinishAnswers, Move, DirectBegins, ReportBegins, ReportSums,
         EraseBegins, EraseCommits, EraseSums
    <3> QED
      BY <1>0, <3>1, <3>2, <3>3 DEF CounterOK
  <2>3. \A p \in Admitted' \ grew' : Fits(used')
    <3> SUFFICES ASSUME NEW p \in Admitted' \ grew' PROVE Fits(used')
      OBVIOUS
    <3>1. p \in Admitted \ grew /\ used' <= used
      BY <2>1, <2>2 DEF Admitted
    <3>2. Fits(used)
      BY <3>1 DEF RoomInv
    <3>3. used \in Int /\ used' \in Int
      BY <1>0 DEF CounterOK
    <3> QED
      BY <3>1, <3>2, <3>3, FitsLess
  <2>4. NewCall(r, call'[r]) /\ \A q \in Request \ {r} : call'[q] = call[q]
    BY <1>0, <1>1, StepCall
  <2>5. call'[r].step = "finish" /\ call'[r].photo \notin grew' => Fits(call'[r].seen)
    <3> SUFFICES ASSUME call'[r].step = "finish", call'[r].photo \notin grew' PROVE Fits(call'[r].seen)
      OBVIOUS
    <3>1. PICK p \in Photo : FinishBegins(r, p) /\ call'[r].photo = p /\ call'[r].seen = used
      BY <2>4 DEF NewCall
    <3>2. p \in Admitted \ grew
      BY <2>2, <3>1 DEF FinishBegins, Admitted
    <3> QED
      BY <3>1, <3>2 DEF RoomInv
  <2>6. call'[r].step = "direct" => Fits(call'[r].seen)
    BY <2>4 DEF NewCall, DirectBegins
  <2>7. ASSUME NEW q \in Request \ {r}
        PROVE  /\ call'[q].step = "finish" /\ call'[q].photo \notin grew' => Fits(call'[q].seen)
               /\ call'[q].step = "direct" => Fits(call'[q].seen)
    BY <2>2, <2>4 DEF RoomInv
  <2> QED
    BY <2>3, <2>5, <2>6, <2>7 DEF RoomInv, Fits
<1>2. ASSUME NEW p \in Photo, NEW g \in Where \cup {Other}, PreCreate(p, g) PROVE RoomInv'
  <2>1. Fits(used) /\ UNCHANGED <<used, grew, call>>
    BY <1>2 DEF PreCreate, counter
  <2> QED
    BY <2>1 DEF RoomInv, Fits
<1>3. CASE (\E p \in Photo : Renders(p)) \/ (\E ids \in SUBSET Photo : Archives(ids)) \/ UNCHANGED vars
  BY <1>3 DEF Renders, Archives, vars, uploads, counter, RoomInv, Admitted, Fits
<1> QED
  BY <1>1, <1>2, <1>3, NextCases

\* An upload takes the counter past the limit only when the counter has grown since the upload was
\* admitted (upload_service.py:65).
THEOREM LimitUnlessGrown == Spec => WithinLimitUnlessGrown
<1>1. ASSUME TypeOK, RoomInv, [Next]_vars
      PROVE  [\A p \in Photo \ grew : place[p] = None /\ place'[p] # None => used' <= Limit]_vars
  <2> SUFFICES ASSUME NEW p \in Photo \ grew, place[p] = None, place'[p] # None PROVE used' <= Limit
    OBVIOUS
  <2>1. PICK r \in Request : Step(r)
    BY <1>1, NextCases DEF Renders, Archives, PreCreate, vars, tree
  <2>2. (FinishCommits(r) \/ DirectCommits(r)) /\ p = call[r].photo
    BY <1>1, <2>1, RowsInserted
  <2>3. used' = call[r].seen + 1
    BY <2>2 DEF FinishCommits, DirectCommits, Inserts
  <2>4. Fits(call[r].seen)
    BY <1>1, <2>2 DEF FinishCommits, DirectCommits, RoomInv
  <2> QED
    BY <2>3, <2>4 DEF Fits
<1> QED
  BY <1>1, InitTyped, NextTyped, InitKept, RoomKept, PTL DEF Spec, WithinLimitUnlessGrown

-----------------------------------------------------------------------------
(* Walks up a tree *)

LEMMA AboveLeast ==
  ASSUME NEW par, NEW f \in Folder
  PROVE  /\ Above(par, f) \subseteq Folder /\ f \in Above(par, f)
         /\ \A h \in Above(par, f) : par[h] \in Folder => par[h] \in Above(par, f)
         /\ \A S \in SUBSET Folder :
               f \in S /\ (\A h \in S : par[h] \in Folder => par[h] \in S) => Above(par, f) \subseteq S
  BY DEF Above

LEMMA AboveTrans ==
  ASSUME NEW par, NEW f \in Folder, NEW g \in Above(par, f)
  PROVE  Above(par, g) \subseteq Above(par, f)
<1>1. Above(par, f) \in SUBSET Folder /\ \A h \in Above(par, f) : par[h] \in Folder => par[h] \in Above(par, f)
  BY AboveLeast
<1> QED
  BY <1>1, AboveLeast

\* A walk sees only the folders it visits.
LEMMA AboveSame ==
  ASSUME NEW par, NEW qar, NEW f \in Folder, \A h \in Above(par, f) : qar[h] = par[h]
  PROVE  /\ Above(qar, f) = Above(par, f) /\ Depth(qar, f) = Depth(par, f)
         /\ Ends(qar, f) <=> Ends(par, f)
<1>1. Above(qar, f) \subseteq Above(par, f)
  <2>1. /\ Above(par, f) \in SUBSET Folder /\ f \in Above(par, f)
        /\ \A h \in Above(par, f) : qar[h] \in Folder => qar[h] \in Above(par, f)
    BY AboveLeast
  <2> QED
    BY <2>1, AboveLeast
<1>2. Above(par, f) \subseteq Above(qar, f)
  <2>1. /\ Above(qar, f) \in SUBSET Folder /\ f \in Above(qar, f)
        /\ \A h \in Above(qar, f) : par[h] \in Folder => par[h] \in Above(qar, f)
    BY <1>1, AboveLeast
  <2> QED
    BY <2>1, AboveLeast
<1> QED
  BY <1>1, <1>2 DEF Depth, Ends

\* In a rooted tree a walk visits folders of the tree.
LEMMA AboveLive ==
  ASSUME NEW par, Rooted(par), NEW f \in LiveOf(par)
  PROVE  Above(par, f) \subseteq LiveOf(par)
<1>1. /\ LiveOf(par) \in SUBSET Folder
      /\ \A h \in LiveOf(par) : par[h] \in Folder => par[h] \in LiveOf(par)
  BY DEF LiveOf, Rooted
<1> QED
  BY <1>1, AboveLeast

\* The tree in which f lies below g.
PutsAt(par, f, g, qar) == qar[f] = g /\ \A h \in Folder \ {f} : qar[h] = par[h]

\* A folder that is placed below g, which is not below it: nothing else comes to lie above it,
\* and the walks that ended before still end.
LEMMA Placing ==
  ASSUME NEW par, NEW f \in Folder, NEW g \in Where, NEW qar, PutsAt(par, f, g, qar),
         g # Root => f \notin Above(par, g) /\ Ends(par, g)
  PROVE  /\ Ends(qar, f) /\ Above(qar, f) \subseteq {f} \cup (IF g = Root THEN {} ELSE Above(par, g))
         /\ \A h \in Folder : f \notin Above(par, h) =>
               Above(qar, h) = Above(par, h) /\ Depth(qar, h) = Depth(par, h)
         /\ \A h \in Folder : Ends(par, h) => Ends(qar, h)
<1>0. qar[f] = g /\ \A h \in Folder \ {f} : qar[h] = par[h]
  BY DEF PutsAt
<1>1. ASSUME NEW h \in Folder, f \notin Above(par, h)
      PROVE  Above(qar, h) = Above(par, h) /\ Depth(qar, h) = Depth(par, h) /\ (Ends(qar, h) <=> Ends(par, h))
  <2>1. \A x \in Above(par, h) : qar[x] = par[x]
    BY <1>0, <1>1, AboveLeast
  <2> QED
    BY <2>1, AboveSame
<1>2. ASSUME NEW h \in Folder, f \notin Above(qar, h)
      PROVE  Ends(qar, h) <=> Ends(par, h)
  <2>1. \A x \in Above(qar, h) : par[x] = qar[x]
    BY <1>0, <1>2, AboveLeast
  <2>2. Ends(par, h) <=> Ends(qar, h)
    BY ONLY <2>1, AboveSame, Zenon
  <2> QED
    BY <2>2
<1>3. Ends(qar, f)
  <2>1. CASE g = Root
    BY <1>0, <2>1, AboveLeast DEF Ends
  <2>2. CASE g # Root
    <3>1. g \in Folder /\ Ends(qar, g)
      BY <1>1, <2>2 DEF Where
    <3>2. g \in Above(qar, f)
      <4>1. f \in Above(qar, f) /\ \A h \in Above(qar, f) : qar[h] \in Folder => qar[h] \in Above(qar, f)
        BY AboveLeast
      <4> QED
        BY <1>0, <3>1, <4>1
    <3>3. Above(qar, g) \subseteq Above(qar, f)
      BY <3>2, AboveTrans
    <3> QED
      BY <3>1, <3>3 DEF Ends
  <2> QED
    BY <2>1, <2>2
<1>4. Above(qar, f) \subseteq {f} \cup (IF g = Root THEN {} ELSE Above(par, g))
  <2>1. CASE g = Root
    <3>1. {f} \in SUBSET Folder /\ \A h \in {f} : qar[h] \in Folder => qar[h] \in {f}
      BY <1>0, <2>1
    <3>2. Above(qar, f) \subseteq {f}
      <4> DEFINE S == {f}
      <4>1. S \in SUBSET Folder /\ f \in S /\ \A h \in S : qar[h] \in Folder => qar[h] \in S
        BY <3>1
      <4> HIDE DEF S
      <4>2. Above(qar, f) \subseteq S
        BY <4>1, AboveLeast
      <4> QED
        BY <4>2 DEF S
    <3> QED
      BY <2>1, <3>2
  <2>2. CASE g # Root
    <3>1. g \in Folder
      BY <2>2 DEF Where
    <3>2. Above(par, g) \subseteq Folder /\ g \in Above(par, g)
      BY <3>1, AboveLeast
    <3>3. \A h \in Above(par, g) : qar[h] = par[h] /\ (par[h] \in Folder => par[h] \in Above(par, g))
      BY <1>0, <2>2, <3>1, <3>2, AboveLeast
    <3> DEFINE S == {f} \cup Above(par, g)
    <3>4. S \in SUBSET Folder /\ f \in S /\ \A h \in S : qar[h] \in Folder => qar[h] \in S
      BY <1>0, <2>2, <3>2, <3>3
    <3>5. Above(qar, f) \subseteq S
      <4> HIDE DEF S
      <4> QED
        BY <3>4, AboveLeast
    <3> QED
      BY <2>2, <3>5
  <2> QED
    BY <2>1, <2>2
<1>5. ASSUME NEW h \in Folder, Ends(par, h) PROVE Ends(qar, h)
  <2>1. CASE f \in Above(qar, h)
    <3>1. Above(qar, f) \subseteq Above(qar, h)
      BY <2>1, AboveTrans
    <3> QED
      BY <1>3, <3>1 DEF Ends
  <2> QED
    BY <1>2, <1>5, <2>1
<1> QED
  BY <1>1, <1>3, <1>4, <1>5

\* It comes to lie one folder deeper than g.
LEMMA PlacedDepth ==
  ASSUME NEW par, NEW qar, NEW f \in Folder, NEW g \in Where, FitsUnder(par, g),
         Above(qar, f) \subseteq {f} \cup (IF g = Root THEN {} ELSE Above(par, g))
  PROVE  Depth(qar, f) <= MaxDepth
<1>1. CASE g = Root
  <2>1. IsFiniteSet({f}) /\ Cardinality({f}) = 1
    BY FS_Singleton
  <2>2. IsFiniteSet(Above(qar, f)) /\ Cardinality(Above(qar, f)) <= 1
    BY <1>1, <2>1, FS_Subset
  <2>3. Cardinality(Above(qar, f)) \in Nat
    BY <2>2, FS_CardinalityType
  <2> QED
    BY <2>2, <2>3 DEF Depth
<1>2. CASE g # Root
  <2>1. g \in Folder /\ Above(par, g) \subseteq Folder
    BY <1>2, AboveLeast DEF Where
  <2>2. IsFiniteSet(Above(par, g))
    BY <2>1, FS_Subset
  <2>3. /\ Cardinality(Above(par, g)) \in Nat /\ IsFiniteSet(Above(par, g) \cup {f})
        /\ Cardinality(Above(par, g) \cup {f}) <= Cardinality(Above(par, g)) + 1
        /\ Cardinality(Above(par, g) \cup {f}) \in Nat
    <3>1. Cardinality(Above(par, g)) \in Nat
      BY <2>2, FS_CardinalityType
    <3>2. /\ IsFiniteSet(Above(par, g) \cup {f})
          /\ \/ Cardinality(Above(par, g) \cup {f}) = Cardinality(Above(par, g))
             \/ Cardinality(Above(par, g) \cup {f}) = Cardinality(Above(par, g)) + 1
      BY <2>2, FS_AddElement
    <3> QED
      BY <3>1, <3>2
  <2>4. Above(qar, f) \in SUBSET (Above(par, g) \cup {f})
    BY <1>2
  <2>5. IsFiniteSet(Above(qar, f)) /\ Cardinality(Above(qar, f)) <= Cardinality(Above(par, g) \cup {f})
    BY <2>3, <2>4, FS_Subset
  <2>6. Cardinality(Above(qar, f)) \in Nat
    BY <2>5, FS_CardinalityType
  <2>7. Cardinality(Above(par, g)) < MaxDepth
    BY <1>2 DEF FitsUnder, Depth
  <2> QED
    BY <2>3, <2>5, <2>6, <2>7 DEF Depth
<1> QED
  BY <1>1, <1>2

\* A check of copies that nobody has outdated walks up the tree as it is.
LEMMA HeldSame ==
  ASSUME NEW copy, ~Outdated(copy), Rooted(parent), NEW g \in Live
  PROVE  /\ Above(Held(copy), g) = Above(parent, g) /\ Depth(Held(copy), g) = Depth(parent, g)
         /\ Ends(parent, g)
<1>1. Above(parent, g) \subseteq Live /\ Ends(parent, g)
  BY AboveLive DEF Live, LiveOf, Rooted
<1>2. \A h \in Live : Held(copy)[h] = parent[h]
  BY DEF Held, Outdated, Live, Where
<1> QED
  BY <1>1, <1>2, AboveSame DEF Live

\* Not even the walk up outdated copies runs for ever, unless they were copied from a tangled tree.
LEMMA HeldEnds ==
  ASSUME NEW copy, Rooted(copy), NEW g \in LiveOf(copy)
  PROVE  Ends(Held(copy), g)
<1>1. Above(copy, g) \subseteq LiveOf(copy) /\ Ends(copy, g)
  BY AboveLive DEF Rooted
<1>2. \A h \in LiveOf(copy) : Held(copy)[h] = copy[h]
  BY DEF Held, LiveOf
<1> QED
  BY <1>1, <1>2, AboveSame DEF LiveOf

\* A folder that is placed where it may be leaves the tree rooted, and no other folder deeper than
\* it was but those below it.
LEMMA TreePlaced ==
  ASSUME NEW par, Rooted(par), NEW f \in Folder, NEW g \in LiveOf(par) \cup {Root},
         NEW qar, PutsAt(par, f, g, qar), g # Root => f \notin Above(par, g), FitsUnder(par, g)
  PROVE  /\ Rooted(qar) /\ LiveOf(qar) = LiveOf(par) \cup {f} /\ Depth(qar, f) <= MaxDepth
         /\ \A h \in Folder : f \notin Above(par, h) => Depth(qar, h) = Depth(par, h)
<1>0. g \in Where /\ qar[f] = g /\ \A h \in Folder \ {f} : qar[h] = par[h]
  BY DEF PutsAt, Where, LiveOf
<1>1. g # Root => f \notin Above(par, g) /\ Ends(par, g)
  BY DEF Rooted
<1>2. /\ Ends(qar, f) /\ Above(qar, f) \subseteq {f} \cup (IF g = Root THEN {} ELSE Above(par, g))
      /\ \A h \in Folder : f \notin Above(par, h) => Depth(qar, h) = Depth(par, h)
      /\ \A h \in Folder : Ends(par, h) => Ends(qar, h)
  BY <1>0, <1>1, Placing
<1>3. LiveOf(qar) = LiveOf(par) \cup {f}
  BY <1>0 DEF LiveOf
<1>4. Depth(qar, f) <= MaxDepth
  BY <1>0, <1>2, PlacedDepth
<1>5. Rooted(qar)
  BY <1>0, <1>2, <1>3 DEF Rooted, LiveOf
<1> QED
  BY <1>2, <1>3, <1>4, <1>5

\* So do folders that go with all that is below them.
LEMMA TreePruned ==
  ASSUME NEW par, Rooted(par), NEW D \in SUBSET Folder,
         \A h \in LiveOf(par) \ D : Above(par, h) \cap D = {},
         NEW qar, \A h \in Folder : qar[h] = IF h \in D THEN Gone ELSE par[h]
  PROVE  /\ Rooted(qar) /\ LiveOf(qar) = LiveOf(par) \ D
         /\ \A h \in LiveOf(qar) : Depth(qar, h) = Depth(par, h)
<1>1. LiveOf(qar) = LiveOf(par) \ D
  BY DEF LiveOf, Where
<1>2. ASSUME NEW h \in LiveOf(qar)
      PROVE  /\ Depth(qar, h) = Depth(par, h) /\ (Ends(qar, h) <=> Ends(par, h))
             /\ par[h] \in Folder => par[h] \notin D
  <2>1. h \in Folder /\ h \in LiveOf(par) \ D
    BY <1>1, <1>2 DEF LiveOf
  <2>2. \A x \in Above(par, h) : qar[x] = par[x]
    BY <2>1, AboveLeast
  <2>3. par[h] \in Folder => par[h] \in Above(par, h)
    BY <2>1, AboveLeast
  <2> QED
    BY <2>1, <2>2, <2>3, AboveSame
<1>3. \A h \in LiveOf(qar) : qar[h] = par[h] /\ par[h] \in LiveOf(par) \cup {Root}
  BY <1>1 DEF Rooted, LiveOf
<1>4. Rooted(qar)
  BY <1>1, <1>2, <1>3 DEF Rooted, LiveOf
<1> QED
  BY <1>1, <1>2, <1>4

\* What a request that places a folder has checked of its copies holds of the tree, unless the tree
\* counts as tangled from now on.
LEMMA Checked ==
  ASSUME Rooted(parent), NEW copy, NEW f \in Folder, NEW g \in Live \cup {Root}, g = Root \/ ~Outdated(copy),
         FitsUnder(Held(copy), g)
  PROVE  FitsUnder(parent, g) /\ (Foreign(Held(copy), f, g) => Foreign(parent, f, g))
<1>1. CASE g = Root
  BY <1>1 DEF FitsUnder, Foreign
<1>2. CASE g # Root
  <2>1. Above(Held(copy), g) = Above(parent, g) /\ Depth(Held(copy), g) = Depth(parent, g) /\ Ends(parent, g)
    BY <1>2, HeldSame
  <2> QED
    BY <1>2, <2>1 DEF FitsUnder, Foreign
<1> QED
  BY <1>1, <1>2

\* The tree itself.
TreeRooted == Rooted(parent) /\ \A f \in Live \ carried : Depth(parent, f) <= MaxDepth

LEMMA PlacesKeep ==
  ASSUME TreeOK, CallsOK, TreeRooted, ~tangled', NEW r \in Request, CreateCommits(r) \/ UpdateCommits(r)
  PROVE  TreeRooted'
<1> DEFINE f == call[r].folder
           g == call[r].to
           copy == call[r].copy
<1>1. f \in Folder /\ parent \in Trees /\ Rooted(parent)
  BY CallFields DEF CreateCommits, UpdateCommits, FolderCalls, TreeOK, TreeRooted
<1>2. /\ PutsAt(parent, f, g, parent') /\ g \in Live \cup {Root}
      /\ g = Root \/ ~Outdated(copy)
      /\ FitsUnder(Held(copy), g)
  <2>1. /\ parent' = [parent EXCEPT ![f] = g] /\ g \in Live \cup {Root}
        /\ g = Root \/ ~Outdated(copy)
        /\ FitsUnder(Held(copy), g)
    BY DEF CreateCommits, UpdateCommits, Placed
  <2> HIDE DEF f, g, copy
  <2> QED
    BY <1>1, <2>1 DEF PutsAt, Trees
<1>3. FitsUnder(parent, g) /\ (Foreign(Held(copy), f, g) => Foreign(parent, f, g))
  <2>1. /\ Rooted(parent) /\ f \in Folder /\ g \in Live \cup {Root}
        /\ g = Root \/ ~Outdated(copy)
        /\ FitsUnder(Held(copy), g)
    BY <1>1, <1>2
  <2> HIDE DEF f, g, copy
  <2> QED
    BY <2>1, Checked
<1>4. \A h \in Live : h \in Folder /\ Above(parent, h) \subseteq Live
  BY <1>1, AboveLive DEF Live, LiveOf
<1>5. g # Root => f \notin Above(parent, g)
  <2>1. CASE CreateCommits(r)
    <3>1. f \notin Live
      BY <2>1 DEF CreateCommits, Live, Where
    <3> QED
      BY <1>2, <1>4, <3>1
  <2>2. CASE UpdateCommits(r)
    BY <1>3, <2>2 DEF UpdateCommits, Foreign
  <2> QED
    BY <2>1, <2>2
<1>6. /\ Rooted(parent') /\ LiveOf(parent') = LiveOf(parent) \cup {f} /\ Depth(parent', f) <= MaxDepth
      /\ \A h \in Folder : f \notin Above(parent, h) => Depth(parent', h) = Depth(parent, h)
  <2> HIDE DEF f, g, copy
  <2>0. Live = LiveOf(parent)
    BY DEF Live, LiveOf
  <2>1. g \in LiveOf(parent) \cup {Root}
    BY <1>2, <2>0
  <2> QED
    BY <1>1, <1>2, <1>3, <1>5, <2>1, TreePlaced
<1>7. Live' = Live \cup {f}
  BY <1>6 DEF Live, LiveOf
<1>8. ASSUME NEW h \in Live' \ carried' PROVE Depth(parent', h) <= MaxDepth
  <2>1. CASE h = f
    BY <1>6, <2>1
  <2>2. CASE h # f /\ CreateCommits(r)
    <3>1. h \in Live \ carried
      BY <1>7, <1>8, <2>2 DEF CreateCommits
    <3>2. f \notin Above(parent, h) /\ h \in Folder
      BY <1>4, <2>2, <3>1 DEF CreateCommits, Live, Where
    <3> QED
      BY <1>6, <3>1, <3>2 DEF TreeRooted
  <2>3. CASE h # f /\ UpdateCommits(r)
    <3>1. carried' = (carried \ {f}) \cup (Below(f) \ {f})
      BY <2>3 DEF UpdateCommits
    <3>2. h \in Live \ carried /\ h \notin Below(f)
      BY <1>7, <1>8, <2>3, <3>1
    <3>3. f \notin Above(parent, h) /\ h \in Folder
      BY <1>4, <3>2 DEF Below
    <3> QED
      BY <1>6, <3>2, <3>3 DEF TreeRooted
  <2> QED
    BY <2>1, <2>2, <2>3
<1> QED
  BY <1>6, <1>8 DEF TreeRooted

LEMMA DeletesKeep ==
  ASSUME TreeOK, CallsOK, TreeRooted, NEW r \in Request, LastCommits(r) \/ EraseCommits(r)
  PROVE  TreeRooted'
<1>1. CASE LastCommits(r)
  <2> DEFINE D == Doomed(call[r].folder)
  <2>1. parent' = [f \in Folder |-> IF f \in D THEN Gone ELSE parent[f]] /\ carried' = carried \ D
    BY <1>1 DEF LastCommits
  <2>2. D \in SUBSET Folder
    BY DEF Doomed, Below, Live
  <2>3. ASSUME NEW h \in LiveOf(parent) \ D PROVE Above(parent, h) \cap D = {}
    <3>1. CASE call[r].folder = None
      BY <3>1 DEF Doomed
    <3>2. CASE call[r].folder # None
      <4> DEFINE f == call[r].folder
      <4>1. D = Below(f) /\ h \in Folder /\ h \in Live
        BY <2>3, <3>2 DEF Doomed, Live, LiveOf
      <4>2. f \notin Above(parent, h)
        BY <2>3, <4>1 DEF Below
      <4>3. \A x \in Above(parent, h) : f \notin Above(parent, x)
        BY <4>1, <4>2, AboveTrans
      <4> QED
        BY <4>1, <4>3 DEF Below
    <3> QED
      BY <3>1, <3>2
  <2>4. /\ Rooted(parent') /\ LiveOf(parent') = LiveOf(parent) \ D
        /\ \A h \in LiveOf(parent') : Depth(parent', h) = Depth(parent, h)
    <3> HIDE DEF D
    <3>1. \A h \in Folder : parent'[h] = IF h \in D THEN Gone ELSE parent[h]
      BY <2>1
    <3> QED
      BY <2>2, <2>3, <3>1, TreePruned DEF TreeRooted
  <2> QED
    BY <2>1, <2>4 DEF TreeRooted, Live, LiveOf
<1>2. CASE EraseCommits(r)
  <2>1. LiveOf(parent') = {} /\ Live' = {}
    BY <1>2 DEF EraseCommits, LiveOf, Live, Where
  <2> QED
    BY <2>1 DEF TreeRooted, Rooted
<1> QED
  BY <1>1, <1>2

LEMMA TreeRootedKept ==
  ASSUME TypeOK, TreeRooted, ~tangled', NEW r \in Request, Step(r)
  PROVE  TreeRooted'
<1>0. TreeOK /\ CallsOK
  BY DEF TypeOK, CallsOK
<1>1. CASE CreateCommits(r) \/ UpdateCommits(r)
  BY <1>0, <1>1, PlacesKeep
<1>2. CASE LastCommits(r) \/ EraseCommits(r)
  BY <1>0, <1>2, DeletesKeep
<1>3. ASSUME ~CreateCommits(r), ~UpdateCommits(r), ~LastCommits(r), ~EraseCommits(r)
      PROVE  UNCHANGED <<parent, carried>>
  BY <1>3 DEF Step, FolderStep, PhotoStep, ReportStep, EraseStep, Fails, tree, checks, CreateBegins, UpdateBegins,
     UpdateHangs, DropBegins, EmptyBegins, EmptyFinds, DeleteBegins, DeleteRows, FinishBegins, FinishCommits,
     FinishAnswers, Move, DirectBegins, DirectCommits, ReportBegins, ReportSums, ReportWrites, EraseBegins,
     EraseSums, EraseSets
<1>4. CASE UNCHANGED <<parent, carried>>
  BY <1>4 DEF TreeRooted, Live
<1> QED
  BY <1>1, <1>2, <1>3, <1>4

LEMMA TreeInvKept == TypeOK /\ TreeInv /\ [Next]_vars => TreeInv'
<1> SUFFICES ASSUME TypeOK, TreeInv, [Next]_vars, ~tangled' PROVE TreeSound'
  BY DEF TreeInv
<1>0. TreeOK /\ CallsOK /\ CounterOK /\ ChecksOK
  BY DEF TypeOK, CallsOK
<1>1. ASSUME NEW r \in Request, Step(r) PROVE TreeSound'
  <2>1. ~tangled /\ TreeSound
    BY <1>0, <1>1, ChecksKept DEF TreeInv
  <2>2. TreeRooted'
    BY <1>1, <2>1, TreeRootedKept DEF TreeSound, TreeRooted
  <2>3. NewCall(r, call'[r]) /\ \A q \in Request \ {r} : call'[q] = call[q]
    BY <1>0, <1>1, StepCall
  <2>4. ~UpdateHangs(r)
    <3> SUFFICES ASSUME UpdateHangs(r) PROVE FALSE
      OBVIOUS
    <3>1. /\ Rooted(call[r].copy) /\ call[r].to \in LiveOf(call[r].copy)
          /\ ~Ends(Held(call[r].copy), call[r].to)
      BY <2>1 DEF UpdateHangs, TreeSound
    <3> QED
      BY <3>1, HeldEnds
  <2>5. /\ call'[r].step # "hung"
        /\ call'[r].step \in {"create", "update"} =>
              Rooted(call'[r].copy) /\ call'[r].to \in LiveOf(call'[r].copy) \cup {Root}
    BY <2>1, <2>3, <2>4 DEF NewCall, TreeSound, CreateBegins, UpdateBegins, Live, LiveOf
  <2> QED
    BY <2>1, <2>2, <2>3, <2>5 DEF TreeSound, TreeRooted
<1>2. CASE \/ \E p \in Photo : Renders(p)
           \/ \E ids \in SUBSET Photo : Archives(ids)
           \/ \E p \in Photo, g \in Where \cup {Other} : PreCreate(p, g)
           \/ UNCHANGED vars
  <2>1. UNCHANGED <<parent, call, tangled, carried>>
    BY <1>2 DEF Renders, Archives, PreCreate, vars, tree, checks
  <2> QED
    BY <2>1 DEF TreeInv, TreeSound, Live
<1> QED
  BY <1>1, <1>2, NextCases

LEMMA InitTree == Init => TreeInv
<1> SUFFICES ASSUME Init, ~tangled PROVE TreeSound
  BY DEF TreeInv
<1>1. /\ \A f \in Live : parent[f] \in Live \cup {Root} /\ Ends(parent, f) /\ Depth(parent, f) <= MaxDepth
      /\ call = [r \in Request |-> [step |-> "off"]]
  BY DEF Init
<1> QED
  BY <1>1 DEF TreeSound, Rooted, Live, LiveOf

\* Unless a folder was placed after a check of outdated copies (folder_service.py:104): every
\* folder is reached from the root, no request walks up the tree for ever, and a folder lies too
\* deep only when it came along with one above it.
THEOREM TreeIsRooted == Spec => []RootedUnlessTangled
<1>1. TreeInv => RootedUnlessTangled
  BY DEF TreeInv, TreeSound, Rooted, RootedUnlessTangled, Live, LiveOf
<1> QED
  BY <1>1, InitTyped, NextTyped, InitTree, TreeInvKept, PTL DEF Spec

=============================================================================
