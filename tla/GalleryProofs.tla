----------------------------- MODULE GalleryProofs -----------------------------
(***************************************************************************)
(* Theorems about Gallery, for any photos and clusters and for any number  *)
(* of requests at once.                                                    *)
(*                                                                         *)
(* A request carries what it has read.  The invariants say of each that    *)
(* nothing has overtaken what its copies still have to do with the rows:   *)
(* the count and the clusters of a selfie (MatchInv), the flag that is to  *)
(* be flipped (ShareInv), the row that is to be removed (FavoriteInv),     *)
(* whose id no other favorite is given while a request holds it.           *)
(***************************************************************************)
EXTENDS Gallery, FiniteSetTheorems, TLAPS

-----------------------------------------------------------------------------
(* The inductive invariants *)

CallsOK == call \in [Request -> Calls]

MatchSteps == {"match", "ids", "save"}

\* A selfie that nothing has outdated was counted from the stored match, and what it has matched
\* and read is still so.
MatchInv ==
    /\ CountIsServed
    /\ \A r \in Request :
          /\ call[r].step \in MatchSteps /\ ~call[r].old => call[r].counted = count
          /\ call[r].step \in {"ids", "save"} /\ ~call[r].old => call[r].hits \subseteq live
          /\ call[r].step = "save" /\ ~call[r].old => call[r].ids = Showing(call[r].hits)

\* A flag that is to be flipped is as it was loaded, unless the photo is deleted.
ShareInv ==
    /\ "share" \notin raced => shared = flips
    /\ \A r \in Request :
          call[r].step \in {"share", "flip"} /\ call[r].photo \in rows /\ ~call[r].old =>
              (call[r].was <=> call[r].photo \in shared)

Favored == {p \in Photo : fav[p] # 0}

\* A favorite that was found is that photo's still, or nobody's.
FavoriteInv ==
    /\ "favorite" \notin raced => likes = Favored
    /\ \A p, q \in Photo : fav[p] = fav[q] /\ fav[p] # 0 => p = q
    /\ \A r \in Request : call[r].step = "mark" =>
          /\ call[r].row # 0 => \A q \in Photo : fav[q] = call[r].row => q = call[r].photo
          /\ call[r].photo \in rows /\ ~call[r].old => call[r].row = fav[call[r].photo]

-----------------------------------------------------------------------------
(* What a step makes of the requests *)

LEMMA CallFields ==
  ASSUME NEW calls \in [Request -> Calls], NEW r \in Request
  PROVE  /\ calls[r].step = "match" => calls[r] \in MatchCalls
         /\ calls[r].step = "ids" => calls[r] \in IdsCalls
         /\ calls[r].step = "save" => calls[r] \in SaveCalls
         /\ calls[r].step \in {"favorite", "share", "flip"} => calls[r] \in ToggleCalls
         /\ calls[r].step = "mark" => calls[r] \in MarkCalls
         /\ calls[r].step = "ask" => calls[r] \in [step : {"ask"}, found : BOOLEAN]
<1>1. calls[r] \in Calls
  OBVIOUS
<1> QED
  BY <1>1 DEF Calls, MatchCalls, IdsCalls, SaveCalls, ToggleCalls, MarkCalls

LEMMA NewCall ==
  ASSUME CallsOK, NEW r \in Request, NEW c \in Calls, Goes(r, c)
  PROVE  CallsOK' /\ call'[r] = c /\ \A q \in Request \ {r} : call'[q] = call[q]
  BY DEF CallsOK, Goes

LEMMA Simple ==
  ASSUME NEW x \in {"off", "send", "verify"}
  PROVE  [step |-> x] \in Calls
  BY DEF Calls

AgedSteps == MatchSteps \cup {"favorite", "share", "flip", "mark"}

\* A call that is marked as outdated is what it was otherwise.
LEMMA Aged ==
  ASSUME NEW c \in Calls, c.step \in AgedSteps, NEW d, d = [c EXCEPT !.old = TRUE]
  PROVE  /\ d \in Calls /\ d.step = c.step /\ d.old = TRUE
         /\ c.step = "mark" => d.photo = c.photo /\ d.row = c.row
<1>1. CASE c \in MatchCalls
  BY <1>1 DEF MatchCalls, Calls
<1>2. CASE c \in IdsCalls
  BY <1>2 DEF IdsCalls, Calls
<1>3. CASE c \in SaveCalls
  BY <1>3 DEF SaveCalls, Calls
<1>4. CASE c \in ToggleCalls
  BY <1>4 DEF ToggleCalls, Calls
<1>5. CASE c \in MarkCalls
  BY <1>5 DEF MarkCalls, Calls
<1> QED
  BY <1>1, <1>2, <1>3, <1>4, <1>5 DEF Calls, AgedSteps, MatchSteps

LEMMA Outdates ==
  ASSUME NEW calls \in [Request -> Calls], NEW steps \in SUBSET MatchSteps
  PROVE  /\ Outdate(calls, steps) \in [Request -> Calls]
         /\ \A q \in Request :
               /\ Outdate(calls, steps)[q].step = calls[q].step
               /\ calls[q].step \notin steps => Outdate(calls, steps)[q] = calls[q]
               /\ calls[q].step \in steps => Outdate(calls, steps)[q].old = TRUE
<1> DEFINE aged(q) == [calls[q] EXCEPT !.old = TRUE]
<1>1. \A q \in Request : Outdate(calls, steps)[q] = IF calls[q].step \in steps THEN aged(q) ELSE calls[q]
  BY DEF Outdate
<1>2. \A q \in Request : calls[q].step \in steps =>
         aged(q) \in Calls /\ aged(q).step = calls[q].step /\ aged(q).old = TRUE
  BY Aged DEF AgedSteps
<1>3. DOMAIN Outdate(calls, steps) = Request /\ Outdate(calls, steps) = [q \in Request |-> Outdate(calls, steps)[q]]
  BY DEF Outdate
<1> HIDE DEF aged
<1>4. \A q \in Request : Outdate(calls, steps)[q] \in Calls
  BY <1>1, <1>2
<1> QED
  BY <1>1, <1>2, <1>3, <1>4

\* What becomes of the other toggles when r commits.
LEMMA OthersAged ==
  ASSUME CallsOK, NEW r \in Request, NEW steps \in SUBSET {"share", "flip", "mark"}
  PROVE  /\ Others(r, steps) \in [Request -> Calls]
         /\ \A q \in Request :
               /\ Others(r, steps)[q].step = call[q].step
               /\ call[q].step \notin steps => Others(r, steps)[q] = call[q]
               /\ \/ Others(r, steps)[q] = call[q]
                  \/ Others(r, steps)[q].old = TRUE
               /\ q # r /\ call[q].step \in steps /\ call[q].photo = call[r].photo =>
                     Others(r, steps)[q].old = TRUE
               /\ call[q].step = "mark" =>
                     Others(r, steps)[q].photo = call[q].photo /\ Others(r, steps)[q].row = call[q].row
<1> DEFINE aged(q) == [call[q] EXCEPT !.old = TRUE]
           hit(q) == q # r /\ call[q].step \in steps /\ call[q].photo = call[r].photo
<1>1. \A q \in Request : Others(r, steps)[q] = IF hit(q) THEN aged(q) ELSE call[q]
  BY DEF Others
<1>2. \A q \in Request : hit(q) =>
         /\ aged(q) \in Calls /\ aged(q).step = call[q].step /\ aged(q).old = TRUE
         /\ call[q].step = "mark" => aged(q).photo = call[q].photo /\ aged(q).row = call[q].row
  BY Aged DEF AgedSteps, CallsOK
<1>3. DOMAIN Others(r, steps) = Request /\ Others(r, steps) = [q \in Request |-> Others(r, steps)[q]]
  BY DEF Others
<1>4. \A q \in Request : hit(q) => call[q].step \in steps
  OBVIOUS
<1>5. \A q \in Request : q # r /\ call[q].step \in steps /\ call[q].photo = call[r].photo => hit(q)
  OBVIOUS
<1> HIDE DEF aged, hit
<1>6. \A q \in Request : Others(r, steps)[q] \in Calls
  BY <1>1, <1>2 DEF CallsOK
<1> QED
  BY <1>1, <1>2, <1>3, <1>4, <1>5, <1>6

-----------------------------------------------------------------------------
(* Type correctness *)

\* An id that no favorite has and no request holds: there are more than are in use.
LEMMA FreshRowIsFresh ==
  ASSUME MarksOK, CallsOK, NEW p \in Photo, fav[p] = 0
  PROVE  /\ FreshRow \in RowIds /\ FreshRow # 0
         /\ \A q \in Photo : fav[q] # FreshRow
         /\ \A q \in Request : call[q].step = "mark" => call[q].row # FreshRow
<1> DEFINE S == Photo \ {p}
           M == {q \in Request : call[q].step = "mark"}
           held == [q \in M |-> call[q].row]
           had == [q \in S |-> fav[q]]
           A == {had[q] : q \in S}
           B == {held[q] : q \in M}
<1>1. IsFiniteSet(Photo) /\ IsFiniteSet(Request) /\ IsFiniteSet(M) /\ Cardinality(M) <= Cardinality(Request)
  BY GalleryAssumption, FS_Subset
<1>2. IsFiniteSet(S) /\ Cardinality(S) = Cardinality(Photo) - 1
  BY <1>1, FS_RemoveElement
<1>3. IsFiniteSet(A) /\ Cardinality(A) <= Cardinality(S)
  <2>1. had \in Surjection(S, A)
    BY DEF Surjection
  <2> QED
    BY <1>2, <2>1, FS_Surjection
<1>4. IsFiniteSet(B) /\ Cardinality(B) <= Cardinality(M)
  <2>1. held \in Surjection(M, B)
    BY DEF Surjection
  <2> QED
    BY <1>1, <2>1, FS_Surjection
<1>5. /\ Cardinality(Photo) \in Nat /\ Cardinality(Request) \in Nat /\ Cardinality(A) \in Nat
      /\ Cardinality(B) \in Nat /\ Cardinality(M) \in Nat
  BY <1>1, <1>3, <1>4, FS_CardinalityType
<1>6. IsFiniteSet(A \cup B) /\ Cardinality(A \cup B) <= Cardinality(A) + Cardinality(B)
  <2>1. Cardinality(A \cap B) \in Nat
    BY <1>3, FS_Intersection, FS_CardinalityType
  <2>2. IsFiniteSet(A \cup B) /\ Cardinality(A \cup B) = Cardinality(A) + Cardinality(B) - Cardinality(A \cap B)
    BY <1>3, <1>4, FS_Union
  <2> QED
    BY <1>5, <2>1, <2>2
<1>7. Cardinality(A \cup B) < Cardinality(RowIds)
  <2>1. Cardinality(RowIds) = Cardinality(Photo) + Cardinality(Request)
    <3> DEFINE n == Cardinality(Photo) + Cardinality(Request)
    <3>1. n \in Nat /\ RowIds = 1..n
      BY <1>5 DEF RowIds
    <3>2. 1 \in Int /\ n \in Int
      BY <3>1
    <3> HIDE DEF n
    <3>3. Cardinality(1..n) = IF 1 > n THEN 0 ELSE n - 1 + 1
      BY <3>2, FS_Interval
    <3>4. Cardinality(1..n) = n
      BY <3>1, <3>3
    <3> QED
      BY <3>1, <3>4 DEF n
  <2>2. Cardinality(A \cup B) \in Nat
    BY <1>6, FS_CardinalityType
  <2> HIDE DEF A, B, S, M
  <2> QED
    BY <1>1, <1>2, <1>3, <1>4, <1>5, <1>6, <2>1, <2>2
<1>8. PICK n \in RowIds : n \notin A \cup B
  <2> SUFFICES ASSUME RowIds \subseteq A \cup B PROVE FALSE
    OBVIOUS
  <2>1. Cardinality(RowIds) <= Cardinality(A \cup B)
    BY <1>6, FS_Subset
  <2>2. Cardinality(RowIds) \in Nat /\ Cardinality(A \cup B) \in Nat
    BY <1>6, FS_Subset, FS_CardinalityType
  <2> HIDE DEF A, B
  <2> QED
    BY <1>7, <2>1, <2>2
<1>9. n # 0
  BY <1>5, <1>8 DEF RowIds
<1>10. /\ \A q \in Photo : fav[q] # n
       /\ \A q \in Request : At(q, "mark") => call[q].row # n
  <2>1. \A q \in S : fav[q] \in A
    OBVIOUS
  <2>2. \A q \in M : call[q].row \in B
    OBVIOUS
  <2> HIDE DEF A, B
  <2> QED
    BY <1>8, <1>9, <2>1, <2>2 DEF At
<1>11. /\ FreshRow \in RowIds
       /\ \A q \in Photo : fav[q] # FreshRow
       /\ \A q \in Request : At(q, "mark") => call[q].row # FreshRow
  BY <1>10, <1>8 DEF FreshRow
<1> QED
  BY <1>5, <1>11 DEF At, RowIds

LEMMA ShowingTyped ==
  ASSUME NEW S
  PROVE  Showing(S) \in SUBSET Photo
  BY DEF Showing

LEMMA CountTyped ==
  ASSUME NEW S \in SUBSET Photo
  PROVE  Cardinality(S) \in 0..Cardinality(Photo)
<1>1. IsFiniteSet(S) /\ Cardinality(S) <= Cardinality(Photo)
  BY GalleryAssumption, FS_Subset
<1>2. Cardinality(S) \in Nat /\ Cardinality(Photo) \in Nat
  BY <1>1, GalleryAssumption, FS_CardinalityType
<1> QED
  BY <1>1, <1>2

LEMMA InitTyped == Init => TypeOK
<1> SUFFICES ASSUME Init PROVE TypeOK
  OBVIOUS
<1>1. EventOK /\ MatchOK
  <2>1. 0 \in 0..Cardinality(Photo)
    BY CountTyped, GalleryAssumption, FS_CardinalityType
  <2> QED
    BY <2>1 DEF Init, EventOK, MatchOK
<1>2. PhotosOK
  BY DEF Init, PhotosOK
<1>3. MarksOK
  BY DEF Init, MarksOK
<1>4. call \in [Request -> Calls]
  BY DEF Init, Calls
<1> QED
  BY <1>1, <1>2, <1>3, <1>4 DEF TypeOK

\* The sign-in concerns the session and the code only.
LEMMA SignInSteps ==
  ASSUME TypeOK, NEW r \in Request, SignIn(r) \/ Fails(r)
  PROVE  /\ TypeOK' /\ UNCHANGED <<photos, people, match, marks>>
         /\ call'[r].step \notin AgedSteps
         /\ \A q \in Request \ {r} : call'[q] = call[q]
<1>0. CallsOK /\ EventOK
  BY DEF TypeOK, CallsOK
<1>1. PICK c \in Calls : Goes(r, c) /\ c.step \notin AgedSteps
  <2>1. CASE AskBegins(r)
    <3>1. [step |-> "ask", found |-> session # "none"] \in Calls
      BY DEF Calls
    <3> QED
      BY <2>1, <3>1 DEF AskBegins, AgedSteps, MatchSteps
  <2> QED
    BY <2>1, Simple DEF SignIn, Asks, Verifies, AskCommits, AskSends, VerifyBegins, VerifyCommits, Fails, Answers,
       AgedSteps, MatchSteps
<1>2. /\ CallsOK' /\ call'[r].step \notin AgedSteps
      /\ \A q \in Request \ {r} : call'[q] = call[q]
  BY <1>0, <1>1, NewCall
<1>3. UNCHANGED <<photos, people, match, marks>>
  BY DEF SignIn, Asks, Verifies, AskBegins, AskCommits, AskSends, VerifyBegins, VerifyCommits, Fails
<1>4. EventOK'
  BY <1>0 DEF SignIn, Asks, Verifies, AskBegins, AskCommits, AskSends, VerifyBegins, VerifyCommits, Fails, signing,
     EventOK
<1>5. PhotosOK' /\ MatchOK' /\ MarksOK'
  BY <1>3 DEF photos, people, match, marks, TypeOK, PhotosOK, MatchOK, MarksOK
<1> QED
  BY <1>2, <1>3, <1>4, <1>5 DEF TypeOK, CallsOK

LEMMA SelfieTyped ==
  ASSUME TypeOK, NEW r \in Request, Selfie(r)
  PROVE  TypeOK'
<1>0. CallsOK /\ EventOK /\ PhotosOK /\ MatchOK
  BY DEF TypeOK, CallsOK
<1>1. UNCHANGED <<party, status, link, photos, people, signing, marks>>
  BY DEF Selfie, Matching, SelfieBegins, SelfieMatches, SelfieReads, SelfieFails, SelfieSaves
<1>2. EventOK' /\ PhotosOK' /\ MarksOK'
  BY <1>1 DEF photos, people, signing, marks, TypeOK, EventOK, PhotosOK, MarksOK
<1>3. Cardinality(Photo) \in Nat
  BY GalleryAssumption, FS_CardinalityType
<1>4. CASE SelfieBegins(r)
  <2>1. [step |-> "match", counted |-> count, old |-> FALSE] \in MatchCalls
    BY <1>0, <1>3 DEF MatchOK, MatchCalls
  <2>2. CallsOK'
    BY <1>0, <1>4, <2>1, NewCall DEF SelfieBegins, Calls
  <2> QED
    BY <1>0, <1>2, <1>4, <2>2 DEF SelfieBegins, match, TypeOK, MatchOK, CallsOK
<1>5. CASE SelfieMatches(r)
  <2>1. PICK hits \in SUBSET live :
           Goes(r, [step |-> "ids", counted |-> call[r].counted, old |-> call[r].old, hits |-> hits])
    BY <1>5 DEF SelfieMatches
  <2>2. call[r] \in MatchCalls
    BY <1>0, <1>5, CallFields DEF SelfieMatches, At, CallsOK
  <2>3. [step |-> "ids", counted |-> call[r].counted, old |-> call[r].old, hits |-> hits] \in IdsCalls
    BY <1>0, <2>2 DEF PhotosOK, MatchCalls, IdsCalls
  <2>4. CallsOK'
    BY <1>0, <2>1, <2>3, NewCall DEF Calls
  <2> QED
    BY <1>0, <1>2, <1>5, <2>4 DEF SelfieMatches, match, TypeOK, MatchOK, CallsOK
<1>6. CASE SelfieReads(r)
  <2>1. call[r] \in IdsCalls
    BY <1>0, <1>6, CallFields DEF SelfieReads, At, CallsOK
  <2>2. [step |-> "save", counted |-> call[r].counted, old |-> call[r].old, hits |-> call[r].hits,
         ids |-> Showing(call[r].hits)] \in SaveCalls
    BY <2>1, ShowingTyped DEF IdsCalls, SaveCalls
  <2>3. CallsOK'
    BY <1>0, <1>6, <2>2, NewCall DEF SelfieReads, Calls
  <2> QED
    BY <1>0, <1>2, <1>6, <2>3 DEF SelfieReads, match, TypeOK, MatchOK, CallsOK
<1>7. CASE SelfieFails(r)
  <2>1. call[r] \in MatchCalls \cup IdsCalls
    BY <1>0, <1>7, CallFields DEF SelfieFails, At, CallsOK
  <2>2. [step |-> "save", counted |-> call[r].counted, old |-> call[r].old, hits |-> {}, ids |-> {}] \in SaveCalls
    BY <2>1 DEF MatchCalls, IdsCalls, SaveCalls
  <2>3. CallsOK'
    BY <1>0, <1>7, <2>2, NewCall DEF SelfieFails, Calls
  <2> QED
    BY <1>0, <1>2, <1>7, <2>3 DEF SelfieFails, match, TypeOK, MatchOK, CallsOK
<1>8. CASE SelfieSaves(r)
  <2>1. call[r] \in SaveCalls
    BY <1>0, <1>8, CallFields DEF SelfieSaves, At, CallsOK
  <2>2. Cardinality(call[r].ids) \in 0..Cardinality(Photo)
    BY <2>1, CountTyped DEF SaveCalls
  <2>3. MatchOK'
    BY <1>0, <1>8, <2>1, <2>2 DEF SelfieSaves, SaveCalls, MatchOK
  <2>4. [call EXCEPT ![r] = [step |-> "off"]] \in [Request -> Calls]
    BY <1>0, Simple DEF CallsOK
  <2>5. CallsOK'
    BY <1>8, <2>4, Outdates DEF SelfieSaves, MatchSteps, CallsOK
  <2> QED
    BY <1>2, <2>3, <2>5 DEF TypeOK, CallsOK
<1> QED
  BY <1>4, <1>5, <1>6, <1>7, <1>8 DEF Selfie, Matching

\* Toggling leaves all but the marks alone, and of the requests those that are not toggles.
ToggleCalled(r) ==
    /\ call'[r].step \in {"favorite", "share", "flip", "mark", "off"}
    /\ \A q \in Request \ {r} : call'[q] # call[q] => call[q].step \in {"share", "flip", "mark"}
    /\ \A q \in Request \ {r} : call'[q].step = call[q].step

LEMMA CommitCalled ==
  ASSUME CallsOK, NEW r \in Request, NEW steps \in SUBSET {"share", "flip", "mark"},
         call' = [Others(r, steps) EXCEPT ![r] = [step |-> "off"]]
  PROVE  /\ CallsOK' /\ ToggleCalled(r) /\ call'[r].step = "off"
         /\ \A q \in Request \ {r} : call'[q] = Others(r, steps)[q]
<1>1. Others(r, steps) \in [Request -> Calls]
  BY OthersAged
<1>2. /\ call' \in [Request -> Calls] /\ call'[r] = [step |-> "off"]
      /\ \A q \in Request \ {r} : call'[q] = Others(r, steps)[q]
  BY <1>1, Simple
<1>3. \A q \in Request : /\ Others(r, steps)[q].step = call[q].step
                         /\ call[q].step \notin steps => Others(r, steps)[q] = call[q]
  BY OthersAged
<1> QED
  BY <1>2, <1>3 DEF CallsOK, ToggleCalled

LEMMA FavoriteTyped ==
  ASSUME TypeOK, NEW r \in Request, Favorites(r)
  PROVE  MarksOK' /\ CallsOK' /\ ToggleCalled(r)
<1>0. CallsOK /\ PhotosOK /\ MarksOK
  BY DEF TypeOK, CallsOK
<1>1. ASSUME NEW p \in Photo, ToggleBegins(r, p, "favorite")
      PROVE  MarksOK' /\ CallsOK' /\ ToggleCalled(r)
  <2>1. [step |-> "favorite", photo |-> p, was |-> p \in shared, old |-> FALSE] \in ToggleCalls
    BY DEF ToggleCalls
  <2> QED
    BY <1>0, <1>1, <2>1, NewCall DEF ToggleBegins, Calls, ToggleCalled, photos, marks, MarksOK
<1>2. CASE FavoriteReads(r)
  <2>1. call[r] \in ToggleCalls
    BY <1>0, <1>2, CallFields DEF FavoriteReads, At, CallsOK
  <2>2. fav[call[r].photo] \in RowIds \cup {0}
    BY <1>0, <2>1 DEF MarksOK, ToggleCalls
  <2>3. [step |-> "mark", photo |-> call[r].photo, row |-> fav[call[r].photo], old |-> FALSE] \in MarkCalls
    BY <2>1, <2>2 DEF ToggleCalls, MarkCalls
  <2> QED
    BY <1>0, <1>2, <2>3, NewCall DEF FavoriteReads, Calls, ToggleCalled, photos, marks, MarksOK
<1>3. CASE FavoriteRemoves(r)
  <2>1. CallsOK' /\ ToggleCalled(r)
    BY <1>0, <1>3, CommitCalled DEF FavoriteRemoves
  <2>2. /\ fav' = [p \in Photo |-> IF fav[p] = call[r].row THEN 0 ELSE fav[p]]
        /\ likes' \subseteq likes /\ raced' \subseteq raced \cup {"favorite"} /\ UNCHANGED <<rows, shared, flips>>
    BY <1>3 DEF FavoriteRemoves, Tells, photos
  <2> QED
    BY <1>0, <2>1, <2>2 DEF MarksOK
<1>4. CASE FavoriteAdds(r)
  <2>1. CallsOK' /\ ToggleCalled(r)
    BY <1>0, <1>4, CommitCalled DEF FavoriteAdds
  <2>2. PICK p \in rows : /\ p = call[r].photo /\ fav[p] = 0
                          /\ fav' = [fav EXCEPT ![p] = FreshRow] /\ likes' = likes \cup {p}
    BY <1>4 DEF FavoriteAdds
  <2>3. raced' \subseteq raced \cup {"favorite"} /\ UNCHANGED <<rows, shared, flips>>
    BY <1>4 DEF FavoriteAdds, Tells, photos
  <2>4. FreshRow \in RowIds /\ p \in Photo
    BY <1>0, <2>2, FreshRowIsFresh DEF PhotosOK
  <2> QED
    BY <1>0, <2>1, <2>2, <2>3, <2>4 DEF MarksOK
<1> QED
  BY <1>1, <1>2, <1>3, <1>4 DEF Favorites

LEMMA ShareTyped ==
  ASSUME TypeOK, NEW r \in Request, Shares(r)
  PROVE  MarksOK' /\ CallsOK' /\ ToggleCalled(r)
<1>0. CallsOK /\ PhotosOK /\ MarksOK
  BY DEF TypeOK, CallsOK
<1>1. ASSUME NEW p \in Photo, ToggleBegins(r, p, "share")
      PROVE  MarksOK' /\ CallsOK' /\ ToggleCalled(r)
  <2>1. [step |-> "share", photo |-> p, was |-> p \in shared, old |-> FALSE] \in ToggleCalls
    BY DEF ToggleCalls
  <2> QED
    BY <1>0, <1>1, <2>1, NewCall DEF ToggleBegins, Calls, ToggleCalled, photos, marks, MarksOK
<1>2. CASE ShareReads(r)
  <2>1. call[r] \in ToggleCalls
    BY <1>0, <1>2, CallFields DEF ShareReads, At, CallsOK
  <2>2. [call[r] EXCEPT !.step = "flip"] \in ToggleCalls /\ [call[r] EXCEPT !.step = "flip"].step = "flip"
    BY <2>1 DEF ToggleCalls
  <2> QED
    BY <1>0, <1>2, <2>2, NewCall DEF ShareReads, Calls, ToggleCalled, photos, marks, MarksOK
<1>3. CASE ShareCommits(r)
  <2>1. CallsOK' /\ ToggleCalled(r)
    BY <1>0, <1>3, CommitCalled DEF ShareCommits
  <2>2. PICK p \in rows : /\ shared' \subseteq shared \cup {p} /\ flips' \subseteq flips \cup {p}
                          /\ raced' \subseteq raced \cup {"share"} /\ UNCHANGED <<rows, fav, likes>>
    BY <1>3 DEF ShareCommits, Tells, photos
  <2> QED
    BY <1>0, <2>1, <2>2 DEF MarksOK
<1> QED
  BY <1>1, <1>2, <1>3 DEF Shares

LEMMA ToggleTyped ==
  ASSUME TypeOK, NEW r \in Request, Toggle(r)
  PROVE  /\ TypeOK' /\ ToggleCalled(r)
         /\ UNCHANGED <<party, status, link, photos, people, signing, match>>
<1>1. UNCHANGED <<party, status, link, photos, people, signing, match>>
  BY DEF Toggle, Favorites, Shares, ToggleBegins, FavoriteReads, FavoriteRemoves, FavoriteAdds, ShareReads, ShareCommits
<1>2. EventOK' /\ PhotosOK' /\ MatchOK'
  BY <1>1 DEF photos, people, signing, match, TypeOK, EventOK, PhotosOK, MatchOK
<1> QED
  BY <1>1, <1>2, FavoriteTyped, ShareTyped DEF Toggle, TypeOK, CallsOK

\* The event behind the gallery.
LEMMA Disturbed ==
  ASSUME CallsOK, Disturbs
  PROVE  /\ CallsOK' /\ moved' = TRUE
         /\ \A q \in Request :
               /\ call'[q].step = call[q].step
               /\ call[q].step \notin {"ids", "save"} => call'[q] = call[q]
               /\ call[q].step \in {"ids", "save"} => call'[q].old = TRUE
  BY Outdates DEF Disturbs, CallsOK, MatchSteps

LEMMA BehindTyped ==
  ASSUME TypeOK, Behind \/ AskElsewhere \/ CodeExpires
  PROVE  TypeOK'
<1>0. CallsOK /\ EventOK /\ PhotosOK /\ MatchOK /\ MarksOK
  BY DEF TypeOK, CallsOK
<1>1. CASE UpdateSettings \/ SwitchLink \/ Reopens \/ Restores \/ Ready \/ AskElsewhere \/ CodeExpires
  <2>1. UNCHANGED <<photos, people, match, marks, call>>
    BY <1>1 DEF UpdateSettings, SwitchLink, Reopens, Restores, Ready, AskElsewhere, CodeExpires
  <2>2. EventOK'
    BY <1>0, <1>1 DEF UpdateSettings, SwitchLink, Reopens, Restores, Ready, AskElsewhere, CodeExpires, signing, EventOK
  <2> QED
    BY <1>0, <2>1, <2>2 DEF photos, people, match, marks, TypeOK, PhotosOK, MatchOK, MarksOK, CallsOK
<1>2. ASSUME NEW p \in Photo, Completes(p) PROVE TypeOK'
  BY <1>0, <1>2 DEF Completes, people, signing, match, marks, TypeOK, EventOK, PhotosOK, MatchOK, MarksOK, CallsOK
<1>3. CASE Disturbs /\ UNCHANGED <<matched, count>>
  <2>1. CallsOK' /\ MatchOK'
    BY <1>0, <1>3, Disturbed DEF MatchOK
  <2>2. CASE Archives
    BY <1>0, <2>1, <2>2 DEF Archives, signing, marks, TypeOK, EventOK, PhotosOK, MarksOK, CallsOK
  <2>3. ASSUME NEW p \in Photo, DeletePhoto(p) PROVE TypeOK'
    <3>1. PhotosOK' /\ MarksOK'
      BY <1>0, <2>3 DEF DeletePhoto, PhotosOK, MarksOK
    <3>2. EventOK'
      BY <1>0, <2>3 DEF DeletePhoto, signing, EventOK
    <3> QED
      BY <2>1, <3>1, <3>2 DEF TypeOK, CallsOK
  <2>4. ASSUME NEW p \in Photo, NEW c \in Cluster, FaceJoins(p, c) PROVE TypeOK'
    <3>1. PhotosOK'
      BY <1>0, <2>4 DEF FaceJoins, photos, PhotosOK
    <3>2. EventOK' /\ MarksOK'
      BY <1>0, <2>4 DEF FaceJoins, photos, signing, marks, EventOK, MarksOK
    <3> QED
      BY <2>1, <3>1, <3>2 DEF TypeOK, CallsOK
  <2>5. ASSUME NEW c \in Cluster, NEW d \in Cluster, Merges(c, d) PROVE TypeOK'
    <3>1. PhotosOK'
      BY <1>0, <2>5 DEF Merges, photos, PhotosOK
    <3>2. EventOK' /\ MarksOK'
      BY <1>0, <2>5 DEF Merges, photos, signing, marks, EventOK, MarksOK
    <3> QED
      BY <2>1, <3>1, <3>2 DEF TypeOK, CallsOK
  <2>6. ASSUME Behind,
               ~(UpdateSettings \/ SwitchLink \/ Reopens \/ Restores \/ Ready), \A p \in Photo : ~Completes(p)
        PROVE  TypeOK'
    BY <2>2, <2>3, <2>4, <2>5, <2>6 DEF Behind
  <2> QED
    BY <1>1, <1>2, <2>6
<1>4. ASSUME Behind, ~(UpdateSettings \/ SwitchLink \/ Reopens \/ Restores \/ Ready), \A p \in Photo : ~Completes(p)
      PROVE  Disturbs /\ UNCHANGED <<matched, count>>
  BY <1>4 DEF Behind, Archives, DeletePhoto, FaceJoins, Merges
<1> QED
  BY <1>1, <1>2, <1>3, <1>4

LEMMA NextTyped == TypeOK /\ [Next]_vars => TypeOK'
<1> SUFFICES ASSUME TypeOK, [Next]_vars PROVE TypeOK'
  OBVIOUS
<1>1. CASE UNCHANGED vars
  BY <1>1 DEF vars, photos, people, signing, match, marks, TypeOK, EventOK, PhotosOK, MatchOK, MarksOK
<1> QED
  BY <1>1, SignInSteps, SelfieTyped, ToggleTyped, BehindTyped DEF Next

\* The event, its photos and people, the sessions and marks, and what the requests hold, keep
\* their types.
THEOREM GalleryTypeCorrect == Spec => []TypeOK
<1> QED
  BY InitTyped, NextTyped, PTL DEF Spec

-----------------------------------------------------------------------------
(* The stored match *)

\* Requests that do not match, and steps that leave people and match alone, do not disturb it.
LEMMA MatchStays ==
  ASSUME MatchInv, UNCHANGED <<faces, live, matched, count, moved>>,
         \A q \in Request : call'[q].step \in MatchSteps => call'[q] = call[q]
  PROVE  MatchInv'
<1>1. \A S : Showing(S)' = Showing(S)
  BY DEF Showing
<1>2. CountIsServed'
  BY <1>1 DEF MatchInv, CountIsServed
<1>3. \A q \in Request : call'[q].step \in {"ids", "save"} => call'[q].step \in MatchSteps
  BY DEF MatchSteps
<1> QED
  BY <1>1, <1>2, <1>3 DEF MatchInv, MatchSteps

LEMMA SelfieKeepsMatch ==
  ASSUME TypeOK, MatchInv, NEW r \in Request, Selfie(r)
  PROVE  MatchInv'
<1>0. CallsOK
  BY DEF TypeOK, CallsOK
<1>1. UNCHANGED <<faces, live>> /\ \A S : Showing(S)' = Showing(S)
  BY DEF Selfie, Matching, SelfieBegins, SelfieMatches, SelfieReads, SelfieFails, SelfieSaves, people, Showing
<1>2. CASE SelfieSaves(r)
  <2>1. [call EXCEPT ![r] = [step |-> "off"]] \in [Request -> Calls]
    BY <1>0, Simple DEF CallsOK
  <2> DEFINE calls == [call EXCEPT ![r] = [step |-> "off"]]
  <2>2. call' = Outdate(calls, MatchSteps) /\ moved' = call[r].old /\ matched' = call[r].hits
    BY <1>2 DEF SelfieSaves, MatchSteps
  <2>3. \A q \in Request : call'[q].step \in MatchSteps => call'[q].old = TRUE
    <3> HIDE DEF calls
    <3> QED
      BY <2>1, <2>2, Outdates DEF calls
  <2>4. CountIsServed'
    <3> SUFFICES ASSUME ~moved' PROVE matched' \subseteq live' /\ count' = Cardinality(Showing(matched)')
      BY DEF CountIsServed
    <3>1. call[r].step = "save" /\ ~call[r].old
      BY <1>2, <2>2 DEF SelfieSaves, At
    <3>2. call[r].counted = count /\ call[r].hits \subseteq live /\ call[r].ids = Showing(call[r].hits)
      BY <3>1 DEF MatchInv, MatchSteps
    <3>3. count' = Cardinality(call[r].ids)
      BY <1>2, <3>2 DEF SelfieSaves
    <3>4. Showing(matched)' = Showing(call[r].hits)
      BY <1>1, <2>2 DEF Showing
    <3> QED
      BY <1>1, <2>2, <3>2, <3>3, <3>4
  <2>5. \A q \in Request : call'[q].step \in {"ids", "save"} => call'[q].step \in MatchSteps
    BY DEF MatchSteps
  <2> QED
    BY <2>3, <2>4, <2>5 DEF MatchInv
<1>3. ASSUME UNCHANGED match, NEW c, Goes(r, c),
             c.step \in MatchSteps /\ ~c.old => c.counted = count,
             c.step \in {"ids", "save"} /\ ~c.old => c.hits \subseteq live,
             c.step = "save" /\ ~c.old => c.ids = Showing(c.hits)
      PROVE  MatchInv'
  <2>1. call'[r] = c /\ \A q \in Request \ {r} : call'[q] = call[q]
    BY <1>0, <1>3 DEF Goes, CallsOK
  <2>2. CountIsServed'
    BY <1>1, <1>3 DEF match, MatchInv, CountIsServed
  <2> QED
    BY <1>1, <1>3, <2>1, <2>2 DEF match, MatchInv
<1>4. CASE SelfieBegins(r)
  <2> DEFINE c == [step |-> "match", counted |-> count, old |-> FALSE]
  <2>1. UNCHANGED match /\ Goes(r, c) /\ c.step = "match" /\ c.counted = count
    BY <1>4 DEF SelfieBegins
  <2> HIDE DEF c
  <2> QED
    BY <1>3, <2>1
<1>5. CASE SelfieMatches(r)
  <2>1. PICK hits \in SUBSET live :
           Goes(r, [step |-> "ids", counted |-> call[r].counted, old |-> call[r].old, hits |-> hits])
    BY <1>5 DEF SelfieMatches
  <2> DEFINE c == [step |-> "ids", counted |-> call[r].counted, old |-> call[r].old, hits |-> hits]
  <2>2. ~call[r].old => call[r].counted = count
    BY <1>5 DEF SelfieMatches, At, MatchInv, MatchSteps
  <2>3. /\ UNCHANGED match /\ Goes(r, c) /\ c.step = "ids" /\ c.hits \subseteq live
        /\ ~c.old => c.counted = count
    BY <1>5, <2>1, <2>2 DEF SelfieMatches
  <2> HIDE DEF c
  <2> QED
    BY <1>3, <2>3
<1>6. CASE SelfieReads(r)
  <2> DEFINE c == [step |-> "save", counted |-> call[r].counted, old |-> call[r].old, hits |-> call[r].hits,
                   ids |-> Showing(call[r].hits)]
  <2>1. ~call[r].old => call[r].counted = count /\ call[r].hits \subseteq live
    BY <1>6 DEF SelfieReads, At, MatchInv, MatchSteps
  <2>2. /\ UNCHANGED match /\ Goes(r, c) /\ c.ids = Showing(c.hits)
        /\ ~c.old => c.counted = count /\ c.hits \subseteq live
    BY <1>6, <2>1 DEF SelfieReads
  <2> HIDE DEF c
  <2> QED
    BY <1>3, <2>2
<1>7. CASE SelfieFails(r)
  <2> DEFINE c == [step |-> "save", counted |-> call[r].counted, old |-> call[r].old, hits |-> {}, ids |-> {}]
  <2>1. ~call[r].old => call[r].counted = count
    BY <1>7 DEF SelfieFails, At, MatchInv, MatchSteps
  <2>2. /\ UNCHANGED match /\ Goes(r, c) /\ c.hits = {} /\ c.ids = Showing(c.hits)
        /\ ~c.old => c.counted = count
    BY <1>7, <2>1 DEF SelfieFails, Showing
  <2> HIDE DEF c
  <2> QED
    BY <1>3, <2>2
<1> QED
  BY <1>2, <1>4, <1>5, <1>6, <1>7 DEF Selfie, Matching

LEMMA MatchKept == TypeOK /\ MatchInv /\ [Next]_vars => MatchInv'
<1> SUFFICES ASSUME TypeOK, MatchInv, [Next]_vars PROVE MatchInv'
  OBVIOUS
<1>0. CallsOK
  BY DEF TypeOK, CallsOK
<1>1. ASSUME NEW r \in Request, SignIn(r) \/ Fails(r) PROVE MatchInv'
  <2>1. /\ UNCHANGED <<faces, live, matched, count, moved>> /\ call'[r].step \notin MatchSteps
        /\ \A q \in Request \ {r} : call'[q] = call[q]
    BY <1>1, SignInSteps DEF people, match, AgedSteps
  <2> QED
    BY <2>1, MatchStays
<1>2. ASSUME NEW r \in Request, Toggle(r) PROVE MatchInv'
  <2>1. UNCHANGED <<faces, live, matched, count, moved>> /\ ToggleCalled(r)
    BY <1>2, ToggleTyped DEF people, match
  <2>2. \A q \in Request : call'[q].step \in MatchSteps => call'[q] = call[q]
    BY <2>1 DEF ToggleCalled, MatchSteps
  <2> QED
    BY <2>1, <2>2, MatchStays
<1>3. ASSUME NEW r \in Request, Selfie(r) PROVE MatchInv'
  BY <1>3, SelfieKeepsMatch
<1>4. CASE UNCHANGED <<faces, live, match, call>>
  BY <1>4, MatchStays DEF match
<1>5. CASE Disturbs /\ UNCHANGED <<matched, count>>
  <2>1. /\ moved' = TRUE
        /\ \A q \in Request :
               /\ call'[q].step = call[q].step
               /\ call[q].step \notin {"ids", "save"} => call'[q] = call[q]
               /\ call[q].step \in {"ids", "save"} => call'[q].old = TRUE
    BY <1>0, <1>5, Disturbed
  <2>2. CountIsServed'
    BY <2>1 DEF CountIsServed
  <2> QED
    BY <1>5, <2>1, <2>2 DEF MatchInv, MatchSteps
<1>6. ASSUME Behind \/ AskElsewhere \/ CodeExpires \/ UNCHANGED vars
      PROVE  UNCHANGED <<faces, live, match, call>> \/ (Disturbs /\ UNCHANGED <<matched, count>>)
  BY <1>6 DEF Behind, UpdateSettings, SwitchLink, Reopens, Restores, Ready, Completes, Archives, DeletePhoto, FaceJoins,
     Merges, AskElsewhere, CodeExpires, vars, people
<1> QED
  BY <1>1, <1>2, <1>3, <1>4, <1>5, <1>6 DEF Next

\* The count that is stored with a guest's match is the number of photos in the guest's gallery,
\* unless the event has changed since or another selfie of the guest was saved meanwhile
\* (guest_service.py:66).
THEOREM CountsAreServed == Spec => []CountIsServed
<1>1. Init => MatchInv
  <2> SUFFICES ASSUME Init PROVE MatchInv
    OBVIOUS
  <2>1. Cardinality({}) = 0
    BY FS_EmptySet
  <2>2. Showing({}) = {} /\ matched = {} /\ count = 0 /\ \A r \in Request : call[r].step = "off"
    BY DEF Init, Showing
  <2> QED
    BY <2>1, <2>2 DEF MatchInv, CountIsServed, MatchSteps
<1>2. MatchInv => CountIsServed
  BY DEF MatchInv
<1> QED
  BY <1>1, <1>2, InitTyped, NextTyped, MatchKept, PTL DEF Spec

-----------------------------------------------------------------------------
(* The couple's marks *)

MarkSteps == {"share", "flip", "mark"}

LEMMA MarksStay ==
  ASSUME ShareInv, FavoriteInv, UNCHANGED <<rows, marks>>,
         \A q \in Request : call'[q].step \in MarkSteps => call'[q] = call[q]
  PROVE  ShareInv' /\ FavoriteInv'
<1>1. ShareInv'
  BY DEF marks, ShareInv, MarkSteps
<1>2. Favored' = Favored
  BY DEF marks, Favored
<1> QED
  BY <1>1, <1>2 DEF marks, FavoriteInv, MarkSteps

\* A new call of r, with the marks as they were.
LEMMA MarksRead ==
  ASSUME ShareInv, FavoriteInv, CallsOK, UNCHANGED <<rows, marks>>, NEW r \in Request, NEW c, Goes(r, c),
         c.step \in {"share", "flip"} /\ c.photo \in rows /\ ~c.old => (c.was <=> c.photo \in shared),
         c.step = "mark" =>
            /\ c.row # 0 => \A q \in Photo : fav[q] = c.row => q = c.photo
            /\ c.photo \in rows /\ ~c.old => c.row = fav[c.photo]
  PROVE  ShareInv' /\ FavoriteInv'
<1>1. call'[r] = c /\ \A q \in Request \ {r} : call'[q] = call[q]
  BY DEF Goes, CallsOK
<1>2. ShareInv'
  BY <1>1 DEF marks, ShareInv
<1>3. Favored' = Favored
  BY DEF marks, Favored
<1>4. FavoriteInv'
  BY <1>1, <1>3 DEF marks, FavoriteInv
<1> QED
  BY <1>2, <1>4

\* The other requests when r commits: those of the same photo are outdated.
LEMMA OthersLeft ==
  ASSUME CallsOK, NEW r \in Request, NEW steps \in SUBSET MarkSteps,
         call' = [Others(r, steps) EXCEPT ![r] = [step |-> "off"]]
  PROVE  /\ call'[r].step = "off"
         /\ \A q \in Request \ {r} :
               /\ call'[q].step = call[q].step
               /\ call[q].step = "mark" => call'[q].photo = call[q].photo /\ call'[q].row = call[q].row
               /\ ~call'[q].old /\ call[q].step \in AgedSteps => call'[q] = call[q]
               /\ ~call'[q].old /\ call[q].step \in steps => call[q].photo # call[r].photo
<1>1. call'[r].step = "off" /\ \A q \in Request \ {r} : call'[q] = Others(r, steps)[q]
  BY CommitCalled DEF MarkSteps
<1>2. \A q \in Request :
         /\ Others(r, steps)[q].step = call[q].step
         /\ Others(r, steps)[q] = call[q] \/ Others(r, steps)[q].old = TRUE
         /\ q # r /\ call[q].step \in steps /\ call[q].photo = call[r].photo => Others(r, steps)[q].old = TRUE
         /\ call[q].step = "mark" =>
               Others(r, steps)[q].photo = call[q].photo /\ Others(r, steps)[q].row = call[q].row
  BY OthersAged DEF MarkSteps
<1> QED
  BY <1>1, <1>2

LEMMA FavoritesKeepMarks ==
  ASSUME TypeOK, ShareInv, FavoriteInv, NEW r \in Request, Favorites(r)
  PROVE  ShareInv' /\ FavoriteInv'
<1>0. CallsOK /\ PhotosOK /\ MarksOK
  BY DEF TypeOK, CallsOK
<1>1. ASSUME NEW p \in Photo, ToggleBegins(r, p, "favorite")
      PROVE  ShareInv' /\ FavoriteInv'
  <2> DEFINE c == [step |-> "favorite", photo |-> p, was |-> p \in shared, old |-> FALSE]
  <2>1. Goes(r, c) /\ c.step = "favorite" /\ UNCHANGED <<rows, marks>>
    BY <1>1 DEF ToggleBegins, photos
  <2> HIDE DEF c
  <2> QED
    BY <1>0, <2>1, MarksRead
<1>2. CASE FavoriteReads(r)
  <2> DEFINE c == [step |-> "mark", photo |-> call[r].photo, row |-> fav[call[r].photo], old |-> FALSE]
  <2>1. call[r].photo \in Photo
    BY <1>0, <1>2, CallFields DEF FavoriteReads, At, CallsOK, ToggleCalls
  <2>2. /\ Goes(r, c) /\ c.step = "mark" /\ UNCHANGED <<rows, marks>>
        /\ c.photo = call[r].photo /\ c.row = fav[call[r].photo]
    BY <1>2 DEF FavoriteReads, photos
  <2>3. c.row # 0 => \A q \in Photo : fav[q] = c.row => q = c.photo
    BY <2>1 DEF FavoriteInv
  <2> HIDE DEF c
  <2> QED
    BY <1>0, <2>2, <2>3, MarksRead
<1>3. ASSUME call[r].step = "mark", call' = [Others(r, {"mark"}) EXCEPT ![r] = [step |-> "off"]],
             UNCHANGED <<rows, shared, flips>>, Tells(r, "favorite")
      PROVE  ShareInv'
  <2>1. {"mark"} \in SUBSET MarkSteps
    BY DEF MarkSteps
  <2>2. /\ call'[r].step = "off"
        /\ \A q \in Request \ {r} : /\ call'[q].step = call[q].step
                                    /\ ~call'[q].old /\ call[q].step \in AgedSteps => call'[q] = call[q]
    BY <1>0, <1>3, <2>1, OthersLeft
  <2>3. "share" \notin raced' => "share" \notin raced
    BY <1>3 DEF Tells
  <2> QED
    BY <1>3, <2>2, <2>3 DEF ShareInv, AgedSteps
<1>4. CASE FavoriteRemoves(r)
  <2> DEFINE p == call[r].photo
             row == call[r].row
  <2>1. call[r].step = "mark" /\ p \in Photo /\ row # 0
    BY <1>0, <1>4, CallFields DEF FavoriteRemoves, At, CallsOK, MarkCalls
  <2>2. /\ call' = [Others(r, {"mark"}) EXCEPT ![r] = [step |-> "off"]]
        /\ UNCHANGED <<rows, shared, flips>> /\ Tells(r, "favorite")
        /\ fav' = [q \in Photo |-> IF fav[q] = row THEN 0 ELSE fav[q]] /\ likes' = likes \ {p}
    BY <1>4 DEF FavoriteRemoves, photos
  <2>3. /\ call'[r].step = "off"
        /\ \A q \in Request \ {r} :
               /\ call'[q].step = call[q].step
               /\ call[q].step = "mark" => call'[q].photo = call[q].photo /\ call'[q].row = call[q].row
               /\ ~call'[q].old /\ call[q].step = "mark" => call'[q] = call[q] /\ call[q].photo # p
    <3>1. {"mark"} \in SUBSET MarkSteps /\ "mark" \in AgedSteps
      BY DEF MarkSteps, AgedSteps
    <3>2. call' = [Others(r, {"mark"}) EXCEPT ![r] = [step |-> "off"]]
      BY <2>2
    <3>3. /\ call'[r].step = "off"
          /\ \A q \in Request \ {r} :
               /\ call'[q].step = call[q].step
               /\ call[q].step = "mark" => call'[q].photo = call[q].photo /\ call'[q].row = call[q].row
               /\ ~call'[q].old /\ call[q].step \in AgedSteps => call'[q] = call[q]
               /\ ~call'[q].old /\ call[q].step \in {"mark"} => call[q].photo # call[r].photo
      BY <1>0, <3>1, <3>2, OthersLeft
    <3> QED
      BY <2>2, <3>1, <3>3
  <2>4. \A q \in Photo : fav'[q] = IF fav[q] = row THEN 0 ELSE fav[q]
    BY <2>2
  <2>5. /\ \A q \in Photo : fav[q] = row => q = p
        /\ p \in rows /\ ~call[r].old => row = fav[p]
    BY <2>1 DEF FavoriteInv
  <2>6. "favorite" \notin raced' => likes' = Favored'
    <3> SUFFICES ASSUME "favorite" \notin raced' PROVE likes' = Favored'
      OBVIOUS
    <3>1. "favorite" \notin raced /\ ~call[r].old
      BY <2>2 DEF Tells
    <3>2. likes = Favored
      BY <3>1 DEF FavoriteInv
    <3>3. fav[p] # 0 => fav[p] = row
      BY <1>0, <2>1, <2>5, <3>1 DEF MarksOK
    <3>4. \A q \in Photo : fav'[q] # 0 <=> fav[q] # 0 /\ q # p
      BY <2>1, <2>4, <2>5, <3>3
    <3> QED
      BY <2>2, <3>2, <3>4 DEF Favored
  <2>7. \A x, y \in Photo : fav'[x] = fav'[y] /\ fav'[x] # 0 => x = y
    BY <2>4 DEF FavoriteInv
  <2>8. ASSUME NEW q \in Request, call'[q].step = "mark"
        PROVE  /\ call'[q].row # 0 => \A x \in Photo : fav'[x] = call'[q].row => x = call'[q].photo
               /\ call'[q].photo \in rows' /\ ~call'[q].old => call'[q].row = fav'[call'[q].photo]
    <3>1. q # r /\ call[q].step = "mark" /\ call'[q].photo = call[q].photo /\ call'[q].row = call[q].row
      BY <2>3, <2>8
    <3>2. /\ call[q].row # 0 => \A x \in Photo : fav[x] = call[q].row => x = call[q].photo
          /\ call[q].photo \in rows /\ ~call[q].old => call[q].row = fav[call[q].photo]
      BY <3>1 DEF FavoriteInv
    <3>3. call[q].photo \in Photo
      BY <1>0, <3>1, CallFields DEF CallsOK, MarkCalls
    <3>4. ~call'[q].old => ~call[q].old /\ call[q].photo # p
      BY <2>3, <3>1
    <3>5. call[q].photo # p => fav'[call[q].photo] = fav[call[q].photo]
      BY <2>4, <2>5, <3>3
    <3> QED
      BY <2>2, <2>4, <3>1, <3>2, <3>3, <3>4, <3>5
  <2>9. FavoriteInv'
    BY <2>6, <2>7, <2>8 DEF FavoriteInv
  <2> QED
    BY <1>3, <2>1, <2>2, <2>9
<1>5. CASE FavoriteAdds(r)
  <2>1. PICK p \in rows :
           /\ p = call[r].photo /\ fav[p] = 0
           /\ fav' = [fav EXCEPT ![p] = FreshRow] /\ likes' = likes \cup {p}
           /\ call' = [Others(r, {"mark"}) EXCEPT ![r] = [step |-> "off"]]
           /\ UNCHANGED <<rows, shared, flips>> /\ Tells(r, "favorite") /\ call[r].step = "mark"
    BY <1>5 DEF FavoriteAdds, photos, At
  <2>2. p \in Photo /\ fav \in [Photo -> RowIds \cup {0}]
    BY <1>0, <2>1 DEF PhotosOK, MarksOK
  <2>3. /\ FreshRow # 0 /\ \A q \in Photo : fav[q] # FreshRow
        /\ \A q \in Request : call[q].step = "mark" => call[q].row # FreshRow
    BY <1>0, <2>1, <2>2, FreshRowIsFresh
  <2>4. \A q \in Photo : fav'[q] = IF q = p THEN FreshRow ELSE fav[q]
    BY <2>1, <2>2
  <2>5. /\ call'[r].step = "off"
        /\ \A q \in Request \ {r} :
               /\ call'[q].step = call[q].step
               /\ call[q].step = "mark" => call'[q].photo = call[q].photo /\ call'[q].row = call[q].row
               /\ ~call'[q].old /\ call[q].step = "mark" => call'[q] = call[q] /\ call[q].photo # p
    <3>1. {"mark"} \in SUBSET MarkSteps /\ "mark" \in AgedSteps
      BY DEF MarkSteps, AgedSteps
    <3>2. call' = [Others(r, {"mark"}) EXCEPT ![r] = [step |-> "off"]]
      BY <2>1
    <3>3. /\ call'[r].step = "off"
          /\ \A q \in Request \ {r} :
               /\ call'[q].step = call[q].step
               /\ call[q].step = "mark" => call'[q].photo = call[q].photo /\ call'[q].row = call[q].row
               /\ ~call'[q].old /\ call[q].step \in AgedSteps => call'[q] = call[q]
               /\ ~call'[q].old /\ call[q].step \in {"mark"} => call[q].photo # call[r].photo
      BY <1>0, <3>1, <3>2, OthersLeft
    <3> QED
      BY <2>1, <3>1, <3>3
  <2>6. "favorite" \notin raced' => likes' = Favored'
    <3>1. "favorite" \notin raced' => likes = Favored
      BY <2>1 DEF Tells, FavoriteInv
    <3>2. \A q \in Photo : fav'[q] # 0 <=> fav[q] # 0 \/ q = p
      BY <2>3, <2>4
    <3> QED
      BY <2>1, <2>2, <3>1, <3>2 DEF Favored
  <2>7. \A x, y \in Photo : fav'[x] = fav'[y] /\ fav'[x] # 0 => x = y
    BY <2>3, <2>4 DEF FavoriteInv
  <2>8. ASSUME NEW q \in Request, call'[q].step = "mark"
        PROVE  /\ call'[q].row # 0 => \A x \in Photo : fav'[x] = call'[q].row => x = call'[q].photo
               /\ call'[q].photo \in rows' /\ ~call'[q].old => call'[q].row = fav'[call'[q].photo]
    <3>1. q # r /\ call[q].step = "mark" /\ call'[q].photo = call[q].photo /\ call'[q].row = call[q].row
      BY <2>5, <2>8
    <3>2. /\ call[q].row # 0 => \A x \in Photo : fav[x] = call[q].row => x = call[q].photo
          /\ call[q].photo \in rows /\ ~call[q].old => call[q].row = fav[call[q].photo]
          /\ call[q].row # FreshRow
      BY <2>3, <3>1 DEF FavoriteInv
    <3>3. call[q].photo \in Photo
      BY <1>0, <3>1, CallFields DEF CallsOK, MarkCalls
    <3>4. ~call'[q].old => ~call[q].old /\ call[q].photo # p
      BY <2>5, <3>1
    <3> QED
      BY <2>1, <2>4, <3>1, <3>2, <3>3, <3>4
  <2>9. FavoriteInv'
    BY <2>6, <2>7, <2>8 DEF FavoriteInv
  <2> QED
    BY <1>3, <2>1, <2>9
<1> QED
  BY <1>1, <1>2, <1>4, <1>5 DEF Favorites

LEMMA SharesKeepMarks ==
  ASSUME TypeOK, ShareInv, FavoriteInv, NEW r \in Request, Shares(r)
  PROVE  ShareInv' /\ FavoriteInv'
<1>0. CallsOK /\ PhotosOK /\ MarksOK
  BY DEF TypeOK, CallsOK
<1>1. ASSUME NEW p \in Photo, ToggleBegins(r, p, "share")
      PROVE  ShareInv' /\ FavoriteInv'
  <2> DEFINE c == [step |-> "share", photo |-> p, was |-> p \in shared, old |-> FALSE]
  <2>1. /\ Goes(r, c) /\ c.step = "share" /\ UNCHANGED <<rows, marks>>
        /\ c.was <=> c.photo \in shared
    BY <1>1 DEF ToggleBegins, photos
  <2> HIDE DEF c
  <2> QED
    BY <1>0, <2>1, MarksRead
<1>2. CASE ShareReads(r)
  <2> DEFINE c == [call[r] EXCEPT !.step = "flip"]
  <2>1. call[r] \in ToggleCalls /\ call[r].step = "share"
    BY <1>0, <1>2, CallFields DEF ShareReads, At, CallsOK
  <2>2. c.step = "flip" /\ c.photo = call[r].photo /\ c.was = call[r].was /\ c.old = call[r].old
    BY <2>1 DEF ToggleCalls
  <2>3. Goes(r, c) /\ UNCHANGED <<rows, marks>>
    BY <1>2 DEF ShareReads, photos
  <2>4. call[r].photo \in rows /\ ~call[r].old => (call[r].was <=> call[r].photo \in shared)
    BY <2>1 DEF ShareInv
  <2> HIDE DEF c
  <2>5. c.photo \in rows /\ ~c.old => (c.was <=> c.photo \in shared)
    BY <2>2, <2>4
  <2>6. c.step # "mark"
    BY <2>2
  <2> QED
    BY <1>0, <2>3, <2>5, <2>6, MarksRead
<1>3. CASE ShareCommits(r)
  <2> DEFINE steps == {"share", "flip"}
  <2>1. PICK p \in rows :
           /\ p = call[r].photo /\ call[r].step = "flip"
           /\ shared' = IF call[r].was THEN shared \ {p} ELSE shared \cup {p}
           /\ flips' = IF p \in flips THEN flips \ {p} ELSE flips \cup {p}
           /\ call' = [Others(r, steps) EXCEPT ![r] = [step |-> "off"]]
           /\ UNCHANGED <<rows, fav, likes>> /\ Tells(r, "share")
    BY <1>3 DEF ShareCommits, photos, At
  <2>2. /\ call'[r].step = "off"
        /\ \A q \in Request \ {r} :
               /\ call'[q].step = call[q].step
               /\ ~call'[q].old /\ call[q].step \in AgedSteps => call'[q] = call[q]
               /\ ~call'[q].old /\ call[q].step \in steps => call[q].photo # p
    <3>1. steps \in SUBSET MarkSteps
      BY DEF MarkSteps
    <3>2. call' = [Others(r, steps) EXCEPT ![r] = [step |-> "off"]]
      BY <2>1
    <3> HIDE DEF steps
    <3>3. /\ call'[r].step = "off"
          /\ \A q \in Request \ {r} :
               /\ call'[q].step = call[q].step
               /\ call[q].step = "mark" => call'[q].photo = call[q].photo /\ call'[q].row = call[q].row
               /\ ~call'[q].old /\ call[q].step \in AgedSteps => call'[q] = call[q]
               /\ ~call'[q].old /\ call[q].step \in steps => call[q].photo # call[r].photo
      BY <1>0, <3>1, <3>2, OthersLeft
    <3> QED
      BY <2>1, <3>3
  <2>3. "share" \notin raced' => shared' = flips'
    <3> SUFFICES ASSUME "share" \notin raced' PROVE shared' = flips'
      OBVIOUS
    <3>1. "share" \notin raced /\ ~call[r].old
      BY <2>1 DEF Tells
    <3>2. shared = flips /\ (call[r].was <=> p \in shared)
      BY <2>1, <3>1 DEF ShareInv
    <3> QED
      BY <2>1, <3>2
  <2>4. ASSUME NEW q \in Request, call'[q].step \in {"share", "flip"}, call'[q].photo \in rows', ~call'[q].old
        PROVE  call'[q].was <=> call'[q].photo \in shared'
    <3>1. q # r /\ call'[q] = call[q] /\ call[q].photo # p
      BY <2>2, <2>4 DEF AgedSteps
    <3>2. call[q].was <=> call[q].photo \in shared
      BY <2>1, <2>4, <3>1 DEF ShareInv
    <3> QED
      BY <2>1, <3>1, <3>2
  <2>5. ShareInv'
    BY <2>3, <2>4 DEF ShareInv
  <2>6. \A q \in Request : call'[q].step = "mark" => call'[q] = call[q]
    <3>1. {"share", "flip"} \in SUBSET MarkSteps
      BY DEF MarkSteps
    <3>2. \A q \in Request \ {r} : call'[q] = Others(r, steps)[q]
      BY <1>0, <2>1, <3>1, CommitCalled DEF MarkSteps
    <3>3. \A q \in Request : call[q].step \notin steps => Others(r, steps)[q] = call[q]
      BY <1>0, <3>1, OthersAged DEF MarkSteps
    <3> QED
      BY <2>2, <3>2, <3>3
  <2>7. Favored' = Favored /\ ("favorite" \notin raced' => "favorite" \notin raced)
    BY <2>1 DEF Favored, Tells
  <2>8. FavoriteInv'
    BY <2>1, <2>6, <2>7 DEF FavoriteInv
  <2> QED
    BY <2>5, <2>8
<1> QED
  BY <1>1, <1>2, <1>3 DEF Shares

\* A deleted photo takes its marks with it; requests that still hold them find no photo.
LEMMA DeletingKeepsMarks ==
  ASSUME TypeOK, ShareInv, FavoriteInv, NEW p \in Photo, DeletePhoto(p)
  PROVE  ShareInv' /\ FavoriteInv'
<1>0. CallsOK /\ MarksOK
  BY DEF TypeOK, CallsOK
<1>1. \A q \in Request : call'[q].step \in MarkSteps => call'[q] = call[q]
  BY <1>0, Disturbed DEF DeletePhoto, MarkSteps
<1>2. /\ rows' = rows \ {p} /\ shared' = shared \ {p} /\ flips' = flips \ {p} /\ likes' = likes \ {p}
      /\ raced' = raced /\ \A q \in Photo : fav'[q] = IF q = p THEN 0 ELSE fav[q]
  BY <1>0 DEF DeletePhoto, MarksOK
<1>3. ShareInv'
  BY <1>1, <1>2 DEF ShareInv, MarkSteps
<1>4. Favored' = Favored \ {p}
  BY <1>2 DEF Favored
<1>5. \A x, y \in Photo : fav'[x] = fav'[y] /\ fav'[x] # 0 => x = y
  BY <1>2 DEF FavoriteInv
<1>6. ASSUME NEW q \in Request, call'[q].step = "mark"
      PROVE  /\ call'[q].row # 0 => \A x \in Photo : fav'[x] = call'[q].row => x = call'[q].photo
             /\ call'[q].photo \in rows' /\ ~call'[q].old => call'[q].row = fav'[call'[q].photo]
  <2>1. call'[q] = call[q]
    BY <1>1, <1>6 DEF MarkSteps
  <2>2. call[q].photo \in Photo
    BY <1>0, <1>6, <2>1, CallFields DEF CallsOK, MarkCalls
  <2> QED
    BY <1>2, <1>6, <2>1, <2>2 DEF FavoriteInv
<1>7. FavoriteInv'
  BY <1>2, <1>4, <1>5, <1>6 DEF FavoriteInv
<1> QED
  BY <1>3, <1>7

LEMMA MarksKept == TypeOK /\ ShareInv /\ FavoriteInv /\ [Next]_vars => ShareInv' /\ FavoriteInv'
<1> SUFFICES ASSUME TypeOK, ShareInv, FavoriteInv, [Next]_vars PROVE ShareInv' /\ FavoriteInv'
  OBVIOUS
<1>0. CallsOK
  BY DEF TypeOK, CallsOK
<1>1. ASSUME NEW r \in Request, SignIn(r) \/ Fails(r) PROVE ShareInv' /\ FavoriteInv'
  <2>1. /\ UNCHANGED <<rows, marks>> /\ call'[r].step \notin MarkSteps
        /\ \A q \in Request \ {r} : call'[q] = call[q]
    BY <1>1, SignInSteps DEF photos, AgedSteps, MarkSteps
  <2> QED
    BY <2>1, MarksStay
<1>2. ASSUME NEW r \in Request, Selfie(r) PROVE ShareInv' /\ FavoriteInv'
  <2>1. UNCHANGED <<rows, marks>>
    BY <1>2 DEF Selfie, Matching, SelfieBegins, SelfieMatches, SelfieReads, SelfieFails, SelfieSaves, photos
  <2>2. CASE SelfieSaves(r)
    <3> DEFINE calls == [call EXCEPT ![r] = [step |-> "off"]]
    <3>1. calls \in [Request -> Calls] /\ calls[r].step = "off" /\ \A q \in Request \ {r} : calls[q] = call[q]
      BY <1>0, Simple DEF CallsOK
    <3>2. call' = Outdate(calls, MatchSteps)
      BY <2>2 DEF SelfieSaves, MatchSteps
    <3> HIDE DEF calls
    <3>3. \A q \in Request : /\ call'[q].step = calls[q].step
                             /\ calls[q].step \notin MatchSteps => call'[q] = calls[q]
      BY <3>1, <3>2, Outdates
    <3>4. \A q \in Request : call'[q].step \in MarkSteps => call'[q] = call[q]
      BY <3>1, <3>3 DEF MarkSteps, MatchSteps
    <3> QED
      BY <2>1, <3>4, MarksStay
  <2>3. ASSUME NEW c, Goes(r, c), c.step \in MatchSteps PROVE ShareInv' /\ FavoriteInv'
    <3>1. c.step \notin MarkSteps
      BY <2>3 DEF MarkSteps, MatchSteps
    <3>2. call'[r] = c /\ \A q \in Request \ {r} : call'[q] = call[q]
      BY <1>0, <2>3 DEF Goes, CallsOK
    <3> QED
      BY <2>1, <3>1, <3>2, MarksStay
  <2>4. CASE SelfieBegins(r) \/ SelfieFails(r)
    <3>1. CASE SelfieBegins(r)
      BY <2>3, <3>1 DEF SelfieBegins, MatchSteps
    <3>2. CASE SelfieFails(r)
      BY <2>3, <3>2 DEF SelfieFails, MatchSteps
    <3> QED
      BY <2>4, <3>1, <3>2
  <2>5. CASE SelfieMatches(r)
    BY <2>3, <2>5 DEF SelfieMatches, MatchSteps
  <2>6. CASE SelfieReads(r)
    BY <2>3, <2>6 DEF SelfieReads, MatchSteps
  <2> QED
    BY <1>2, <2>2, <2>4, <2>5, <2>6 DEF Selfie, Matching
<1>3. ASSUME NEW r \in Request, Toggle(r) PROVE ShareInv' /\ FavoriteInv'
  BY <1>3, FavoritesKeepMarks, SharesKeepMarks DEF Toggle
<1>4. CASE UNCHANGED <<rows, marks, call>>
  BY <1>4, MarksStay
<1>5. CASE Disturbs /\ UNCHANGED <<rows, marks>>
  <2>1. \A q \in Request : call'[q].step \in MarkSteps => call'[q] = call[q]
    BY <1>0, <1>5, Disturbed DEF MarkSteps
  <2> QED
    BY <1>5, <2>1, MarksStay
<1>6. ASSUME NEW p \in Photo, DeletePhoto(p) PROVE ShareInv' /\ FavoriteInv'
  BY <1>6, DeletingKeepsMarks
<1>7. ASSUME Behind \/ AskElsewhere \/ CodeExpires \/ UNCHANGED vars, \A p \in Photo : ~DeletePhoto(p)
      PROVE  UNCHANGED <<rows, marks, call>> \/ (Disturbs /\ UNCHANGED <<rows, marks>>)
  BY <1>7 DEF Behind, UpdateSettings, SwitchLink, Reopens, Restores, Ready, Completes, Archives, FaceJoins, Merges,
     AskElsewhere, CodeExpires, vars, photos
<1> QED
  BY <1>1, <1>2, <1>3, <1>4, <1>5, <1>6, <1>7 DEF Next

\* As long as no two toggles of one photo overlap, a photo is shared with the guests when it was
\* toggled an odd number of times, and is a favorite when that was answered last
\* (couple_service.py:222, :250).
THEOREM MarksAreAsAnswered == Spec => []MarksAsAnswered
<1>1. Init => ShareInv /\ FavoriteInv
  BY DEF Init, ShareInv, FavoriteInv, Favored
<1>2. ShareInv /\ FavoriteInv => MarksAsAnswered
  BY DEF ShareInv, FavoriteInv, Favored, MarksAsAnswered
<1> QED
  BY <1>1, <1>2, InitTyped, NextTyped, MarksKept, PTL DEF Spec

================================================================================
