------------------------------ MODULE SignInProofs ------------------------------
(***************************************************************************)
(* Theorems about SignIn, for any requests, tokens and limits.             *)
(*                                                                         *)
(* The counters and the codes are keys that requests write one command at  *)
(* a time, so each invariant says what a request in the middle of its      *)
(* commands may rely on: whose code is stored (CodeInv), how often it was  *)
(* tried (AttemptInv), who passed the cooldown check (CoolInv), which of   *)
(* the presented codes were seen to match (GuessInv) and which are used up *)
(* (SpentInv), and who holds a refresh token (TokenInv).                   *)
(***************************************************************************)
EXTENDS SignIn, TLAPS

USE SignInAssumption

-----------------------------------------------------------------------------
(* The inductive invariants *)

\* A request that has stored a code and has not yet seen its message accepted or refused.
Coded(r) == call[r].step \in {"count", "arm", "clear", "deliver", "uncode"}

\* Such a code is the request's own; it is stored, unless it was used, or another send overlaps.
CodeInv ==
    \A r \in Request : Coded(r) =>
        /\ call[r].code \in 1..sent[Now(r)]
        /\ otp[Now(r)] \in {0, call[r].code} \/ Now(r) \in mixed
        /\ call[r].step \in {"count", "arm", "clear"} /\ otp[Now(r)] = call[r].code
              => Now(r) \notin ready
        /\ \A q \in Request \ {r} :
              Coded(q) /\ Now(q) = Now(r) => call[q].code # call[r].code

\* Every verification of a code that counts is in the counter of attempts.
AttemptInv ==
    \A k \in Key :
        /\ k \notin ready => tries[k] = 0
        /\ otp[k] = 0 \/ k \in shared \/ (tries[k] <= attempts[k] /\ tries[k] <= MaxAttempts)

\* A request that has passed the cooldown check and has yet to be counted.
Passed(r, k) == call[r].step \in {"store", "count"} /\ Now(r) = k

CoolInv ==
    /\ \A k \in Key \ crowded :
          /\ cool[k] <= MaxSends
          /\ \A r \in Request : Passed(r, k) => cool[k] < MaxSends
          /\ \A r, q \in Request : Passed(r, k) /\ Passed(q, k) => r = q
    /\ \A k \in Key :
          \/ cool[k] = 0 \/ k \in armed \cup unarmed
          \/ \E r \in Request : At(r, "arm") /\ Now(r) = k

\* The keys of a list.
KeysOf(todo) == {k \in Key : todo \in {<<k>>, <<"phone", "email">>}}

\* What is known of the codes that a verification was given.
Guessed(r) ==
    LET guess == call[r].guess
        left  == KeysOf(call[r].todo)
    IN  /\ DOMAIN guess = KeysOf(Needs)
        /\ At(r, "forget") => left \subseteq DOMAIN guess
        /\ \A k \in DOMAIN guess :
              /\ guess[k] \in Code /\ guess[k] <= sent[k]
              /\ At(r, "read") => guess[k] # 0 \/ k \in left
              /\ At(r, "forget") => guess[k] # 0 /\ (k \in left \/ otp[k] # guess[k])
              /\ At(r, "wipe") \/ At(r, "commit") => guess[k] # 0 /\ otp[k] # guess[k]

Verifying(r) == call[r].step \in VerifySteps \cup {"commit"}

GuessInv == \A r \in Request : Verifying(r) => Guessed(r)

\* A code that is used up is never stored again: later ones are higher.
SpentInv == \A k \in Key, c \in Code : <<k, c>> \in spent => c \in 1..sent[k] /\ otp[k] # c

Holds(r, t) == At(r, "deny") /\ call[r].token = t

TokenInv ==
    \A t \in Token \ contested :
        /\ uses[t] <= 1
        /\ uses[t] = 1 => t \in denied \cup expired /\ \A r \in Request : ~Holds(r, t)
        /\ \A r, q \in Request : Holds(r, t) /\ Holds(q, t) => r = q

-----------------------------------------------------------------------------
(* Lists of keys, and what is known of a request *)

Lists == Todo \ {<<>>}

LEMMA ListFacts ==
  ASSUME NEW todo \in Lists
  PROVE  /\ Head(todo) \in Key /\ Head(todo) \in KeysOf(todo)
         /\ Len(todo) = 1 => KeysOf(todo) = {Head(todo)}
         /\ Len(todo) # 1 => /\ Tail(todo) \in Lists /\ Tail(todo) # todo
                             /\ KeysOf(Tail(todo)) = KeysOf(todo) \ {Head(todo)}
<1>1. CASE todo = <<"phone">>
  BY <1>1 DEF Key, KeysOf
<1>2. CASE todo = <<"email">>
  BY <1>2 DEF Key, KeysOf
<1>3. CASE todo = <<"phone", "email">>
  <2>1. Len(todo) # 1 /\ Head(todo) = "phone"
    BY <1>3
  <2>2. Tail(todo) = <<"email">>
    BY <1>3
  <2> QED
    BY <1>3, <2>1, <2>2 DEF Lists, Todo, Key, KeysOf
<1> QED
  BY <1>1, <1>2, <1>3 DEF Lists, Todo

LEMMA NeedsList == Needs \in Lists /\ KeysOf(Needs) = {Needs[i] : i \in DOMAIN Needs}
  BY DEF Needs, Lists, Todo, Key, KeysOf

SendCalls   == [step : SendSteps, flow : {"ask", "resend"}, todo : Lists, code : Code]
VerifyCalls == [step : VerifySteps, todo : Lists, guess : Guesses, over : BOOLEAN]
               \cup [step : {"commit"}, todo : {<<>>}, guess : Guesses, over : BOOLEAN]
TokenCalls  == [step : {"deny"}, flow : {"refresh", "logout"}, token : Token]

CallsOK == call \in [Request -> Calls]

LEMMA CallKinds == Calls = [step : {"off", "done"}] \cup SendCalls \cup VerifyCalls \cup TokenCalls
  BY DEF Calls, SendCalls, VerifyCalls, TokenCalls, Lists

\* Which requests have which fields.
LEMMA CallFields ==
  ASSUME CallsOK, NEW r \in Request
  PROVE  /\ call[r].step \in SendSteps => call[r] \in SendCalls /\ Now(r) \in Key
         /\ call[r].step \in VerifySteps =>
               /\ call[r] \in [step : VerifySteps, todo : Lists, guess : Guesses, over : BOOLEAN]
               /\ Now(r) \in Key
         /\ call[r].step = "commit" => call[r] \in [step : {"commit"}, todo : {<<>>}, guess : Guesses, over : BOOLEAN]
         /\ call[r].step = "deny" => call[r] \in TokenCalls
<1>1. call[r] \in [step : {"off", "done"}] \cup SendCalls \cup VerifyCalls \cup TokenCalls
  BY CallKinds DEF CallsOK
<1>2. call[r].step \in SendSteps => call[r] \in SendCalls
  BY <1>1 DEF SendCalls, VerifyCalls, TokenCalls, SendSteps, VerifySteps
<1>3. call[r].step \in VerifySteps =>
        call[r] \in [step : VerifySteps, todo : Lists, guess : Guesses, over : BOOLEAN]
  BY <1>1 DEF SendCalls, VerifyCalls, TokenCalls, SendSteps, VerifySteps
<1>4. call[r].step = "commit" =>
        call[r] \in [step : {"commit"}, todo : {<<>>}, guess : Guesses, over : BOOLEAN]
  BY <1>1 DEF SendCalls, VerifyCalls, TokenCalls, SendSteps, VerifySteps
<1>5. call[r].step = "deny" => call[r] \in TokenCalls
  BY <1>1 DEF SendCalls, VerifyCalls, SendSteps, VerifySteps
<1>6. call[r].step \in SendSteps \cup VerifySteps => call[r].todo \in Lists
  BY <1>2, <1>3 DEF SendCalls
<1>7. call[r].step \in SendSteps \cup VerifySteps => Now(r) \in Key
  BY <1>6, ListFacts DEF Now
<1> QED
  BY <1>2, <1>3, <1>4, <1>5, <1>7

-----------------------------------------------------------------------------
(* What a step makes of its request *)

\* The request becomes c; the others stay as they are.
Becomes(r, c) == call'[r] = c /\ \A q \in Request \ {r} : call'[q] = call[q]

LEMMA BeginsCall ==
  ASSUME CallsOK, NEW r \in Request, NEW c \in Calls, Begins(r, c)
  PROVE  CallsOK' /\ call[r].step = "off" /\ Becomes(r, c)
  BY DEF CallsOK, Begins, Becomes

LEMMA AnswersCall ==
  ASSUME CallsOK, NEW r \in Request, Answers(r)
  PROVE  CallsOK' /\ Becomes(r, [step |-> "done"])
<1>1. [step |-> "done"] \in Calls
  BY DEF Calls
<1> QED
  BY <1>1 DEF CallsOK, Answers, Becomes

SendCall(r, step, code) ==
    [step |-> step, flow |-> call[r].flow, todo |-> call[r].todo, code |-> code]

LEMMA SendCallTyped ==
  ASSUME CallsOK, NEW r \in Request, call[r].step \in SendSteps,
         NEW step \in SendSteps, NEW code \in Code
  PROVE  SendCall(r, step, code) \in Calls
<1>1. call[r] \in SendCalls
  BY CallFields
<1>2. SendCall(r, step, code) \in SendCalls
  BY <1>1 DEF SendCalls, SendCall
<1> QED
  BY <1>2, CallKinds

LEMMA GoesSends ==
  ASSUME CallsOK, NEW r \in Request, call[r].step \in SendSteps, NEW step \in SendSteps, Goes(r, step)
  PROVE  CallsOK' /\ Becomes(r, SendCall(r, step, call[r].code))
<1>1. call[r] \in SendCalls
  BY CallFields
<1>2. [call[r] EXCEPT !.step = step] = SendCall(r, step, call[r].code) /\ call[r].code \in Code
  BY <1>1 DEF SendCalls, SendCall
<1>3. call' = [call EXCEPT ![r] = SendCall(r, step, call[r].code)]
  BY <1>2 DEF Goes
<1> QED
  BY <1>2, <1>3, SendCallTyped DEF CallsOK, Becomes

VerifyCall(r, step, todo, over) ==
    [step |-> step, todo |-> todo, guess |-> call[r].guess, over |-> over]

LEMMA VerifyFields ==
  ASSUME NEW c, NEW S, NEW L, NEW G, NEW O, c \in [step : S, todo : L, guess : G, over : O],
         NEW step, NEW todo
  PROVE  [c EXCEPT !.step = step, !.todo = todo]
            = [step |-> step, todo |-> todo, guess |-> c.guess, over |-> c.over]
<1> DEFINE d == [c EXCEPT !.step = step]
<1>1. d = [step |-> step, todo |-> c.todo, guess |-> c.guess, over |-> c.over]
  OBVIOUS
<1>2. [c EXCEPT !.step = step, !.todo = todo] = [d EXCEPT !.todo = todo]
  OBVIOUS
<1> HIDE DEF d
<1>3. [d EXCEPT !.todo = todo] = [step |-> step, todo |-> todo, guess |-> c.guess, over |-> c.over]
  BY <1>1
<1> QED
  BY <1>2, <1>3

LEMMA StepsVerifies ==
  ASSUME CallsOK, NEW r \in Request, call[r].step \in VerifySteps,
         NEW step \in VerifySteps, NEW after, NEW todo, Steps(r, step, after, todo),
         (after \in VerifySteps /\ todo \in Lists) \/ (after = "commit" /\ todo = <<>>)
  PROVE  /\ CallsOK'
         /\ Last(r) => Becomes(r, VerifyCall(r, after, todo, call[r].over))
         /\ ~Last(r) => Becomes(r, VerifyCall(r, step, Tail(call[r].todo), call[r].over))
<1>1. call[r] \in [step : VerifySteps, todo : Lists, guess : Guesses, over : BOOLEAN]
  BY CallFields
<1>2. CASE Last(r)
  <2>0. [call[r] EXCEPT !.step = after, !.todo = todo] = VerifyCall(r, after, todo, call[r].over)
    BY <1>1, VerifyFields, Zenon DEF VerifyCall
  <2>1. call' = [call EXCEPT ![r] = VerifyCall(r, after, todo, call[r].over)]
    BY <1>2, <2>0 DEF Steps
  <2>2. VerifyCall(r, after, todo, call[r].over) \in VerifyCalls
    BY <1>1 DEF VerifyCalls, VerifyCall
  <2> QED
    BY <1>2, <2>1, <2>2, CallKinds DEF CallsOK, Becomes
<1>3. CASE ~Last(r)
  <2>0. [call[r] EXCEPT !.step = step, !.todo = Tail(call[r].todo)]
           = VerifyCall(r, step, Tail(call[r].todo), call[r].over)
    BY <1>1, VerifyFields, Zenon DEF VerifyCall
  <2>1. call' = [call EXCEPT ![r] = VerifyCall(r, step, Tail(call[r].todo), call[r].over)]
    BY <1>3, <2>0 DEF Steps
  <2>2. Tail(call[r].todo) \in Lists
    BY <1>1, <1>3, ListFacts DEF Last
  <2>3. VerifyCall(r, step, Tail(call[r].todo), call[r].over) \in VerifyCalls
    BY <1>1, <2>2 DEF VerifyCalls, VerifyCall
  <2> QED
    BY <1>3, <2>1, <2>3, CallKinds DEF CallsOK, Becomes
<1> QED
  BY <1>2, <1>3

LEMMA SendingTyped ==
  ASSUME NEW todo \in Lists, NEW flow \in {"ask", "resend"}
  PROVE  Sending(todo, flow) \in Calls
<1>1. Sending(todo, flow) \in SendCalls
  BY DEF Sending, SendCalls, SendSteps, Code
<1> QED
  BY <1>1, CallKinds

LEMMA AskCall ==
  ASSUME CallsOK, NEW r \in Request, Ask(r) \/ \E k \in Key : Resend(r, k)
  PROVE  /\ CallsOK' /\ call[r].step = "off"
         /\ \E todo \in Lists, flow \in {"ask", "resend"} : Becomes(r, Sending(todo, flow))
         /\ UNCHANGED <<rows, codes, limits, cooling, tokens, spent>>
<1>1. CASE Ask(r)
  <2>1. Begins(r, Sending(Needs, "ask")) /\ UNCHANGED <<rows, codes, limits, cooling, tokens, spent>>
    BY <1>1 DEF Ask, Register, Login, ForgotPassword
  <2>2. Needs \in Lists /\ Sending(Needs, "ask") \in Calls
    BY SendingTyped, NeedsList
  <2> QED
    BY <2>1, <2>2, BeginsCall
<1>2. ASSUME NEW k \in Key, Resend(r, k)
      PROVE  /\ CallsOK' /\ call[r].step = "off"
             /\ \E todo \in Lists, flow \in {"ask", "resend"} : Becomes(r, Sending(todo, flow))
             /\ UNCHANGED <<rows, codes, limits, cooling, tokens, spent>>
  <2>1. <<k>> \in Lists
    BY DEF Lists, Todo, Key
  <2>2. Sending(<<k>>, "resend") \in Calls
    BY <2>1, SendingTyped
  <2> QED
    BY <1>2, <2>1, <2>2, BeginsCall DEF Resend
<1> QED
  BY <1>1, <1>2

LEMMA StoresCall ==
  ASSUME CallsOK, CodesOK, NEW r \in Request, SendStores(r)
  PROVE  CallsOK' /\ sent[Now(r)] + 1 \in Code /\ Becomes(r, SendCall(r, "count", sent[Now(r)] + 1))
<1> DEFINE n == sent[Now(r)] + 1
<1>1. call[r] \in SendCalls /\ Now(r) \in Key
  BY CallFields DEF SendStores, At, SendSteps
<1>2. n \in Code
  BY <1>1 DEF SendStores, CodesOK, Code
<1>3. call' = [call EXCEPT ![r] = [call[r] EXCEPT !.step = "count", !.code = n]]
  BY DEF SendStores
<1> HIDE DEF n
<1> DEFINE d == [call[r] EXCEPT !.step = "count"]
<1>4. d = SendCall(r, "count", call[r].code)
  BY <1>1 DEF SendCalls, SendCall
<1>5. [call[r] EXCEPT !.step = "count", !.code = n] = [d EXCEPT !.code = n]
  OBVIOUS
<1> HIDE DEF d
<1>6. [d EXCEPT !.code = n] = SendCall(r, "count", n)
  BY <1>4 DEF SendCall
<1>7. SendCall(r, "count", n) \in Calls
  BY <1>1, <1>2, SendCallTyped DEF SendCalls, SendSteps
<1>8. call' = [call EXCEPT ![r] = SendCall(r, "count", n)]
  BY <1>3, <1>5, <1>6
<1>9. CallsOK' /\ Becomes(r, SendCall(r, "count", n))
  BY <1>7, <1>8 DEF CallsOK, Becomes
<1> QED
  BY <1>2, <1>9 DEF n

\* The steps of a send that go on with the same key and the same code.
LEMMA SendGoes ==
  ASSUME CallsOK, NEW r \in Request
  PROVE  /\ SendChecks(r) => CallsOK' /\ Becomes(r, SendCall(r, "store", call[r].code))
         /\ SendCounts(r) => CallsOK' /\ Becomes(r, SendCall(r, IF cool[Now(r)] = 0 THEN "arm" ELSE "clear", call[r].code))
         /\ SendArms(r) => CallsOK' /\ Becomes(r, SendCall(r, "clear", call[r].code))
         /\ SendClears(r) => CallsOK' /\ Becomes(r, SendCall(r, "deliver", call[r].code))
         /\ SendFails(r) => CallsOK' /\ Becomes(r, SendCall(r, "uncode", call[r].code))
         /\ SendDropsCode(r) => CallsOK' /\ Becomes(r, SendCall(r, "uncool", call[r].code))
<1>1. \A x \in {"store", "arm", "clear", "deliver", "uncode", "uncool"} : x \in SendSteps
  BY DEF SendSteps
<1>2. CASE SendChecks(r)
  BY <1>1, <1>2, GoesSends DEF SendChecks, SendCounts, SendArms, SendClears, SendFails, SendDropsCode, At, SendSteps
<1>3. CASE SendCounts(r)
  <2>1. (IF cool[Now(r)] = 0 THEN "arm" ELSE "clear") \in SendSteps
    BY <1>1
  <2>2. call[r].step \in SendSteps
    BY <1>3 DEF SendCounts, At, SendSteps
  <2>3. Goes(r, IF cool[Now(r)] = 0 THEN "arm" ELSE "clear")
    BY <1>3 DEF SendCounts
  <2>4. CallsOK' /\ Becomes(r, SendCall(r, IF cool[Now(r)] = 0 THEN "arm" ELSE "clear", call[r].code))
    BY <2>1, <2>2, <2>3, GoesSends
  <2> QED
    BY <1>3, <2>4 DEF SendChecks, SendCounts, SendArms, SendClears, SendFails, SendDropsCode, At
<1>4. CASE SendArms(r)
  BY <1>1, <1>4, GoesSends DEF SendChecks, SendCounts, SendArms, SendClears, SendFails, SendDropsCode, At, SendSteps
<1>5. CASE SendClears(r)
  BY <1>1, <1>5, GoesSends DEF SendChecks, SendCounts, SendArms, SendClears, SendFails, SendDropsCode, At, SendSteps
<1>6. CASE SendFails(r)
  BY <1>1, <1>6, GoesSends DEF SendChecks, SendCounts, SendArms, SendClears, SendFails, SendDropsCode, At, SendSteps
<1>7. CASE SendDropsCode(r)
  BY <1>1, <1>7, GoesSends DEF SendChecks, SendCounts, SendArms, SendClears, SendFails, SendDropsCode, At, SendSteps
<1> QED
  BY <1>2, <1>3, <1>4, <1>5, <1>6, <1>7

LEMMA DeliversCall ==
  ASSUME CallsOK, NEW r \in Request, SendDelivers(r)
  PROVE  /\ CallsOK'
         /\ \E c \in {[step |-> "done"], Sending(Tail(call[r].todo), call[r].flow)} : Becomes(r, c)
<1>1. call[r] \in SendCalls
  BY CallFields DEF SendDelivers, At, SendSteps
<1>2. CASE Last(r)
  <2>1. call' = [call EXCEPT ![r] = [step |-> "done"]]
    BY <1>2 DEF SendDelivers
  <2> QED
    BY <2>1, AnswersCall DEF Answers
<1>3. CASE ~Last(r)
  <2>1. Tail(call[r].todo) \in Lists /\ call[r].flow \in {"ask", "resend"}
    BY <1>1, <1>3, ListFacts DEF Last, SendCalls
  <2>2. Sending(Tail(call[r].todo), call[r].flow) \in Calls
    BY <2>1, SendingTyped
  <2>3. call' = [call EXCEPT ![r] = Sending(Tail(call[r].todo), call[r].flow)]
    BY <1>3 DEF SendDelivers
  <2> QED
    BY <2>2, <2>3 DEF CallsOK, Becomes
<1> QED
  BY <1>2, <1>3

LEMMA PresentCall ==
  ASSUME CallsOK, NEW r \in Request, Present(r)
  PROVE  /\ CallsOK' /\ call[r].step = "off"
         /\ \E g \in Possible : Becomes(r, [step |-> "admit", todo |-> Needs, guess |-> g, over |-> FALSE])
         /\ UNCHANGED <<rows, codes, limits, cooling, tokens, spent>>
<1>1. PICK g \in Possible : Begins(r, [step |-> "admit", todo |-> Needs, guess |-> g, over |-> FALSE])
  BY DEF Present
<1>2. g \in Guesses
  <2>1. g \in [KeysOf(Needs) -> Code]
    BY NeedsList DEF Possible
  <2>2. KeysOf(Needs) \in SUBSET Key
    BY DEF KeysOf
  <2> QED
    BY <2>1, <2>2 DEF Guesses
<1>3. [step |-> "admit", todo |-> Needs, guess |-> g, over |-> FALSE] \in VerifyCalls
  BY <1>2, NeedsList DEF VerifyCalls, VerifySteps
<1>4. [step |-> "admit", todo |-> Needs, guess |-> g, over |-> FALSE] \in Calls
  BY <1>3, CallKinds
<1> QED
  BY <1>1, <1>4, BeginsCall DEF Present

LEMMA AdmitsCall ==
  ASSUME CallsOK, NEW r \in Request, VerifyAdmits(r)
  PROVE  /\ CallsOK'
         /\ \/ Becomes(r, [step |-> "done"])
            \/ \E over \in BOOLEAN :
                  IF Last(r) THEN Becomes(r, VerifyCall(r, "read", Needs, over))
                  ELSE Becomes(r, VerifyCall(r, "admit", Tail(call[r].todo), over))
<1> DEFINE over == call[r].over \/ Exhausted(Now(r))
           step == IF Last(r) THEN "read" ELSE "admit"
           todo == IF Last(r) THEN Needs ELSE Tail(call[r].todo)
<1>1. /\ call[r] \in [step : VerifySteps, todo : Lists, guess : Guesses, over : BOOLEAN]
      /\ Now(r) \in Key
  BY CallFields DEF VerifyAdmits, At, VerifySteps
<1>2. over \in BOOLEAN
  BY <1>1 DEF Exhausted
<1>3. step \in VerifySteps /\ todo \in Lists
  BY <1>1, NeedsList, ListFacts DEF VerifySteps, Last
<1>4. CASE Answers(r)
  BY <1>4, AnswersCall
<1>5. CASE call' = [call EXCEPT ![r] = [call[r] EXCEPT !.over = over, !.step = step, !.todo = todo]]
  <2> HIDE DEF over, step, todo
  <2> DEFINE d == [call[r] EXCEPT !.over = over]
  <2>1. d \in [step : VerifySteps, todo : Lists, guess : Guesses, over : BOOLEAN]
        /\ d.guess = call[r].guess /\ d.over = over
    BY <1>1, <1>2
  <2>2. [call[r] EXCEPT !.over = over, !.step = step, !.todo = todo]
           = [d EXCEPT !.step = step, !.todo = todo]
    OBVIOUS
  <2> HIDE DEF d
  <2>3. [d EXCEPT !.step = step, !.todo = todo] = [step |-> step, todo |-> todo, guess |-> d.guess, over |-> d.over]
    BY <2>1, VerifyFields, Zenon
  <2>4. call' = [call EXCEPT ![r] = VerifyCall(r, step, todo, over)]
    BY <1>5, <2>1, <2>2, <2>3 DEF VerifyCall
  <2>5. VerifyCall(r, step, todo, over) \in VerifyCalls
    BY <1>1, <1>2, <1>3 DEF VerifyCalls, VerifyCall
  <2>6. CallsOK' /\ Becomes(r, VerifyCall(r, step, todo, over))
    BY <2>4, <2>5, CallKinds DEF CallsOK, Becomes
  <2> QED
    BY <1>2, <2>6 DEF step, todo
<1> QED
  BY <1>4, <1>5 DEF VerifyAdmits

LEMMA VerifyGoes ==
  ASSUME CallsOK, NEW r \in Request
  PROVE  /\ VerifyReads(r) =>
               /\ CallsOK'
               /\ \/ Becomes(r, [step |-> "done"])
                  \/ /\ Matches(r, Now(r))
                     /\ Last(r) => Becomes(r, VerifyCall(r, "forget", Needs, call[r].over))
                     /\ ~Last(r) => Becomes(r, VerifyCall(r, "read", Tail(call[r].todo), call[r].over))
         /\ VerifyForgets(r) =>
               /\ CallsOK'
               /\ Last(r) => Becomes(r, VerifyCall(r, "wipe", Needs, call[r].over))
               /\ ~Last(r) => Becomes(r, VerifyCall(r, "forget", Tail(call[r].todo), call[r].over))
         /\ VerifyWipes(r) =>
               /\ CallsOK'
               /\ Last(r) => Becomes(r, VerifyCall(r, "commit", <<>>, call[r].over))
               /\ ~Last(r) => Becomes(r, VerifyCall(r, "wipe", Tail(call[r].todo), call[r].over))
<1>1. Needs \in Lists /\ \A x \in {"read", "forget", "wipe"} : x \in VerifySteps
  BY NeedsList DEF VerifySteps
<1>2. VerifyReads(r) \/ VerifyForgets(r) \/ VerifyWipes(r) => call[r].step \in VerifySteps
  BY DEF VerifyReads, VerifyForgets, VerifyWipes, At, VerifySteps
<1>3. CASE VerifyReads(r)
  BY <1>1, <1>2, <1>3, AnswersCall, StepsVerifies
     DEF VerifyReads, VerifyForgets, VerifyWipes, At
<1>4. CASE VerifyForgets(r)
  BY <1>1, <1>2, <1>4, StepsVerifies DEF VerifyReads, VerifyForgets, VerifyWipes, At
<1>5. CASE VerifyWipes(r)
  BY <1>1, <1>2, <1>5, StepsVerifies DEF VerifyReads, VerifyForgets, VerifyWipes, At
<1> QED
  BY <1>3, <1>4, <1>5

LEMMA PresentsToken ==
  ASSUME CallsOK, NEW r \in Request, NEW t \in Token, NEW flow \in {"refresh", "logout"},
         PresentToken(r, t, flow)
  PROVE  /\ CallsOK' /\ call[r].step = "off"
         /\ Becomes(r, [step |-> "deny", flow |-> flow, token |-> t])
<1>1. [step |-> "deny", flow |-> flow, token |-> t] \in TokenCalls
  BY DEF TokenCalls
<1> QED
  BY <1>1, CallKinds, BeginsCall DEF PresentToken

\* Requests that end with this step.
LEMMA Ending ==
  ASSUME CallsOK, NEW r \in Request, SendDropsCooldown(r) \/ Commits(r) \/ Deny(r) \/ Fails(r)
  PROVE  CallsOK' /\ Becomes(r, [step |-> "done"])
  BY AnswersCall DEF SendDropsCooldown, Commits, Deny, Fails

-----------------------------------------------------------------------------
(* How a request comes to where it is *)

Step(r) == Serves(r) \/ Fails(r)

LEMMA NextCases == [Next]_vars => (\E r \in Request : Step(r)) \/ Expires \/ UNCHANGED vars
  BY DEF Next, Step

Untouched(r) == \A q \in Request \ {r} : call'[q] = call[q]

\* With the key and the code it had.
SameSend(r) == Now(r)' = Now(r) /\ call'[r].code = call[r].code

SendMoves(r) ==
    \/ call'[r].step \notin SendSteps \/ At(r, "check")'
    \/ At(r, "store")' /\ SendChecks(r) /\ SameSend(r)
    \/ At(r, "count")' /\ SendStores(r) /\ Now(r)' = Now(r) /\ call'[r].code = sent[Now(r)] + 1
    \/ At(r, "arm")' /\ SendCounts(r) /\ SameSend(r)
    \/ At(r, "clear")' /\ ((SendCounts(r) /\ cool[Now(r)] # 0) \/ SendArms(r)) /\ SameSend(r)
    \/ At(r, "deliver")' /\ SendClears(r) /\ SameSend(r)
    \/ At(r, "uncode")' /\ SendFails(r) /\ SameSend(r)
    \/ At(r, "uncool")' /\ SendDropsCode(r) /\ SameSend(r)

SameGuess(r) == call'[r].guess = call[r].guess

\* On to the next key, or to the next step with all keys again.
NextKey(r, step, after) ==
    \/ Last(r) /\ At(r, after)' /\ (after # "commit" => call'[r].todo = Needs)
    \/ ~Last(r) /\ At(r, step)' /\ call'[r].todo = Tail(call[r].todo)

VerifyMoves(r) ==
    \/ ~Verifying(r)'
    \/ Present(r) /\ At(r, "admit")' /\ call'[r].guess \in Possible
    \/ VerifyAdmits(r) /\ NextKey(r, "admit", "read") /\ SameGuess(r)
    \/ VerifyReads(r) /\ Matches(r, Now(r)) /\ NextKey(r, "read", "forget") /\ SameGuess(r)
    \/ VerifyForgets(r) /\ NextKey(r, "forget", "wipe") /\ SameGuess(r)
    \/ VerifyWipes(r) /\ NextKey(r, "wipe", "commit") /\ SameGuess(r)

TokenMoves(r) ==
    At(r, "deny")' =>
        \E t \in Token, flow \in {"refresh", "logout"} :
            PresentToken(r, t, flow) /\ call'[r].token = t

Moves(r) == Untouched(r) /\ SendMoves(r) /\ VerifyMoves(r) /\ TokenMoves(r)

\* A request that begins to send, or is done, is at none of these steps.
LEMMA OutsideMoves ==
  ASSUME NEW r \in Request, NEW c, Becomes(r, c), c.step \in {"done", "check"}
  PROVE  Moves(r)
  BY DEF Becomes, Moves, Untouched, SendMoves, VerifyMoves, TokenMoves, SendSteps, VerifySteps, Verifying, At

LEMMA SendingMoves ==
  ASSUME NEW r \in Request, NEW step \in SendSteps, NEW code, Becomes(r, SendCall(r, step, code))
  PROVE  /\ call'[r].step = step /\ Now(r)' = Now(r) /\ call'[r].code = code
         /\ Untouched(r) /\ VerifyMoves(r) /\ TokenMoves(r)
<1>1. call'[r] = SendCall(r, step, code) /\ Untouched(r)
  BY DEF Becomes, Untouched
<1>2. call'[r].step = step /\ call'[r].todo = call[r].todo /\ call'[r].code = code
  BY <1>1 DEF SendCall
<1> QED
  BY <1>1, <1>2 DEF Now, VerifyMoves, TokenMoves, SendSteps, VerifySteps, Verifying, At

LEMMA VerifyingMoves ==
  ASSUME NEW r \in Request, NEW step \in VerifySteps \cup {"commit"}, NEW todo, NEW over,
         Becomes(r, VerifyCall(r, step, todo, over))
  PROVE  /\ call'[r].step = step /\ call'[r].todo = todo /\ SameGuess(r)
         /\ Untouched(r) /\ SendMoves(r) /\ TokenMoves(r)
<1>1. call'[r] = VerifyCall(r, step, todo, over) /\ Untouched(r)
  BY DEF Becomes, Untouched
<1>2. call'[r].step = step /\ call'[r].todo = todo /\ SameGuess(r)
  BY <1>1 DEF VerifyCall, SameGuess
<1> QED
  BY <1>1, <1>2 DEF SendMoves, TokenMoves, SendSteps, VerifySteps, At

LEMMA StepMoves ==
  ASSUME CallsOK, CodesOK, NEW r \in Request, Step(r)
  PROVE  Moves(r)
<1>1. CASE SendStep(r)
  <2>1. \A todo, flow : Sending(todo, flow).step = "check"
    BY DEF Sending
  <2>2. CASE Ask(r) \/ \E k \in Key : Resend(r, k)
    BY <2>1, <2>2, AskCall, OutsideMoves
  <2>3. CASE SendStores(r)
    <3>1. Becomes(r, SendCall(r, "count", sent[Now(r)] + 1)) /\ "count" \in SendSteps
      BY <2>3, StoresCall DEF SendSteps
    <3> QED
      BY <2>3, <3>1, SendingMoves DEF Moves, SendMoves, At
  <2>4. CASE SendDelivers(r)
    <3>1. PICK c \in {[step |-> "done"], Sending(Tail(call[r].todo), call[r].flow)} : Becomes(r, c)
      BY <2>4, DeliversCall
    <3>2. c.step \in {"done", "check"}
      BY <2>1
    <3> QED
      BY <3>1, <3>2, OutsideMoves
  <2>5. CASE SendDropsCooldown(r)
    BY <2>5, Ending, OutsideMoves
  <2>6. CASE SendCounts(r)
    <3> DEFINE x == IF cool[Now(r)] = 0 THEN "arm" ELSE "clear"
    <3>1. Becomes(r, SendCall(r, x, call[r].code)) /\ x \in SendSteps
      BY <2>6, SendGoes DEF SendSteps
    <3>2. /\ call'[r].step = x /\ Now(r)' = Now(r) /\ call'[r].code = call[r].code
          /\ Untouched(r) /\ VerifyMoves(r) /\ TokenMoves(r)
      BY <3>1, SendingMoves
    <3> QED
      BY <2>6, <3>2 DEF Moves, SendMoves, SameSend, At
  <2>7. CASE SendChecks(r)
    <3>1. Becomes(r, SendCall(r, "store", call[r].code)) /\ "store" \in SendSteps
      BY <2>7, SendGoes DEF SendSteps
    <3> QED
      BY <2>7, <3>1, SendingMoves DEF Moves, SendMoves, SameSend, At
  <2>8. CASE SendArms(r)
    <3>1. Becomes(r, SendCall(r, "clear", call[r].code)) /\ "clear" \in SendSteps
      BY <2>8, SendGoes DEF SendSteps
    <3> QED
      BY <2>8, <3>1, SendingMoves DEF Moves, SendMoves, SameSend, At
  <2>9. CASE SendClears(r)
    <3>1. Becomes(r, SendCall(r, "deliver", call[r].code)) /\ "deliver" \in SendSteps
      BY <2>9, SendGoes DEF SendSteps
    <3> QED
      BY <2>9, <3>1, SendingMoves DEF Moves, SendMoves, SameSend, At
  <2>10. CASE SendFails(r)
    <3>1. Becomes(r, SendCall(r, "uncode", call[r].code)) /\ "uncode" \in SendSteps
      BY <2>10, SendGoes DEF SendSteps
    <3> QED
      BY <2>10, <3>1, SendingMoves DEF Moves, SendMoves, SameSend, At
  <2>11. CASE SendDropsCode(r)
    <3>1. Becomes(r, SendCall(r, "uncool", call[r].code)) /\ "uncool" \in SendSteps
      BY <2>11, SendGoes DEF SendSteps
    <3> QED
      BY <2>11, <3>1, SendingMoves DEF Moves, SendMoves, SameSend, At
  <2> QED
    BY <1>1, <2>2, <2>3, <2>4, <2>5, <2>6, <2>7, <2>8, <2>9, <2>10, <2>11 DEF SendStep, Sends
<1>2. CASE VerifyStep(r)
  <2>0. \A x \in {"admit", "read", "forget", "wipe", "commit"} : x \in VerifySteps \cup {"commit"}
    BY DEF VerifySteps
  <2>1. CASE Present(r)
    <3>1. PICK g \in Possible : Becomes(r, [step |-> "admit", todo |-> Needs, guess |-> g, over |-> FALSE])
      BY <2>1, PresentCall
    <3>2. Untouched(r) /\ call'[r].step = "admit" /\ call'[r].guess = g
      BY <3>1 DEF Becomes, Untouched
    <3> QED
      BY <2>1, <3>2 DEF Moves, SendMoves, VerifyMoves, TokenMoves, SendSteps, At
  <2>2. CASE VerifyAdmits(r)
    <3>1. CASE Becomes(r, [step |-> "done"])
      BY <3>1, OutsideMoves
    <3>2. ASSUME NEW over \in BOOLEAN, Last(r), Becomes(r, VerifyCall(r, "read", Needs, over))
          PROVE  Moves(r)
      BY <2>0, <2>2, <3>2, VerifyingMoves DEF Moves, VerifyMoves, NextKey, At
    <3>3. ASSUME NEW over \in BOOLEAN, ~Last(r), Becomes(r, VerifyCall(r, "admit", Tail(call[r].todo), over))
          PROVE  Moves(r)
      BY <2>0, <2>2, <3>3, VerifyingMoves DEF Moves, VerifyMoves, NextKey, At
    <3> QED
      BY <2>2, <3>1, <3>2, <3>3, AdmitsCall
  <2>3. CASE VerifyReads(r)
    <3>1. CASE Becomes(r, [step |-> "done"])
      BY <3>1, OutsideMoves
    <3>2. CASE Matches(r, Now(r)) /\ Last(r) /\ Becomes(r, VerifyCall(r, "forget", Needs, call[r].over))
      BY <2>0, <2>3, <3>2, VerifyingMoves DEF Moves, VerifyMoves, NextKey, At
    <3>3. CASE Matches(r, Now(r)) /\ ~Last(r) /\ Becomes(r, VerifyCall(r, "read", Tail(call[r].todo), call[r].over))
      BY <2>0, <2>3, <3>3, VerifyingMoves DEF Moves, VerifyMoves, NextKey, At
    <3> QED
      BY <2>3, <3>1, <3>2, <3>3, VerifyGoes
  <2>4. CASE VerifyForgets(r)
    <3>1. CASE Last(r) /\ Becomes(r, VerifyCall(r, "wipe", Needs, call[r].over))
      BY <2>0, <2>4, <3>1, VerifyingMoves DEF Moves, VerifyMoves, NextKey, At
    <3>2. CASE ~Last(r) /\ Becomes(r, VerifyCall(r, "forget", Tail(call[r].todo), call[r].over))
      BY <2>0, <2>4, <3>2, VerifyingMoves DEF Moves, VerifyMoves, NextKey, At
    <3> QED
      BY <2>4, <3>1, <3>2, VerifyGoes
  <2>5. CASE VerifyWipes(r)
    <3>1. CASE Last(r) /\ Becomes(r, VerifyCall(r, "commit", <<>>, call[r].over))
      BY <2>0, <2>5, <3>1, VerifyingMoves DEF Moves, VerifyMoves, NextKey, At
    <3>2. CASE ~Last(r) /\ Becomes(r, VerifyCall(r, "wipe", Tail(call[r].todo), call[r].over))
      BY <2>0, <2>5, <3>2, VerifyingMoves DEF Moves, VerifyMoves, NextKey, At
    <3> QED
      BY <2>5, <3>1, <3>2, VerifyGoes
  <2>6. CASE Commits(r)
    BY <2>6, Ending, OutsideMoves
  <2> QED
    BY <1>2, <2>1, <2>2, <2>3, <2>4, <2>5, <2>6 DEF VerifyStep, Verifies
<1>3. ASSUME NEW t \in Token, NEW flow \in {"refresh", "logout"}, PresentToken(r, t, flow) PROVE Moves(r)
  <2>1. Becomes(r, [step |-> "deny", flow |-> flow, token |-> t])
    BY <1>3, PresentsToken
  <2>2. Untouched(r) /\ call'[r].step = "deny" /\ call'[r].token = t
    BY <2>1 DEF Becomes, Untouched
  <2> QED
    BY <1>3, <2>2 DEF Moves, SendMoves, VerifyMoves, TokenMoves, Verifying, SendSteps, VerifySteps, At
<1>4. CASE Deny(r) \/ Fails(r)
  BY <1>4, Ending, OutsideMoves
<1> QED
  BY <1>1, <1>2, <1>3, <1>4 DEF Step, Serves, TokenStep

-----------------------------------------------------------------------------
(* Type correctness *)

LEMMA CallsKept ==
  ASSUME CallsOK, CodesOK, NEW r \in Request, Step(r)
  PROVE  CallsOK'
<1>1. CASE SendStep(r)
  BY <1>1, AskCall, SendGoes, StoresCall, DeliversCall, Ending DEF SendStep, Sends
<1>2. CASE VerifyStep(r)
  BY <1>2, PresentCall, AdmitsCall, VerifyGoes, Ending DEF VerifyStep, Verifies
<1>3. CASE TokenStep(r)
  BY <1>3, PresentsToken, Ending DEF TokenStep
<1> QED
  BY <1>1, <1>2, <1>3, Ending DEF Step, Serves

TokensHeld == \A r \in Request : At(r, "deny") => call[r].token \in born

LEMMA CodesKept ==
  ASSUME CallsOK, CodesOK, NEW r \in Request, Step(r)
  PROVE  CodesOK'
<1>1. CASE SendStores(r)
  <2>1. Now(r) \in Key /\ sent[Now(r)] + 1 \in Code
    BY <1>1, CallFields, StoresCall DEF SendStores, At, SendSteps
  <2>2. /\ sent' = [sent EXCEPT ![Now(r)] = sent[Now(r)] + 1]
        /\ otp' = [otp EXCEPT ![Now(r)] = sent[Now(r)] + 1]
        /\ ready' = ready \ {Now(r)} /\ mixed' \in {mixed \cup {Now(r)}, mixed \ {Now(r)}}
    BY <1>1 DEF SendStores
  <2> QED
    BY <2>1, <2>2 DEF CodesOK, Code
<1>2. CASE SendClears(r)
  BY <1>2, CallFields DEF SendClears, At, SendSteps, CodesOK
<1>3. CASE SendDropsCode(r) \/ VerifyForgets(r)
  BY <1>3 DEF SendDropsCode, VerifyForgets, CodesOK, Code
<1>4. CASE UNCHANGED codes
  BY <1>4 DEF codes, CodesOK
<1> QED
  BY <1>1, <1>2, <1>3, <1>4 DEF Step, Serves, SendStep, Sends, VerifyStep, Verifies, TokenStep, Ask, Resend,
     SendChecks, SendCounts, SendArms, SendDelivers, SendFails, SendDropsCooldown, Present, VerifyAdmits,
     VerifyReads, VerifyWipes, Commits, PresentToken, Deny, Fails

LEMMA LimitsKept ==
  ASSUME CallsOK, LimitsOK, NEW r \in Request, Step(r)
  PROVE  LimitsOK'
<1>1. CASE SendStores(r)
  BY <1>1, CallFields DEF SendStores, At, SendSteps, LimitsOK
<1>2. CASE SendClears(r)
  BY <1>2, CallFields DEF SendClears, At, SendSteps, LimitsOK
<1>3. CASE VerifyAdmits(r)
  <2>1. /\ attempts' = [attempts EXCEPT ![Now(r)] = IF attempts[Now(r)] > MaxAttempts
                                                   THEN attempts[Now(r)] ELSE attempts[Now(r)] + 1]
        /\ tries' \in {tries, [tries EXCEPT ![Now(r)] = tries[Now(r)] + 1]} /\ shared' = shared
    BY <1>3 DEF VerifyAdmits
  <2>0. Now(r) \in Key
    BY <1>3, CallFields DEF VerifyAdmits, At, VerifySteps
  <2>2. attempts' \in [Key -> Nat]
    <3>1. (IF attempts[Now(r)] > MaxAttempts THEN attempts[Now(r)] ELSE attempts[Now(r)] + 1) \in Nat
      BY <2>0 DEF LimitsOK
    <3> QED
      BY <2>1, <3>1 DEF LimitsOK
  <2>3. tries' \in [Key -> Nat]
    BY <2>1 DEF LimitsOK
  <2> QED
    BY <2>1, <2>2, <2>3 DEF LimitsOK
<1>4. CASE VerifyWipes(r)
  BY <1>4, CallFields DEF VerifyWipes, At, VerifySteps, LimitsOK
<1>5. CASE UNCHANGED limits
  BY <1>5 DEF limits, LimitsOK
<1> QED
  BY <1>1, <1>2, <1>3, <1>4, <1>5 DEF Step, Serves, SendStep, Sends, VerifyStep, Verifies, TokenStep, Ask, Resend,
     SendChecks, SendCounts, SendArms, SendDelivers, SendFails, SendDropsCode, SendDropsCooldown, Present,
     VerifyReads, VerifyForgets, Commits, PresentToken, Deny, Fails

LEMMA CoolingKept ==
  ASSUME CallsOK, CoolingOK, NEW r \in Request, Step(r)
  PROVE  CoolingOK'
<1>1. Now(r) \in Key \/ call[r].step \notin SendSteps
  BY CallFields
<1>2. CASE SendChecks(r) \/ SendCounts(r) \/ SendArms(r) \/ SendDropsCooldown(r)
  <2>1. Now(r) \in Key
    BY <1>1, <1>2 DEF SendChecks, SendCounts, SendArms, SendDropsCooldown, At, SendSteps
  <2>2. CASE SendChecks(r)
    BY <2>1, <2>2 DEF SendChecks, CoolingOK
  <2>3. CASE SendCounts(r)
    BY <2>1, <2>3 DEF SendCounts, CoolingOK
  <2>4. CASE SendArms(r)
    BY <2>1, <2>4 DEF SendArms, CoolingOK
  <2>5. CASE SendDropsCooldown(r)
    BY <2>1, <2>5 DEF SendDropsCooldown, CoolingOK
  <2> QED
    BY <1>2, <2>2, <2>3, <2>4, <2>5
<1>3. CASE Fails(r)
  BY <1>1, <1>3 DEF Fails, At, SendSteps, CoolingOK
<1>4. CASE UNCHANGED cooling
  BY <1>4 DEF cooling, CoolingOK
<1> QED
  BY <1>2, <1>3, <1>4 DEF Step, Serves, SendStep, Sends, VerifyStep, Verifies, TokenStep, Ask, Resend,
     SendStores, SendClears, SendDelivers, SendFails, SendDropsCode, Present, VerifyAdmits,
     VerifyReads, VerifyForgets, VerifyWipes, Commits, PresentToken, Deny

LEMMA TokensKept ==
  ASSUME CallsOK, TokensOK, TokensHeld, NEW r \in Request, Step(r)
  PROVE  TokensOK' /\ born \subseteq born'
<1>1. CASE Deny(r)
  <2>1. call[r].token \in born
    BY <1>1 DEF Deny, TokensHeld
  <2>2. /\ denied' = denied \cup {call[r].token} /\ uses' = [uses EXCEPT ![call[r].token] = uses[call[r].token] + 1]
        /\ UNCHANGED <<expired, contested>>
    BY <1>1 DEF Deny
  <2>3. born \subseteq born' /\ born' \subseteq Token
    BY <1>1 DEF Deny, Issues, TokensOK
  <2> QED
    BY <2>1, <2>2, <2>3 DEF TokensOK
<1>2. CASE Commits(r)
  <2>1. born \subseteq born' /\ born' \subseteq Token
    BY <1>2 DEF Commits, Issues, TokensOK
  <2> QED
    BY <1>2, <2>1 DEF Commits, TokensOK
<1>3. ASSUME NEW t \in Token, NEW flow \in {"refresh", "logout"}, PresentToken(r, t, flow)
      PROVE  TokensOK' /\ born \subseteq born'
  BY <1>3 DEF PresentToken, TokensOK
<1>4. CASE UNCHANGED tokens
  BY <1>4 DEF tokens, TokensOK
<1> QED
  BY <1>1, <1>2, <1>3, <1>4 DEF Step, Serves, SendStep, Sends, VerifyStep, Verifies, TokenStep, Ask, Resend,
     SendChecks, SendStores, SendCounts, SendArms, SendClears, SendDelivers, SendFails, SendDropsCode,
     SendDropsCooldown, Present, VerifyAdmits, VerifyReads, VerifyForgets, VerifyWipes, Fails

LEMMA HeldKept ==
  ASSUME CallsOK, CodesOK, TokensOK, TokensHeld, NEW r \in Request, Step(r)
  PROVE  TokensHeld'
<1>1. born \subseteq born'
  BY TokensKept
<1>2. At(r, "deny")' => call'[r].token \in born
  BY StepMoves DEF Moves, TokenMoves, PresentToken, Accepted
<1>3. Untouched(r)
  BY StepMoves DEF Moves
<1> QED
  BY <1>1, <1>2, <1>3 DEF TokensHeld, Untouched, At

SignTyped == TypeOK /\ TokensHeld

LEMMA InitTyped == Init => SignTyped
<1> SUFFICES ASSUME Init PROVE SignTyped
  OBVIOUS
<1>1. RowsOK /\ CodesOK /\ LimitsOK /\ CoolingOK
  BY DEF Init, RowsOK, CodesOK, LimitsOK, CoolingOK, Code
<1>2. TokensOK
  BY DEF Init, TokensOK
<1>3. call \in [Request -> Calls] /\ TokensHeld
  BY DEF Init, Calls, TokensHeld, At
<1> QED
  BY <1>1, <1>2, <1>3 DEF SignTyped, TypeOK

LEMMA RowsKept ==
  ASSUME RowsOK, CodesOK, CallsOK, NEW r \in Request, Step(r), Fails(r) \/ UNCHANGED events
  PROVE  RowsOK'
<1>1. CASE Fails(r)
  BY <1>1 DEF Fails, Happens, rows, RowsOK
<1>2. CASE SendDelivers(r) /\ UNCHANGED events
  BY <1>2 DEF SendDelivers, RowsOK
<1>3. CASE Commits(r) /\ UNCHANGED events
  <2>1. call[r].guess \in Guesses
    BY <1>3, CallFields DEF Commits, At
  <2>2. \A k \in DOMAIN call[r].guess : <<k, call[r].guess[k]>> \in Key \X Code
    BY <2>1 DEF Guesses
  <2>3. spent' \subseteq Key \X Code
    BY <1>3, <2>2 DEF Commits, RowsOK
  <2>4. /\ account' \in {account, "verified"} /\ password' \in {password, "new"}
        /\ purpose' = purpose /\ events' = events
    BY <1>3 DEF Commits
  <2> QED
    BY <2>3, <2>4 DEF RowsOK
<1>4. CASE UNCHANGED <<rows, spent, events>>
  BY <1>4 DEF rows, RowsOK
<1> QED
  BY <1>1, <1>2, <1>3, <1>4 DEF Step, Serves, SendStep, Sends, VerifyStep, Verifies, TokenStep, Ask, Resend,
     SendChecks, SendStores, SendCounts, SendArms, SendClears, SendFails, SendDropsCode, SendDropsCooldown,
     Present, VerifyAdmits, VerifyReads, VerifyForgets, VerifyWipes, PresentToken, Deny

LEMMA ExpiresTyped == ASSUME SignTyped, Expires PROVE SignTyped'
<1> USE DEF SignTyped, TypeOK
<1>1. ASSUME NEW k \in Key, CodeExpires(k) PROVE SignTyped'
  BY <1>1 DEF CodeExpires, Happens, rows, limits, cooling, tokens, RowsOK, CodesOK, LimitsOK, CoolingOK,
              TokensOK, Code, TokensHeld, At
<1>2. ASSUME NEW k \in Key, AttemptsExpire(k) PROVE SignTyped'
  BY <1>2 DEF AttemptsExpire, Happens, rows, codes, cooling, tokens, RowsOK, CodesOK, LimitsOK, CoolingOK,
              TokensOK, TokensHeld, At
<1>3. ASSUME NEW k \in Key, CooldownEnds(k) PROVE SignTyped'
  BY <1>3 DEF CooldownEnds, Happens, rows, codes, limits, tokens, RowsOK, CodesOK, LimitsOK, CoolingOK,
              TokensOK, TokensHeld, At
<1>4. ASSUME NEW t \in Token, TokenExpires(t) PROVE SignTyped'
  BY <1>4 DEF TokenExpires, Happens, rows, codes, limits, cooling, RowsOK, CodesOK, LimitsOK, CoolingOK,
              TokensOK, TokensHeld, At
<1> QED
  BY <1>1, <1>2, <1>3, <1>4 DEF Expires

LEMMA NextTyped == SignTyped /\ [Next]_vars => SignTyped'
<1> SUFFICES ASSUME SignTyped, [Next]_vars PROVE SignTyped'
  OBVIOUS
<1>1. ASSUME NEW r \in Request, Step(r), Fails(r) \/ UNCHANGED events PROVE SignTyped'
  BY <1>1, CallsKept, CodesKept, LimitsKept, CoolingKept, TokensKept, HeldKept, RowsKept
     DEF SignTyped, TypeOK, CallsOK
<1>2. CASE UNCHANGED vars
  BY <1>2 DEF vars, rows, codes, limits, cooling, tokens, SignTyped, TypeOK, RowsOK, CodesOK, LimitsOK,
              CoolingOK, TokensOK, TokensHeld, At
<1> QED
  BY <1>1, <1>2, ExpiresTyped DEF Next, Step

\* The account, the keys in Redis, the tokens and what every request is at keep their types.
THEOREM SignInTypeCorrect == Spec => []TypeOK
<1> QED
  BY InitTyped, NextTyped, PTL DEF Spec, SignTyped

-----------------------------------------------------------------------------
(* Refresh tokens *)

LEMMA TokenInvKept == SignTyped /\ TokenInv /\ [Next]_vars => TokenInv'
<1> SUFFICES ASSUME SignTyped, TokenInv, [Next]_vars PROVE TokenInv'
  OBVIOUS
<1>0. CallsOK /\ CodesOK /\ TokensOK /\ TokensHeld
  BY DEF SignTyped, TypeOK, CallsOK
<1>1. ASSUME UNCHANGED <<expired, denied, uses, contested>>,
             \A q \in Request : At(q, "deny")' => call'[q] = call[q]
      PROVE  TokenInv'
  BY <1>1 DEF TokenInv, Holds, At
<1>2. ASSUME NEW r \in Request, Step(r), ~At(r, "deny")', UNCHANGED <<expired, denied, uses, contested>>
      PROVE  TokenInv'
  BY <1>0, <1>1, <1>2, StepMoves DEF Moves, Untouched
<1>3. ASSUME NEW r \in Request, NEW t \in Token, NEW flow \in {"refresh", "logout"}, PresentToken(r, t, flow)
      PROVE  TokenInv'
  <2>1. Becomes(r, [step |-> "deny", flow |-> flow, token |-> t])
    BY <1>0, <1>3, PresentsToken
  <2>2. \A q \in Request, u \in Token : Holds(q, u)' => IF q = r THEN u = t ELSE Holds(q, u)
    BY <2>1 DEF Becomes, Holds, At
  <2>3. /\ UNCHANGED <<expired, denied, uses>> /\ contested \subseteq contested'
        /\ t \notin denied \cup expired /\ (t \in contested' \/ \A q \in Request \ {r} : ~Holds(q, t))
    BY <1>3 DEF PresentToken, Accepted, Holds
  <2>4. t \notin contested' => uses[t] # 1
    BY <2>3 DEF TokenInv
  <2> QED
    BY <2>2, <2>3, <2>4 DEF TokenInv
<1>4. ASSUME NEW r \in Request, Deny(r) PROVE TokenInv'
  <2>0. PICK t \in Token : t = call[r].token
    BY <1>0, <1>4 DEF Deny, TokensHeld, TokensOK
  <2>1. Becomes(r, [step |-> "done"])
    BY <1>0, <1>4, Ending
  <2>2. \A q \in Request, u \in Token : Holds(q, u)' => q # r /\ Holds(q, u)
    BY <2>1 DEF Becomes, Holds, At
  <2>3. /\ t \in Token /\ Holds(r, t) /\ UNCHANGED <<expired, contested>>
        /\ denied' = denied \cup {t} /\ uses' = [uses EXCEPT ![t] = uses[t] + 1]
    BY <1>4, <2>0 DEF Deny, Holds
  <2>4. /\ uses'[t] = uses[t] + 1 /\ uses[t] \in Nat
        /\ \A u \in Token \ {t} : uses'[u] = uses[u]
    BY <1>0, <2>3 DEF TokensOK
  <2>5. t \notin contested => uses[t] = 0 /\ \A q \in Request : Holds(q, t) => q = r
    BY <2>3, <2>4 DEF TokenInv
  <2>6. t \notin contested' => uses'[t] <= 1 /\ t \in denied' \cup expired' /\ \A q \in Request : ~Holds(q, t)'
    BY <2>2, <2>3, <2>4, <2>5
  <2> QED
    BY <2>2, <2>3, <2>4, <2>6 DEF TokenInv
<1>5. ASSUME NEW t \in Token, TokenExpires(t) PROVE TokenInv'
  BY <1>5 DEF TokenExpires, TokenInv, Holds, At
<1>6. ASSUME NEW r \in Request, Step(r), ~Deny(r),
             \A t \in Token, flow \in {"refresh", "logout"} : ~PresentToken(r, t, flow)
      PROVE  TokenInv'
  <2>1. UNCHANGED <<expired, denied, uses, contested>>
    BY <1>6 DEF tokens, Step, Serves, SendStep, Sends, VerifyStep, Verifies, TokenStep, Ask, Resend,
       SendChecks, SendStores, SendCounts, SendArms, SendClears, SendDelivers, SendFails, SendDropsCode,
       SendDropsCooldown, Present, VerifyAdmits, VerifyReads, VerifyForgets, VerifyWipes, Commits, Fails
  <2> QED
    BY <1>0, <1>2, <1>6, <2>1, StepMoves DEF Moves, TokenMoves
<1>7. CASE Expires
  BY <1>1, <1>5, <1>7 DEF Expires, CodeExpires, AttemptsExpire, CooldownEnds, tokens
<1>8. CASE UNCHANGED vars
  BY <1>1, <1>8 DEF vars, tokens
<1> QED
  BY <1>3, <1>4, <1>6, <1>7, <1>8, NextCases

-----------------------------------------------------------------------------
(* Codes that were presented, and codes that are used up *)

\* A code is stored, used or expired: what is stored later is higher than what was ever made.
CodesRise ==
    \A k \in Key : /\ sent[k] <= sent'[k]
                   /\ otp'[k] \in {0, otp[k]} \/ otp'[k] > sent[k]

LEMMA StepRises ==
  ASSUME SignTyped, [Next]_vars
  PROVE  CodesRise
<1>0. CallsOK /\ CodesOK
  BY DEF SignTyped, TypeOK, CallsOK
<1>1. ASSUME UNCHANGED <<otp, sent>> PROVE CodesRise
  BY <1>0, <1>1 DEF CodesRise, CodesOK, Code
<1>2. ASSUME UNCHANGED sent, NEW k \in Key, otp' = [otp EXCEPT ![k] = 0] PROVE CodesRise
  BY <1>0, <1>2 DEF CodesRise, CodesOK, Code
<1>3. ASSUME NEW r \in Request, SendStores(r) PROVE CodesRise
  <2>1. Now(r) \in Key
    BY <1>0, <1>3, CallFields DEF SendStores, At, SendSteps
  <2>2. /\ sent' = [sent EXCEPT ![Now(r)] = sent[Now(r)] + 1]
        /\ otp' = [otp EXCEPT ![Now(r)] = sent[Now(r)] + 1]
    BY <1>3 DEF SendStores
  <2> QED
    BY <1>0, <2>1, <2>2 DEF CodesRise, CodesOK, Code
<1>4. ASSUME NEW r \in Request, SendDropsCode(r) \/ VerifyForgets(r) PROVE CodesRise
  <2>1. Now(r) \in Key
    BY <1>0, <1>4, CallFields DEF SendDropsCode, VerifyForgets, At, SendSteps, VerifySteps
  <2> QED
    BY <1>2, <1>4, <2>1 DEF SendDropsCode, VerifyForgets
<1>5. ASSUME NEW r \in Request, Step(r) PROVE CodesRise
  BY <1>1, <1>3, <1>4, <1>5 DEF codes, Step, Serves, SendStep, Sends, VerifyStep, Verifies, TokenStep, Ask,
     Resend, SendChecks, SendCounts, SendArms, SendClears, SendDelivers, SendFails,
     SendDropsCooldown, Present, VerifyAdmits, VerifyReads, VerifyWipes, Commits, PresentToken, Deny, Fails
<1>6. CASE Expires
  BY <1>1, <1>2, <1>6 DEF Expires, CodeExpires, AttemptsExpire, CooldownEnds, TokenExpires, codes
<1>7. CASE UNCHANGED vars
  BY <1>1, <1>7 DEF vars, codes
<1> QED
  BY <1>5, <1>6, <1>7, NextCases

\* What other requests do to the codes takes nothing from what a verification knows of them.
LEMMA GuessedStays ==
  ASSUME SignTyped, CodesOK', CodesRise, NEW q \in Request, Verifying(q), Guessed(q), call'[q] = call[q],
         purpose' = purpose
  PROVE  Guessed(q)'
<1>1. Needs' = Needs
  BY DEF Needs
<1>2. \A k \in Key : sent[k] \in Nat /\ sent'[k] >= sent[k]
  BY DEF SignTyped, TypeOK, CodesOK, Code, CodesRise
<1>3. KeysOf(Needs) \subseteq Key
  BY DEF KeysOf
<1>4. DOMAIN call[q].guess = KeysOf(Needs)
  BY DEF Guessed
<1>5. ASSUME NEW k \in KeysOf(Needs)
      PROVE  /\ sent'[k] >= sent[k] /\ sent[k] \in Nat /\ sent'[k] \in Nat
             /\ otp'[k] \in {0, otp[k]} \/ otp'[k] > sent[k]
  <2>1. sent'[k] \in Nat
    BY <1>3 DEF CodesOK, Code
  <2> QED
    BY <1>2, <1>3, <2>1 DEF CodesRise
<1>6. ASSUME NEW k \in KeysOf(Needs), call[q].guess[k] \in Code, call[q].guess[k] <= sent[k]
      PROVE  /\ call[q].guess[k] <= sent'[k]
             /\ call[q].guess[k] # 0 /\ otp[k] # call[q].guess[k] => otp'[k] # call[q].guess[k]
  BY <1>5, <1>6 DEF Code
<1> QED
  BY <1>1, <1>4, <1>6 DEF Guessed, At

LEMMA PurposeStays == ASSUME [Next]_vars PROVE purpose' = purpose
  BY DEF Next, vars, rows, Serves, SendStep, Sends, VerifyStep, Verifies, TokenStep, Ask, Resend, SendChecks,
     SendStores, SendCounts, SendArms, SendClears, SendDelivers, SendFails, SendDropsCode,
     SendDropsCooldown, Present, VerifyAdmits, VerifyReads, VerifyForgets, VerifyWipes, Commits,
     PresentToken, Deny, Fails, Expires, CodeExpires, AttemptsExpire, CooldownEnds, TokenExpires

\* A verification learns of its codes what it needs before it goes on.
LEMMA GuessedMoves ==
  ASSUME SignTyped, CodesOK', CodesRise, purpose' = purpose, NEW r \in Request, VerifyMoves(r),
         Verifying(r) => Guessed(r), Verifying(r)'
  PROVE  Guessed(r)'
<1>0. CallsOK /\ CodesOK /\ Needs' = Needs /\ Needs \in Lists
  BY NeedsList DEF SignTyped, TypeOK, CallsOK, Needs
<1>1. CASE Present(r) /\ At(r, "admit")' /\ call'[r].guess \in Possible
  <2>1. call'[r].guess \in [KeysOf(Needs) -> Code] /\ \A k \in KeysOf(Needs) : call'[r].guess[k] <= sent[k]
    BY <1>1, NeedsList DEF Possible
  <2>2. UNCHANGED sent
    BY <1>1 DEF Present, codes
  <2> QED
    BY <1>0, <1>1, <2>1, <2>2 DEF Guessed, At
<1>2. ASSUME VerifyAdmits(r) \/ VerifyReads(r) \/ VerifyForgets(r) \/ VerifyWipes(r)
      PROVE  /\ Guessed(r) /\ call[r].todo \in Lists /\ Now(r) \in KeysOf(call[r].todo) /\ sent' = sent
             /\ Last(r) => KeysOf(call[r].todo) = {Now(r)}
             /\ ~Last(r) => KeysOf(Tail(call[r].todo)) = KeysOf(call[r].todo) \ {Now(r)}
  <2>1. call[r].step \in VerifySteps /\ Verifying(r) /\ sent' = sent
    BY <1>2 DEF VerifyAdmits, VerifyReads, VerifyForgets, VerifyWipes, At, VerifySteps, Verifying, codes
  <2>2. call[r].todo \in Lists
    BY <1>0, <2>1, CallFields
  <2> QED
    BY <2>1, <2>2, ListFacts DEF Now, Last
<1>3. CASE VerifyAdmits(r) /\ NextKey(r, "admit", "read") /\ SameGuess(r)
  BY <1>0, <1>2, <1>3 DEF Guessed, NextKey, SameGuess, At, KeysOf
<1>4. CASE VerifyReads(r) /\ Matches(r, Now(r)) /\ NextKey(r, "read", "forget") /\ SameGuess(r)
  <2>1. otp' = otp /\ At(r, "read") /\ call[r].guess[Now(r)] # 0
    BY <1>4 DEF VerifyReads, codes, Matches
  <2>2. CASE Last(r) /\ At(r, "forget")' /\ call'[r].todo = Needs
    BY <1>0, <1>2, <1>4, <2>1, <2>2 DEF Guessed, SameGuess, At, KeysOf
  <2>3. CASE ~Last(r) /\ At(r, "read")' /\ call'[r].todo = Tail(call[r].todo)
    BY <1>0, <1>2, <1>4, <2>1, <2>3 DEF Guessed, SameGuess, At
  <2> QED
    BY <1>4, <2>2, <2>3 DEF NextKey
<1>5. CASE VerifyForgets(r) /\ NextKey(r, "forget", "wipe") /\ SameGuess(r)
  <2>1. otp' = [otp EXCEPT ![Now(r)] = 0] /\ At(r, "forget")
    BY <1>5 DEF VerifyForgets
  <2>2. Now(r) \in Key
    BY <1>2, <1>5 DEF KeysOf
  <2>3. otp'[Now(r)] = 0 /\ \A k \in Key \ {Now(r)} : otp'[k] = otp[k]
    BY <1>0, <2>1, <2>2 DEF CodesOK
  <2>4. \A k \in DOMAIN call[r].guess : k \in Key
    BY <1>2, <1>5 DEF Guessed, KeysOf
  <2>5. CASE Last(r) /\ At(r, "wipe")' /\ call'[r].todo = Needs
    BY <1>0, <1>2, <1>5, <2>1, <2>3, <2>4, <2>5 DEF Guessed, SameGuess, At
  <2>6. CASE ~Last(r) /\ At(r, "forget")' /\ call'[r].todo = Tail(call[r].todo)
    BY <1>0, <1>2, <1>5, <2>1, <2>3, <2>4, <2>6 DEF Guessed, SameGuess, At
  <2> QED
    BY <1>5, <2>5, <2>6 DEF NextKey
<1>6. CASE VerifyWipes(r) /\ NextKey(r, "wipe", "commit") /\ SameGuess(r)
  <2>1. otp' = otp /\ At(r, "wipe")
    BY <1>6 DEF VerifyWipes, codes
  <2> QED
    BY <1>0, <1>2, <1>6, <2>1 DEF Guessed, NextKey, SameGuess, At
<1> QED
  BY <1>1, <1>3, <1>4, <1>5, <1>6 DEF VerifyMoves

LEMMA GuessKept == SignTyped /\ GuessInv /\ [Next]_vars => GuessInv'
<1> SUFFICES ASSUME SignTyped, GuessInv, [Next]_vars PROVE GuessInv'
  OBVIOUS
<1>0. CallsOK /\ CodesOK /\ CodesOK' /\ CodesRise /\ purpose' = purpose
  BY NextTyped, StepRises, PurposeStays DEF SignTyped, TypeOK, CallsOK
<1>1. ASSUME NEW q \in Request, call'[q] = call[q], Verifying(q)' PROVE Guessed(q)'
  <2>1. Verifying(q) /\ Guessed(q)
    BY <1>1 DEF Verifying, GuessInv
  <2> QED
    BY <1>0, <1>1, <2>1, GuessedStays
<1>2. ASSUME NEW r \in Request, Step(r) PROVE GuessInv'
  <2>1. Untouched(r) /\ VerifyMoves(r)
    BY <1>0, <1>2, StepMoves DEF Moves
  <2>2. Verifying(r)' => Guessed(r)'
    BY <1>0, <2>1, GuessedMoves DEF GuessInv
  <2> QED
    BY <1>1, <2>1, <2>2 DEF GuessInv, Untouched
<1>3. CASE Expires \/ UNCHANGED vars
  <2>1. call' = call
    BY <1>3 DEF Expires, CodeExpires, AttemptsExpire, CooldownEnds, TokenExpires, vars
  <2> QED
    BY <1>1, <2>1 DEF GuessInv
<1> QED
  BY <1>2, <1>3, NextCases

LEMMA SpentKept == SignTyped /\ GuessInv /\ SpentInv /\ [Next]_vars => SpentInv'
<1> SUFFICES ASSUME SignTyped, GuessInv, SpentInv, [Next]_vars PROVE SpentInv'
  OBVIOUS
<1>0. CallsOK /\ CodesOK /\ CodesOK' /\ CodesRise
  BY NextTyped, StepRises DEF SignTyped, TypeOK, CallsOK
<1>1. ASSUME NEW k \in Key, NEW c \in Code, c \in 1..sent[k], otp[k] # c
      PROVE  c \in 1..sent'[k] /\ otp'[k] # c
  BY <1>0, <1>1 DEF CodesRise, CodesOK, Code
<1>2. ASSUME NEW r \in Request, Commits(r) PROVE SpentInv'
  <2>1. /\ spent' = spent \cup {<<k, call[r].guess[k]>> : k \in DOMAIN call[r].guess}
        /\ At(r, "commit")
    BY <1>2 DEF Commits
  <2>2. Guessed(r)
    BY <2>1 DEF GuessInv, Verifying, At
  <2>3. \A k \in DOMAIN call[r].guess : call[r].guess[k] \in 1..sent[k] /\ otp[k] # call[r].guess[k]
    BY <1>0, <2>1, <2>2 DEF Guessed, Code, CodesOK, KeysOf
  <2>4. \A k \in Key, c \in Code : <<k, c>> \in spent' => c \in 1..sent[k] /\ otp[k] # c
    BY <2>1, <2>3 DEF SpentInv
  <2> QED
    BY <1>1, <2>4 DEF SpentInv
<1>3. CASE UNCHANGED spent
  BY <1>1, <1>3 DEF SpentInv
<1>4. ASSUME NEW r \in Request, Step(r), ~Commits(r) PROVE UNCHANGED spent
  BY <1>4 DEF Step, Serves, SendStep, Sends, VerifyStep, Verifies, TokenStep, Ask, Resend, SendChecks,
     SendStores, SendCounts, SendArms, SendClears, SendDelivers, SendFails, SendDropsCode,
     SendDropsCooldown, Present, VerifyAdmits, VerifyReads, VerifyForgets, VerifyWipes,
     PresentToken, Deny, Fails
<1>5. Expires \/ UNCHANGED vars => UNCHANGED spent
  BY DEF Expires, CodeExpires, AttemptsExpire, CooldownEnds, TokenExpires, vars
<1> QED
  BY <1>2, <1>3, <1>4, <1>5, NextCases

LEMMA InitServes == Init => TokenInv /\ GuessInv /\ SpentInv
  BY DEF Init, TokenInv, GuessInv, SpentInv, Holds, Verifying, VerifySteps, At

\* A refresh token serves one request, unless two held it at once, and a code with which a
\* request was completed is never stored again (auth_service.py:217, otp.py:170).
THEOREM TokensAndCodesServeOnce == Spec => []ServeOnce
<1>1. SignTyped /\ TokenInv /\ SpentInv => ServeOnce
  <2> SUFFICES ASSUME SignTyped, TokenInv, SpentInv PROVE ServeOnce
    OBVIOUS
  <2>1. \A t \in Token : uses[t] <= 1 \/ t \in contested
    BY DEF TokenInv
  <2>2. \A k \in Key : otp[k] \in Code
    BY DEF SignTyped, TypeOK, CodesOK
  <2>3. \A k \in Key : <<k, otp[k]>> \notin spent
    BY <2>2 DEF SpentInv
  <2> QED
    BY <2>1, <2>3 DEF ServeOnce
<1> QED
  BY <1>1, InitTyped, NextTyped, InitServes, TokenInvKept, GuessKept, SpentKept, PTL DEF Spec

\* Whoever verifies an account or replaces its password has presented both codes (otp.py:218).
THEOREM BothCodesPresented == Spec => BothCodesNeeded
<1>1. SignTyped /\ GuessInv /\ [Next]_vars =>
        [\A r \in Request :
            At(r, "commit") /\ <<account, password>>' # <<account, password>> =>
                \A k \in DOMAIN call[r].guess : call[r].guess[k] # 0]_vars
  BY DEF GuessInv, Verifying, Guessed, At
<1> QED
  BY <1>1, InitTyped, NextTyped, InitServes, GuessKept, PTL DEF Spec, BothCodesNeeded

-----------------------------------------------------------------------------
(* Whose code is stored *)

\* A request that stored a code whose attempts are not deleted yet.
Early(r) == call[r].step \in {"count", "arm", "clear"}

\* A request that goes on with its key and its code.
SameCode(q) == Coded(q)' => Coded(q) /\ SameSend(q) /\ (Early(q)' => Early(q))

LEMMA CodedFacts ==
  ASSUME CallsOK, NEW r \in Request, Coded(r)
  PROVE  Now(r) \in Key /\ call[r].code \in Code
<1>1. call[r].step \in SendSteps
  BY DEF Coded, SendSteps
<1> QED
  BY <1>1, CallFields DEF SendCalls

LEMMA CodesQuiet ==
  ASSUME SignTyped, CodeInv, UNCHANGED <<sent, ready, mixed>>,
         \A k \in Key : otp'[k] \in {0, otp[k]}, \A q \in Request : SameCode(q)
  PROVE  CodeInv'
<1> SUFFICES ASSUME NEW r \in Request, Coded(r)'
             PROVE  /\ call'[r].code \in 1..sent'[Now(r)']
                    /\ otp'[Now(r)'] \in {0, call'[r].code} \/ Now(r)' \in mixed'
                    /\ Early(r)' /\ otp'[Now(r)'] = call'[r].code => Now(r)' \notin ready'
                    /\ \A q \in Request \ {r} :
                          Coded(q)' /\ Now(q)' = Now(r)' => call'[q].code # call'[r].code
  BY DEF CodeInv, Early
<1>0. CallsOK /\ CodesOK
  BY DEF SignTyped, TypeOK, CallsOK
<1>1. Coded(r) /\ Now(r)' = Now(r) /\ call'[r].code = call[r].code /\ (Early(r)' => Early(r))
  BY DEF SameCode, SameSend
<1>2. PICK k \in Key : k = Now(r)
  BY <1>0, <1>1, CodedFacts
<1>3. /\ call[r].code \in 1..sent[k] /\ (otp[k] \in {0, call[r].code} \/ k \in mixed)
      /\ Early(r) /\ otp[k] = call[r].code => k \notin ready
      /\ \A q \in Request \ {r} : Coded(q) /\ Now(q) = k => call[q].code # call[r].code
  BY <1>1, <1>2 DEF CodeInv, Early
<1>4. call'[r].code \in 1..sent'[k] /\ (otp'[k] \in {0, call'[r].code} \/ k \in mixed')
  BY <1>1, <1>3
<1>5. Early(r)' /\ otp'[k] = call'[r].code => k \notin ready'
  <2>1. call[r].code # 0
    BY <1>0, <1>3 DEF CodesOK, Code
  <2> QED
    BY <1>1, <1>3, <2>1
<1>6. \A q \in Request \ {r} : Coded(q)' /\ Now(q)' = k => call'[q].code # call'[r].code
  BY <1>1, <1>3 DEF SameCode, SameSend
<1> QED
  BY <1>1, <1>2, <1>4, <1>5, <1>6

\* Every step but the two that put a code in place and take note of it.
LEMMA StepQuiet ==
  ASSUME SignTyped, NEW r \in Request, Step(r), ~SendStores(r), ~SendClears(r)
  PROVE  /\ UNCHANGED <<sent, ready, mixed>> /\ \A k \in Key : otp'[k] \in {0, otp[k]}
         /\ \A q \in Request : SameCode(q)
<1>0. CallsOK /\ CodesOK /\ Moves(r)
  BY StepMoves DEF SignTyped, TypeOK, CallsOK
<1>1. SameCode(r)
  BY <1>0 DEF Moves, SendMoves, SameCode, SameSend, Coded, Early, SendSteps, At, SendCounts, SendArms, SendFails
<1>2. \A q \in Request \ {r} : SameCode(q)
  BY <1>0 DEF Moves, Untouched, SameCode, SameSend, Coded, Early, Now
<1>3. CASE UNCHANGED codes
  BY <1>1, <1>2, <1>3 DEF codes
<1>4. CASE SendDropsCode(r) \/ VerifyForgets(r)
  <2>1. otp' = [otp EXCEPT ![Now(r)] = 0] /\ UNCHANGED <<sent, ready, mixed>>
    BY <1>4 DEF SendDropsCode, VerifyForgets
  <2> QED
    BY <1>0, <1>1, <1>2, <2>1 DEF CodesOK
<1> QED
  BY <1>3, <1>4 DEF Step, Serves, SendStep, Sends, VerifyStep, Verifies, TokenStep, Ask, Resend,
     SendChecks, SendCounts, SendArms, SendDelivers, SendFails, SendDropsCooldown, Present, VerifyAdmits,
     VerifyReads, VerifyWipes, Commits, PresentToken, Deny, Fails

LEMMA CodeStored ==
  ASSUME SignTyped, CodeInv, NEW r \in Request, SendStores(r)
  PROVE  CodeInv'
<1>0. CallsOK /\ CodesOK /\ Untouched(r) /\ SendMoves(r)
  BY StepMoves DEF SignTyped, TypeOK, CallsOK, Moves, Step, Serves, SendStep, Sends
<1>1. PICK k \in Key : k = Now(r)
  BY <1>0, CallFields DEF SendStores, At, SendSteps
<1>2. PICK n \in Code : n = sent[k] + 1 /\ sent[k] \in Code
  BY <1>0, <1>1 DEF SendStores, CodesOK, Code
<1>3. /\ sent' = [sent EXCEPT ![k] = n] /\ otp' = [otp EXCEPT ![k] = n] /\ ready' = ready \ {k}
      /\ mixed' = IF Others(r, k, {"count", "arm", "clear", "deliver", "uncode"})
                  THEN mixed \cup {k} ELSE mixed \ {k}
  BY <1>1, <1>2 DEF SendStores
<1>4. call'[r].step = "count" /\ Now(r)' = k /\ call'[r].code = n
  <2>1. Becomes(r, SendCall(r, "count", sent[Now(r)] + 1))
    BY <1>0, StoresCall
  <2> QED
    BY <1>1, <1>2, <2>1 DEF Becomes, SendCall, Now
<1>5. /\ sent'[k] = n /\ otp'[k] = n
      /\ \A j \in Key \ {k} : sent'[j] = sent[j] /\ otp'[j] = otp[j]
  BY <1>0, <1>3 DEF CodesOK
<1>6. \A q \in Request \ {r} : /\ Now(q)' = Now(q) /\ call'[q].code = call[q].code
                               /\ (Coded(q)' <=> Coded(q)) /\ (Early(q)' <=> Early(q))
  BY <1>0 DEF Untouched, Now, Coded, Early
<1>7. ASSUME NEW q \in Request \ {r}, Coded(q)
      PROVE  /\ Now(q) \in Key /\ call[q].code \in Nat /\ call[q].code >= 1
             /\ call[q].code <= sent[Now(q)] /\ (Now(q) = k => k \in mixed')
  <2>1. Now(q) \in Key /\ call[q].code \in 1..sent[Now(q)]
    BY <1>0, <1>7, CodedFacts DEF CodeInv
  <2>2. Now(q) = k => Others(r, k, {"count", "arm", "clear", "deliver", "uncode"})
    BY <1>7 DEF Others, Coded
  <2>3. sent[Now(q)] \in Nat
    BY <1>0, <2>1 DEF CodesOK, Code
  <2> QED
    BY <1>3, <2>1, <2>2, <2>3
<1>8. /\ call'[r].code \in 1..sent'[Now(r)'] /\ otp'[Now(r)'] = call'[r].code /\ Now(r)' \notin ready'
      /\ \A q \in Request \ {r} :
            Coded(q)' /\ Now(q)' = Now(r)' => call'[q].code # call'[r].code
  BY <1>2, <1>3, <1>4, <1>5, <1>6, <1>7 DEF Code
<1>9. ASSUME NEW q \in Request \ {r}, Coded(q)'
      PROVE  /\ call'[q].code \in 1..sent'[Now(q)']
             /\ otp'[Now(q)'] \in {0, call'[q].code} \/ Now(q)' \in mixed'
             /\ Early(q)' /\ otp'[Now(q)'] = call'[q].code => Now(q)' \notin ready'
             /\ \A p \in Request \ {q} :
                   Coded(p)' /\ Now(p)' = Now(q)' => call'[p].code # call'[q].code
  <2>1. Coded(q) /\ Now(q)' = Now(q) /\ call'[q].code = call[q].code /\ (Early(q)' <=> Early(q))
    BY <1>6, <1>9
  <2>2. /\ call[q].code \in 1..sent[Now(q)] /\ (otp[Now(q)] \in {0, call[q].code} \/ Now(q) \in mixed)
        /\ Early(q) /\ otp[Now(q)] = call[q].code => Now(q) \notin ready
        /\ \A p \in Request \ {q} : Coded(p) /\ Now(p) = Now(q) => call[p].code # call[q].code
    BY <2>1 DEF CodeInv, Early
  <2>3. \A p \in Request \ {q} : Coded(p)' /\ Now(p)' = Now(q)' => call'[p].code # call'[q].code
    BY <1>6, <1>8, <2>1, <2>2
  <2>4. CASE Now(q) = k
    BY <1>2, <1>3, <1>5, <1>7, <2>1, <2>3, <2>4 DEF Code
  <2>5. CASE Now(q) # k
    <3>1. Now(q) \in Key \ {k} /\ (Now(q) \in mixed => Now(q) \in mixed')
      BY <1>3, <1>7, <2>1, <2>5
    <3> QED
      BY <1>3, <1>5, <2>1, <2>2, <2>3, <3>1
  <2> QED
    BY <2>4, <2>5
<1> QED
  BY <1>8, <1>9 DEF CodeInv, Early

LEMMA CodeCleared ==
  ASSUME SignTyped, CodeInv, NEW r \in Request, SendClears(r)
  PROVE  CodeInv'
<1>0. CallsOK /\ CodesOK /\ Untouched(r) /\ SendMoves(r)
  BY StepMoves DEF SignTyped, TypeOK, CallsOK, Moves, Step, Serves, SendStep, Sends
<1>1. PICK k \in Key : k = Now(r)
  BY <1>0, CallFields DEF SendClears, At, SendSteps
<1>2. /\ UNCHANGED <<otp, sent, mixed>> /\ Coded(r) /\ Early(r)
      /\ ready' = IF otp[k] = call[r].code THEN ready \cup {k} ELSE ready
  BY <1>1 DEF SendClears, At, Coded, Early
<1>3. /\ call'[r].step = "deliver" /\ Now(r)' = k /\ call'[r].code = call[r].code
  <2>1. Becomes(r, SendCall(r, "deliver", call[r].code))
    BY <1>0, SendGoes
  <2> QED
    BY <1>1, <2>1 DEF Becomes, SendCall, Now
<1>4. \A q \in Request : /\ Now(q)' = Now(q) /\ call'[q].code = call[q].code /\ (Coded(q)' => Coded(q))
                         /\ (Early(q)' => q # r /\ Early(q))
  BY <1>0, <1>1, <1>2, <1>3 DEF Untouched, Now, Coded, Early
<1>5. ASSUME NEW q \in Request, Coded(q)'
      PROVE  /\ call'[q].code \in 1..sent'[Now(q)']
             /\ otp'[Now(q)'] \in {0, call'[q].code} \/ Now(q)' \in mixed'
             /\ Early(q)' /\ otp'[Now(q)'] = call'[q].code => Now(q)' \notin ready'
             /\ \A p \in Request \ {q} :
                   Coded(p)' /\ Now(p)' = Now(q)' => call'[p].code # call'[q].code
  <2>1. /\ Coded(q)
        /\ call[q].code \in 1..sent[Now(q)] /\ (otp[Now(q)] \in {0, call[q].code} \/ Now(q) \in mixed)
        /\ Early(q) /\ otp[Now(q)] = call[q].code => Now(q) \notin ready
        /\ \A p \in Request \ {q} : Coded(p) /\ Now(p) = Now(q) => call[p].code # call[q].code
    BY <1>4, <1>5 DEF CodeInv, Early
  <2>2. ASSUME Early(q)', otp'[Now(q)'] = call'[q].code PROVE Now(q)' \notin ready'
    <3>1. q # r /\ Early(q) /\ otp[Now(q)] = call[q].code /\ Now(q) \notin ready
      BY <1>2, <1>4, <2>1, <2>2
    <3>2. Now(q) = k => call[r].code # otp[k]
      BY <1>1, <1>2, <2>1, <3>1
    <3> QED
      BY <1>2, <1>4, <3>1, <3>2
  <2> QED
    BY <1>2, <1>4, <2>1, <2>2
<1> QED
  BY <1>5 DEF CodeInv, Early

LEMMA CodeKept == SignTyped /\ CodeInv /\ [Next]_vars => CodeInv'
<1> SUFFICES ASSUME SignTyped, CodeInv, [Next]_vars PROVE CodeInv'
  OBVIOUS
<1>1. ASSUME NEW r \in Request, Step(r) PROVE CodeInv'
  BY <1>1, CodeStored, CodeCleared, StepQuiet, CodesQuiet
<1>2. CASE Expires \/ UNCHANGED vars
  <2>1. call' = call /\ UNCHANGED <<sent, ready, mixed>>
    BY <1>2 DEF Expires, CodeExpires, AttemptsExpire, CooldownEnds, TokenExpires, codes, vars
  <2>2. \A k \in Key : otp'[k] \in {0, otp[k]}
    BY <1>2 DEF Expires, CodeExpires, AttemptsExpire, CooldownEnds, TokenExpires, codes, vars,
       SignTyped, TypeOK, CodesOK
  <2>3. \A q \in Request : SameCode(q)
    BY <2>1 DEF SameCode, SameSend, Coded, Early, Now
  <2> QED
    BY <2>1, <2>2, <2>3, CodesQuiet
<1> QED
  BY <1>1, <1>2, NextCases

-----------------------------------------------------------------------------
(* Attempts *)

LEMMA AttemptsKept == SignTyped /\ CodeInv /\ AttemptInv /\ [Next]_vars => AttemptInv'
<1> SUFFICES ASSUME SignTyped, CodeInv, AttemptInv, [Next]_vars PROVE AttemptInv'
  OBVIOUS
<1>0. CallsOK /\ CodesOK /\ LimitsOK
  BY DEF SignTyped, TypeOK, CallsOK
<1>1. ASSUME UNCHANGED <<ready, tries, attempts>>, shared \subseteq shared',
             \A k \in Key : otp'[k] \in {0, otp[k]}
      PROVE  AttemptInv'
  BY <1>1 DEF AttemptInv
<1>2. ASSUME NEW r \in Request, SendStores(r) PROVE AttemptInv'
  <2>1. PICK k \in Key : k = Now(r)
    BY <1>0, <1>2, CallFields DEF SendStores, At, SendSteps
  <2>2. /\ tries' = [tries EXCEPT ![k] = 0] /\ ready' = ready \ {k} /\ shared' = shared \ {k}
        /\ otp' = [otp EXCEPT ![k] = sent[k] + 1] /\ attempts' = attempts
    BY <1>2, <2>1 DEF SendStores
  <2> QED
    BY <1>0, <2>1, <2>2 DEF AttemptInv, LimitsOK, CodesOK
<1>3. ASSUME NEW r \in Request, SendClears(r) PROVE AttemptInv'
  <2>1. PICK k \in Key : k = Now(r)
    BY <1>0, <1>3, CallFields DEF SendClears, At, SendSteps
  <2>2. UNCHANGED <<otp, tries>> /\ attempts' = [attempts EXCEPT ![k] = 0]
    BY <1>3, <2>1 DEF SendClears
  <2>3. CASE otp[k] = call[r].code
    <3>1. k \notin ready
      BY <1>3, <2>1, <2>3 DEF SendClears, At, CodeInv, Coded
    <3>2. ready' = ready \cup {k} /\ shared' = shared
      BY <1>3, <2>1, <2>3 DEF SendClears
    <3> QED
      BY <1>0, <2>2, <3>1, <3>2 DEF AttemptInv, LimitsOK
  <2>4. CASE otp[k] # call[r].code
    <3>1. ready' = ready /\ shared' = shared \cup {k}
      BY <1>3, <2>1, <2>4 DEF SendClears
    <3> QED
      BY <1>0, <2>2, <3>1 DEF AttemptInv, LimitsOK
  <2> QED
    BY <2>3, <2>4
<1>4. ASSUME NEW r \in Request, VerifyAdmits(r) PROVE AttemptInv'
  <2>1. PICK k \in Key : k = Now(r)
    BY <1>0, <1>4, CallFields DEF VerifyAdmits, At, VerifySteps
  <2>2. /\ attempts' = [attempts EXCEPT ![k] = IF attempts[k] > MaxAttempts THEN attempts[k] ELSE attempts[k] + 1]
        /\ tries' = IF k \in ready \ shared /\ attempts[k] < MaxAttempts
                    THEN [tries EXCEPT ![k] = tries[k] + 1] ELSE tries
        /\ UNCHANGED <<otp, ready, shared>>
    <3>1. Exhausted(k) <=> ~(attempts[k] < MaxAttempts)
      BY <1>0, <2>1 DEF Exhausted, LimitsOK
    <3> QED
      BY <1>4, <2>1, <3>1 DEF VerifyAdmits, codes
  <2>3. /\ attempts[k] \in Nat /\ tries[k] \in Nat
        /\ attempts'[k] = IF attempts[k] > MaxAttempts THEN attempts[k] ELSE attempts[k] + 1
        /\ \A j \in Key \ {k} : attempts'[j] = attempts[j] /\ tries'[j] = tries[j]
    BY <1>0, <2>1, <2>2 DEF LimitsOK
  <2>4. tries'[k] = IF k \in ready \ shared /\ attempts[k] < MaxAttempts THEN tries[k] + 1 ELSE tries[k]
    BY <1>0, <2>1, <2>2 DEF LimitsOK
  <2>5. k \notin ready => tries'[k] = 0
    BY <2>4 DEF AttemptInv
  <2>6. otp[k] = 0 \/ k \in shared \/ (tries'[k] <= attempts'[k] /\ tries'[k] <= MaxAttempts)
    BY <2>3, <2>4 DEF AttemptInv
  <2> QED
    BY <2>2, <2>3, <2>5, <2>6 DEF AttemptInv
<1>5. ASSUME NEW r \in Request, VerifyWipes(r) PROVE AttemptInv'
  <2>1. PICK k \in Key : k = Now(r)
    BY <1>0, <1>5, CallFields DEF VerifyWipes, At, VerifySteps
  <2>2. /\ UNCHANGED <<otp, ready, tries>> /\ attempts' = [attempts EXCEPT ![k] = 0]
        /\ shared' = shared \cup {k}
    BY <1>5, <2>1 DEF VerifyWipes, codes
  <2> QED
    BY <1>0, <2>2 DEF AttemptInv, LimitsOK
<1>6. ASSUME NEW r \in Request, Step(r), ~SendStores(r), ~SendClears(r), ~VerifyAdmits(r), ~VerifyWipes(r)
      PROVE  AttemptInv'
  <2>1. UNCHANGED limits
    BY <1>6 DEF Step, Serves, SendStep, Sends, VerifyStep, Verifies, TokenStep, Ask, Resend, SendChecks,
       SendCounts, SendArms, SendDelivers, SendFails, SendDropsCode, SendDropsCooldown, Present,
       VerifyReads, VerifyForgets, Commits, PresentToken, Deny, Fails
  <2> QED
    BY <1>1, <1>6, <2>1, StepQuiet DEF limits
<1>7. ASSUME NEW k \in Key, AttemptsExpire(k) PROVE AttemptInv'
  <2>1. /\ UNCHANGED <<otp, ready, tries, shared>> /\ attempts' = [attempts EXCEPT ![k] = 0]
        /\ otp[k] = 0 \/ tries[k] = 0
    BY <1>7 DEF AttemptsExpire, codes
  <2> QED
    BY <1>0, <2>1 DEF AttemptInv, LimitsOK
<1>8. ASSUME NEW k \in Key, CodeExpires(k) PROVE AttemptInv'
  BY <1>0, <1>1, <1>8 DEF CodeExpires, limits, CodesOK
<1>9. CASE (\E k \in Key : CooldownEnds(k)) \/ (\E t \in Token : TokenExpires(t)) \/ UNCHANGED vars
  BY <1>0, <1>1, <1>9 DEF CooldownEnds, TokenExpires, vars, codes, limits
<1> QED
  BY <1>2, <1>3, <1>4, <1>5, <1>6, <1>7, <1>8, <1>9, NextCases DEF Expires

LEMMA InitCodes == Init => CodeInv /\ AttemptInv /\ CoolInv
  BY DEF Init, CodeInv, AttemptInv, CoolInv, Coded, Passed, At, Key

\* No more than otp_max_attempts verifications of a code that was sent, unless the counter was
\* deleted by a request that was not about this code (otp.py:109, :172).
THEOREM AttemptsAreLimited == Spec => []AttemptsLimited
<1>1. SignTyped /\ AttemptInv => AttemptsLimited
  BY DEF AttemptInv, AttemptsLimited
<1> QED
  BY <1>1, InitTyped, NextTyped, InitCodes, CodeKept, AttemptsKept, PTL DEF Spec

-----------------------------------------------------------------------------
(* Cooldowns *)

\* A key whose counter has no expiry yet will be given it.
Arming(k) == \E r \in Request : At(r, "arm") /\ Now(r) = k

\* A step that counts nothing and lets nobody pass the check.
LEMMA CoolQuiet ==
  ASSUME CoolInv, UNCHANGED <<cool, armed, unarmed>>, crowded \subseteq crowded',
         \A q \in Request, k \in Key : Passed(q, k)' => Passed(q, k),
         \A q \in Request : At(q, "arm") => call'[q] = call[q]
  PROVE  CoolInv'
<1>1. \A k \in Key : Arming(k) => Arming(k)'
  BY DEF Arming, At, Now
<1> QED
  BY <1>1 DEF CoolInv, Arming

LEMMA CoolKept == SignTyped /\ CoolInv /\ [Next]_vars => CoolInv'
<1> SUFFICES ASSUME SignTyped, CoolInv, [Next]_vars PROVE CoolInv'
  OBVIOUS
<1>0. CallsOK /\ CodesOK /\ CoolingOK /\ 0 < MaxSends /\ MaxSends \in Nat
  BY DEF SignTyped, TypeOK, CallsOK
<1>a. ASSUME NEW r \in Request, Step(r)
      PROVE  /\ Untouched(r) /\ SendMoves(r)
             /\ \A q \in Request \ {r} : /\ \A k \in Key : Passed(q, k)' <=> Passed(q, k)
                                         /\ (At(q, "arm")' <=> At(q, "arm")) /\ Now(q)' = Now(q)
  <2>1. Moves(r)
    BY <1>0, <1>a, StepMoves
  <2> QED
    BY <2>1 DEF Moves, Untouched, Passed, Now, At
<1>1. ASSUME NEW r \in Request, SendChecks(r) PROVE CoolInv'
  <2>0. Step(r)
    BY <1>1 DEF Step, Serves, SendStep, Sends
  <2>1. PICK k \in Key : k = Now(r)
    BY <1>0, <1>1, CallFields DEF SendChecks, At, SendSteps
  <2>2. /\ UNCHANGED <<cool, armed, unarmed>> /\ crowded \subseteq crowded' /\ cool[k] < MaxSends
        /\ k \in crowded' \/ (~Others(r, k, {"store", "count"}) /\ ~At(r, "arm"))
    BY <1>1, <2>1 DEF SendChecks, Cooled, At
  <2>3. Now(r)' = k /\ \A j \in Key : Passed(r, j)' => j = k
    <3>1. Becomes(r, SendCall(r, "store", call[r].code))
      BY <1>0, <1>1, SendGoes
    <3> QED
      BY <2>1, <3>1 DEF Becomes, SendCall, Now, Passed
  <2>4. k \notin crowded' => \A q \in Request \ {r} : ~Passed(q, k)
    BY <2>2 DEF Others, Passed
  <2>5. \A j \in Key \ crowded' :
           /\ cool'[j] <= MaxSends
           /\ \A q \in Request : Passed(q, j)' => cool'[j] < MaxSends
           /\ \A q, p \in Request : Passed(q, j)' /\ Passed(p, j)' => q = p
    BY <1>a, <2>0, <2>2, <2>3, <2>4 DEF CoolInv
  <2>6. \A j \in Key : Arming(j) => Arming(j)'
    BY <1>1, <1>a, <2>0 DEF Arming, SendChecks, At
  <2> QED
    BY <2>2, <2>5, <2>6 DEF CoolInv, Arming
<1>2. ASSUME NEW r \in Request, SendCounts(r) PROVE CoolInv'
  <2>0. Step(r)
    BY <1>2 DEF Step, Serves, SendStep, Sends
  <2>1. PICK k \in Key : k = Now(r)
    BY <1>0, <1>2, CallFields DEF SendCounts, At, SendSteps
  <2>2. UNCHANGED <<armed, unarmed, crowded>> /\ cool' = [cool EXCEPT ![k] = cool[k] + 1] /\ Passed(r, k)
    BY <1>2, <2>1 DEF SendCounts, At, Passed
  <2>3. /\ cool[k] \in Nat /\ cool'[k] = cool[k] + 1
        /\ \A j \in Key \ {k} : cool'[j] = cool[j]
    BY <1>0, <2>2 DEF CoolingOK
  <2>4. /\ Now(r)' = k /\ (cool[k] = 0 => At(r, "arm")') /\ \A j \in Key : ~Passed(r, j)'
    <3> DEFINE x == IF cool[Now(r)] = 0 THEN "arm" ELSE "clear"
    <3>1. Becomes(r, SendCall(r, x, call[r].code))
      BY <1>0, <1>2, SendGoes
    <3>2. call'[r].step = x /\ Now(r)' = k
      BY <2>1, <3>1 DEF Becomes, SendCall, Now
    <3> QED
      BY <2>1, <3>2 DEF At, Passed
  <2>5. \A j \in Key \ crowded' :
           /\ cool'[j] <= MaxSends
           /\ \A q \in Request : Passed(q, j)' => cool'[j] < MaxSends
           /\ \A q, p \in Request : Passed(q, j)' /\ Passed(p, j)' => q = p
    BY <1>0, <1>a, <2>0, <2>2, <2>3, <2>4 DEF CoolInv
  <2>6. \A j \in Key : Arming(j) => Arming(j)'
    BY <1>2, <1>a, <2>0 DEF Arming, SendCounts, At
  <2>7. \A j \in Key : cool'[j] = 0 \/ j \in armed' \cup unarmed' \/ Arming(j)'
    BY <2>2, <2>3, <2>4, <2>6 DEF CoolInv, Arming
  <2> QED
    BY <2>5, <2>7 DEF CoolInv, Arming
<1>3. ASSUME NEW r \in Request, SendArms(r) \/ Fails(r) PROVE CoolInv'
  <2>0. Step(r)
    BY <1>3 DEF Step, Serves, SendStep, Sends
  <2>1. UNCHANGED <<cool, crowded>> /\ armed \subseteq armed' /\ unarmed \subseteq unarmed'
    BY <1>3 DEF SendArms, Fails
  <2>2. \A j \in Key : ~Passed(r, j)'
    <3>1. call'[r].step \in {"clear", "done"}
      <4>1. SendArms(r) => Becomes(r, SendCall(r, "clear", call[r].code))
        BY <1>0, SendGoes
      <4>2. Fails(r) => Becomes(r, [step |-> "done"])
        BY <1>0, Ending
      <4> QED
        BY <1>3, <4>1, <4>2 DEF Becomes, SendCall
    <3> QED
      BY <3>1 DEF Passed
  <2>3. \A j \in Key : At(r, "arm") /\ Now(r) = j => cool[j] = 0 \/ j \in armed' \cup unarmed'
    <3>1. ASSUME NEW j \in Key, At(r, "arm"), Now(r) = j PROVE cool[j] = 0 \/ j \in armed' \cup unarmed'
      <4>1. cool[j] \in Nat
        BY <1>0 DEF CoolingOK
      <4> QED
        BY <1>3, <3>1, <4>1 DEF SendArms, Fails
    <3> QED
      BY <3>1
  <2>4. \A j \in Key : Arming(j) => Arming(j)' \/ (At(r, "arm") /\ Now(r) = j)
    BY <1>a, <2>0 DEF Arming
  <2>5. \A j \in Key \ crowded' :
           /\ cool'[j] <= MaxSends
           /\ \A q \in Request : Passed(q, j)' => cool'[j] < MaxSends
           /\ \A q, p \in Request : Passed(q, j)' /\ Passed(p, j)' => q = p
    BY <1>a, <2>0, <2>1, <2>2 DEF CoolInv
  <2>6. \A j \in Key : cool'[j] = 0 \/ j \in armed' \cup unarmed' \/ Arming(j)'
    BY <2>1, <2>3, <2>4 DEF CoolInv, Arming
  <2> QED
    BY <2>5, <2>6 DEF CoolInv, Arming
<1>4. ASSUME NEW k \in Key, cool' = [cool EXCEPT ![k] = 0], crowded' = crowded,
             \A j \in Key \ {k} : /\ j \in armed \cup unarmed => j \in armed' \cup unarmed'
                                  /\ Arming(j) => Arming(j)',
             \A q \in Request, j \in Key : Passed(q, j)' => Passed(q, j)
      PROVE  CoolInv'
  <2>1. cool'[k] = 0 /\ \A j \in Key \ {k} : cool'[j] = cool[j]
    BY <1>0, <1>4 DEF CoolingOK
  <2>2. \A j \in Key \ crowded' :
           /\ cool'[j] <= MaxSends
           /\ \A q \in Request : Passed(q, j)' => cool'[j] < MaxSends
           /\ \A q, p \in Request : Passed(q, j)' /\ Passed(p, j)' => q = p
    BY <1>0, <1>4, <2>1 DEF CoolInv
  <2>3. \A j \in Key : cool'[j] = 0 \/ j \in armed' \cup unarmed' \/ Arming(j)'
    BY <1>4, <2>1 DEF CoolInv, Arming
  <2> QED
    BY <2>2, <2>3 DEF CoolInv, Arming
<1>5. ASSUME NEW r \in Request, SendDropsCooldown(r) PROVE CoolInv'
  <2>0. Step(r)
    BY <1>5 DEF Step, Serves, SendStep, Sends
  <2>1. PICK k \in Key : k = Now(r)
    BY <1>0, <1>5, CallFields DEF SendDropsCooldown, At, SendSteps
  <2>2. /\ cool' = [cool EXCEPT ![k] = 0] /\ armed' = armed \ {k} /\ unarmed' = unarmed \ {k}
        /\ crowded' = crowded /\ ~At(r, "arm")
    BY <1>5, <2>1 DEF SendDropsCooldown, At
  <2>3. \A j \in Key : ~Passed(r, j)'
    BY <1>0, <1>5, Ending DEF Becomes, Passed
  <2>4. /\ \A j \in Key : Arming(j) => Arming(j)'
        /\ \A q \in Request, j \in Key : Passed(q, j)' => Passed(q, j)
    BY <1>a, <2>0, <2>2, <2>3 DEF Arming
  <2> QED
    BY <1>4, <2>2, <2>4
<1>6. ASSUME NEW k \in Key, CooldownEnds(k) PROVE CoolInv'
  <2>1. cool' = [cool EXCEPT ![k] = 0] /\ armed' = armed \ {k} /\ UNCHANGED <<crowded, unarmed, call>>
    BY <1>6 DEF CooldownEnds
  <2>2. /\ \A j \in Key : Arming(j) => Arming(j)'
        /\ \A q \in Request, j \in Key : Passed(q, j)' => Passed(q, j)
    BY <2>1 DEF Arming, Passed, At, Now
  <2> QED
    BY <1>4, <2>1, <2>2
<1>7. ASSUME NEW r \in Request, Step(r), ~SendChecks(r), ~SendCounts(r), ~SendArms(r), ~Fails(r),
             ~SendDropsCooldown(r)
      PROVE  CoolInv'
  <2>1. UNCHANGED cooling /\ ~At(r, "arm")
    <3>1. Ask(r) \/ (\E k \in Key : Resend(r, k)) \/ Present(r)
             \/ (\E t \in Token, flow \in {"refresh", "logout"} : PresentToken(r, t, flow)) => ~At(r, "arm")
      BY <1>0, AskCall, PresentCall, PresentsToken DEF At
    <3> QED
      BY <1>7, <3>1 DEF Step, Serves, SendStep, Sends, VerifyStep, Verifies, TokenStep, Ask, Resend, SendStores,
         SendClears, SendDelivers, SendFails, SendDropsCode, Present, VerifyAdmits, VerifyReads,
         VerifyForgets, VerifyWipes, Commits, PresentToken, Deny, At
  <2>2. \A j \in Key : Passed(r, j)' => Passed(r, j)
    BY <1>7, <1>a DEF SendMoves, SendStores, Passed, At, SendSteps
  <2>3. \A q \in Request : At(q, "arm") => call'[q] = call[q]
    BY <1>7, <1>a, <2>1 DEF Untouched
  <2> QED
    BY <1>7, <1>a, <2>1, <2>2, <2>3, CoolQuiet DEF cooling
<1>8. CASE (\E k \in Key : CodeExpires(k) \/ AttemptsExpire(k)) \/ (\E t \in Token : TokenExpires(t))
           \/ UNCHANGED vars
  BY <1>8, CoolQuiet DEF CodeExpires, AttemptsExpire, TokenExpires, vars, cooling, Passed, Now, At
<1> QED
  BY <1>1, <1>2, <1>3, <1>5, <1>6, <1>7, <1>8, NextCases DEF Expires

\* A cooldown has no more codes than MaxSends, unless two sends passed the check at once, and its
\* counter has an expiry, unless its send failed in between (otp.py:95, :105).
THEOREM CooldownsAreKept == Spec => []CooldownsHold
<1>1. CoolInv => CooldownsHold
  BY DEF CoolInv, CooldownsHold
<1> QED
  BY <1>1, InitTyped, NextTyped, InitCodes, CoolKept, PTL DEF Spec

-----------------------------------------------------------------------------
(* Codes that were sent *)

\* A code that was sent is there until it is used or expires or its own message is refused
\* (otp.py:133).
THEOREM CodesStay == Spec => SentCodesStay
<1>1. ASSUME SignTyped, CodeInv, GuessInv, [Next]_vars
      PROVE  [\A k \in ready : otp[k] # 0 /\ otp'[k] = 0 =>
                \/ k \in mixed
                \/ call' = call
                \/ \E r \in Request : At(r, "uncode") /\ call[r].code = otp[k]
                \/ \E r \in Request :
                      At(r, "forget") /\ call[r].guess[k] # 0 /\ call'[r] # call[r]]_vars
  <2> SUFFICES ASSUME NEW k \in ready, otp[k] # 0, otp'[k] = 0, k \notin mixed, call' # call
               PROVE  \/ \E r \in Request : At(r, "uncode") /\ call[r].code = otp[k]
                      \/ \E r \in Request :
                            At(r, "forget") /\ call[r].guess[k] # 0 /\ call'[r] # call[r]
    OBVIOUS
  <2>0. CallsOK /\ CodesOK /\ k \in Key
    BY <1>1 DEF SignTyped, TypeOK, CallsOK, CodesOK
  <2>1. PICK r \in Request : Step(r)
    BY <1>1, NextCases DEF Expires, CodeExpires, AttemptsExpire, CooldownEnds, TokenExpires, vars
  <2>2. ~SendStores(r)
    <3> SUFFICES ASSUME SendStores(r) PROVE FALSE
      OBVIOUS
    <3>1. otp' = [otp EXCEPT ![Now(r)] = sent[Now(r)] + 1] /\ Now(r) \in Key
      BY <2>0, CallFields DEF SendStores, At, SendSteps
    <3> QED
      BY <2>0, <3>1 DEF CodesOK, Code
  <2>3. (SendDropsCode(r) \/ VerifyForgets(r)) /\ Now(r) = k
    <3>1. ~UNCHANGED otp
      OBVIOUS
    <3>2. SendDropsCode(r) \/ VerifyForgets(r)
      BY <2>1, <2>2, <3>1 DEF codes, Step, Serves, SendStep, Sends, VerifyStep, Verifies, TokenStep, Ask, Resend,
         SendChecks, SendCounts, SendArms, SendClears, SendDelivers, SendFails, SendDropsCooldown, Present,
         VerifyAdmits, VerifyReads, VerifyWipes, Commits, PresentToken, Deny, Fails
    <3>3. otp' = [otp EXCEPT ![Now(r)] = 0]
      BY <3>2 DEF SendDropsCode, VerifyForgets
    <3> QED
      BY <2>0, <3>2, <3>3 DEF CodesOK
  <2>4. CASE SendDropsCode(r)
    <3>1. At(r, "uncode") /\ Coded(r)
      BY <2>4 DEF SendDropsCode, At, Coded
    <3> QED
      BY <1>1, <2>3, <3>1 DEF CodeInv
  <2>5. CASE VerifyForgets(r)
    <3>1. At(r, "forget") /\ call[r].step \in VerifySteps /\ Guessed(r)
      BY <1>1, <2>5 DEF VerifyForgets, GuessInv, Verifying, VerifySteps, At
    <3>2. call[r].todo \in Lists /\ k \in KeysOf(call[r].todo)
      BY <2>0, <2>3, <3>1, CallFields, ListFacts DEF Now
    <3>3. call[r].guess[k] # 0
      BY <3>1, <3>2 DEF Guessed
    <3>4. call'[r] # call[r]
      <4>1. CASE Last(r)
        <5>1. call'[r].step = "wipe"
          <6>1. Becomes(r, VerifyCall(r, "wipe", Needs, call[r].over))
            BY <2>0, <2>5, <4>1, VerifyGoes
          <6> QED
            BY <6>1 DEF Becomes, VerifyCall
        <5> QED
          BY <3>1, <5>1 DEF At
      <4>2. CASE ~Last(r)
        <5>1. call'[r].todo = Tail(call[r].todo)
          <6>1. Becomes(r, VerifyCall(r, "forget", Tail(call[r].todo), call[r].over))
            BY <2>0, <2>5, <4>2, VerifyGoes
          <6> QED
            BY <6>1 DEF Becomes, VerifyCall
        <5> QED
          BY <3>2, <4>2, <5>1, ListFacts DEF Last
      <4> QED
        BY <4>1, <4>2
    <3> QED
      BY <3>1, <3>3, <3>4
  <2> QED
    BY <2>3, <2>4, <2>5
<1> QED
  BY <1>1, InitTyped, NextTyped, InitServes, InitCodes, CodeKept, GuessKept, PTL DEF Spec, SentCodesStay

=============================================================================
