-------------------------------- MODULE SignIn --------------------------------
(***************************************************************************)
(* How a photographer signs in: OTPService (utils/otp.py) sends one-time   *)
(* codes and verifies them, AuthService (services/auth_service.py) asks    *)
(* for them when an account is registered, entered or given another        *)
(* password, and issues, rotates and revokes refresh tokens.               *)
(*                                                                         *)
(* Codes, their counters and the denylist are keys in Redis; each command  *)
(* on them is a step, and other requests go on between two commands.  The  *)
(* account is a row that is committed at the end of the request.  One      *)
(* account, outside debug mode, and one purpose: codes for different       *)
(* purposes have different keys.  The code is a number, 0 is none and the  *)
(* wrong guess.                                                            *)
(***************************************************************************)
EXTENDS Integers, FiniteSets, Sequences

CONSTANTS
    Request,        \* requests, each of which is made once
    Token,          \* refresh tokens that may be issued
    MaxAttempts,    \* otp_max_attempts
    MaxSends,       \* codes sent to a destination in a cooldown: 2 (otp.py:96)
    MaxCodes,       \* bound: codes for a destination
    MaxAtOnce,      \* bound: requests in progress
    MaxEvents       \* bound: requests that fail and keys that expire

ASSUME SignInAssumption == {MaxAttempts, MaxSends, MaxCodes, MaxAtOnce, MaxEvents} \subseteq Nat \ {0}

Key     == {"phone", "email"}
Code    == 0..MaxCodes
Purpose == {"registration", "login", "password_reset"}

VARIABLES
    account,    \* none, open (not verified) or verified
    password,   \* old, or new after a reset
    purpose,    \* of the codes in this behaviour
    otp,        \* otp:{destination}:{purpose}
    attempts,   \* otp:attempts:...
    cool,       \* otp:cooldown:...
    armed,      \* cooldown counters that have an expiry
    born,       \* refresh tokens that were issued
    expired,    \* those past their exp
    denied,     \* refresh_token:denylist:{jti}
    call,       \* what each request is at
    sent,       \* codes made so far
    events,     \* requests that failed and keys that expired so far
    ready,      \* history: keys whose code was stored by a request that went on to send it
    tries,      \* history: verifications admitted since then
    shared,     \* history: keys whose attempts another request has deleted since then
    mixed,      \* history: keys whose code was stored during another send
    crowded,    \* history: keys with two sends past the cooldown check at once
    unarmed,    \* history: keys whose send failed before the expiry was set
    spent,      \* history: codes with which a request has been completed
    uses,       \* history: refreshes and logouts completed with a token
    contested   \* history: tokens that two requests held at once

rows    == <<account, password, purpose>>
codes   == <<otp, sent, ready, mixed>>
limits  == <<attempts, tries, shared>>
cooling == <<cool, armed, crowded, unarmed>>
tokens  == <<born, expired, denied, uses, contested>>
vars    == <<rows, codes, limits, cooling, tokens, call, spent, events>>

Guesses == UNION {[D -> Code] : D \in SUBSET Key}
Todo    == {<<>>, <<"phone">>, <<"email">>, <<"phone", "email">>}

SendSteps   == {"check", "store", "count", "arm", "clear", "deliver", "uncode", "uncool"}
VerifySteps == {"admit", "read", "forget", "wipe"}

Calls ==
    [step : {"off", "done"}]
    \cup [step : SendSteps, flow : {"ask", "resend"}, todo : Todo \ {<<>>}, code : Code]
    \cup [step : VerifySteps, todo : Todo \ {<<>>}, guess : Guesses, over : BOOLEAN]
    \cup [step : {"commit"}, todo : {<<>>}, guess : Guesses, over : BOOLEAN]
    \cup [step : {"deny"}, flow : {"refresh", "logout"}, token : Token]

(* The destinations a request of the purpose sends to, and whose codes it verifies. *)
Needs == IF purpose = "login" THEN <<"email">> ELSE <<"phone", "email">>

RowsOK == /\ account \in {"none", "open", "verified"} /\ password \in {"old", "new"}
          /\ purpose \in Purpose /\ spent \subseteq Key \X Code /\ events \in 0..MaxEvents

CodesOK == /\ otp \in [Key -> Code] /\ sent \in [Key -> Code] /\ \A k \in Key : otp[k] <= sent[k]
           /\ ready \subseteq Key /\ mixed \subseteq Key

LimitsOK == attempts \in [Key -> Nat] /\ tries \in [Key -> Nat] /\ shared \subseteq Key

CoolingOK == /\ cool \in [Key -> Nat] /\ armed \subseteq {k \in Key : cool[k] > 0}
             /\ crowded \subseteq Key /\ unarmed \subseteq Key

TokensOK == /\ born \subseteq Token /\ expired \subseteq born /\ denied \subseteq born
            /\ uses \in [Token -> Nat] /\ contested \subseteq Token

TypeOK == RowsOK /\ CodesOK /\ LimitsOK /\ CoolingOK /\ TokensOK /\ call \in [Request -> Calls]

Init ==
    /\ purpose \in Purpose /\ password = "old"
    /\ account = IF purpose = "registration" THEN "none" ELSE "verified"
    /\ born \in {T \in SUBSET Token : Cardinality(T) <= 1 /\ (T # {} => account = "verified")}
    /\ expired = {} /\ denied = {} /\ contested = {} /\ uses = [t \in Token |-> 0]
    /\ otp = [k \in Key |-> 0] /\ sent = otp /\ attempts = otp /\ cool = otp /\ tries = otp
    /\ armed = {} /\ ready = {} /\ shared = {} /\ mixed = {} /\ crowded = {} /\ unarmed = {}
    /\ spent = {} /\ events = 0
    /\ call = [r \in Request |-> [step |-> "off"]]

------------------------------------------------------------------------------
(* Requests *)

Busy == {r \in Request : call[r].step \notin {"off", "done"}}

Begins(r, c)  == /\ call[r].step = "off" /\ Cardinality(Busy) < MaxAtOnce
                 /\ call' = [call EXCEPT ![r] = c]
Goes(r, step) == call' = [call EXCEPT ![r].step = step]
Answers(r)    == call' = [call EXCEPT ![r] = [step |-> "done"]]

At(r, step) == call[r].step = step

(* The key a request works on, and whether it is the last of its list. *)
Now(r)  == Head(call[r].todo)
Last(r) == Len(call[r].todo) = 1

(* On to the next key with step, or after the last to after with the list todo. *)
Steps(r, step, after, todo) ==
    call' = [call EXCEPT ![r] =
                IF Last(r) THEN [@ EXCEPT !.step = after, !.todo = todo]
                ELSE [@ EXCEPT !.step = step, !.todo = Tail(call[r].todo)]]

Happens == events < MaxEvents /\ events' = events + 1

(* A request that is refused, loses Redis or the database, or dies: the row is *)
(* rolled back, Redis is not.                                                  *)
Fails(r) ==
    /\ Happens /\ ~At(r, "off") /\ ~At(r, "done")
    /\ unarmed' = IF At(r, "arm") THEN unarmed \cup {Now(r)} ELSE unarmed
    /\ Answers(r)
    /\ UNCHANGED <<rows, codes, limits, cool, armed, crowded, tokens, spent>>

------------------------------------------------------------------------------
(* OTPService.send_otp *)

Sending(todo, flow) == [step |-> "check", flow |-> flow, todo |-> todo, code |-> 0]

(* register flushes the row before it sends: another register of the same row waits. *)
Registering ==
    \E r \in Request : call[r].step \in SendSteps /\ call[r].flow = "ask"

(* A registration may be repeated until an address is verified, as it is by a reset. *)
MayRegister == account # "verified" /\ password = "old"

Register(r) ==
    /\ purpose = "registration" /\ MayRegister /\ ~Registering
    /\ Begins(r, Sending(Needs, "ask"))

(* With the right password; the code goes to the email address alone. *)
Login(r) ==
    /\ purpose = "login" /\ account = "verified"
    /\ Begins(r, Sending(Needs, "ask"))

ForgotPassword(r) ==
    /\ purpose = "password_reset" /\ account = "verified"
    /\ Begins(r, Sending(Needs, "ask"))

Ask(r) ==
    /\ Register(r) \/ Login(r) \/ ForgotPassword(r)
    /\ UNCHANGED <<rows, codes, limits, cooling, tokens, spent>>

(* AuthService.send_otp: one destination; for a registration no account is needed. *)
Resend(r, k) ==
    /\ purpose = "registration" \/ account # "none"
    /\ Begins(r, Sending(<<k>>, "resend"))
    /\ UNCHANGED <<rows, codes, limits, cooling, tokens, spent>>

(* Requests that are at one of the steps with the key k. *)
Others(r, k, steps) == \E q \in Request \ {r} : call[q].step \in steps /\ Now(q) = k

Cooled(k) == cool[k] < MaxSends

SendChecks(r) ==
    /\ At(r, "check") /\ Cooled(Now(r)) /\ sent[Now(r)] < MaxCodes
    /\ crowded' = IF Others(r, Now(r), {"store", "count"}) THEN crowded \cup {Now(r)}
                  ELSE crowded
    /\ Goes(r, "store")
    /\ UNCHANGED <<rows, codes, limits, cool, armed, unarmed, tokens, spent>>

SendStores(r) ==
    /\ At(r, "store")
    /\ LET k == Now(r)
       IN  /\ sent[k] < MaxCodes
           /\ sent' = [sent EXCEPT ![k] = @ + 1]
           /\ otp' = [otp EXCEPT ![k] = sent[k] + 1]
           /\ call' = [call EXCEPT ![r] = [@ EXCEPT !.step = "count", !.code = sent[k] + 1]]
           /\ ready' = ready \ {k}
           /\ tries' = [tries EXCEPT ![k] = 0] /\ shared' = shared \ {k}
           /\ mixed' = IF Others(r, k, {"count", "arm", "clear", "deliver", "uncode"})
                       THEN mixed \cup {k} ELSE mixed \ {k}
    /\ UNCHANGED <<rows, attempts, cooling, tokens, spent>>

(* Mutant: the expiry is given with the second code. *)
SendCountsLate(r) ==
    /\ At(r, "count")
    /\ cool' = [cool EXCEPT ![Now(r)] = @ + 1]
    /\ Goes(r, IF cool[Now(r)] = 1 THEN "arm" ELSE "clear")
    /\ UNCHANGED <<rows, codes, limits, armed, crowded, unarmed, tokens, spent>>

SendCounts(r) ==
    /\ At(r, "count")
    /\ cool' = [cool EXCEPT ![Now(r)] = @ + 1]
    /\ Goes(r, IF cool[Now(r)] = 0 THEN "arm" ELSE "clear")
    /\ UNCHANGED <<rows, codes, limits, armed, crowded, unarmed, tokens, spent>>

SendArms(r) ==
    /\ At(r, "arm")
    /\ armed' = IF cool[Now(r)] > 0 THEN armed \cup {Now(r)} ELSE armed
    /\ Goes(r, "clear")
    /\ UNCHANGED <<rows, codes, limits, cool, crowded, unarmed, tokens, spent>>

(* The attempts are deleted: those of the code of this request, unless another *)
(* code has taken its place.                                                   *)
SendClears(r) ==
    /\ At(r, "clear")
    /\ LET k == Now(r)
       IN  /\ attempts' = [attempts EXCEPT ![k] = 0]
           /\ IF otp[k] = call[r].code
              THEN ready' = ready \cup {k} /\ shared' = shared
              ELSE ready' = ready /\ shared' = shared \cup {k}
    /\ Goes(r, "deliver")
    /\ UNCHANGED <<rows, otp, sent, mixed, tries, cooling, tokens, spent>>

(* The message is accepted.  register commits its row at the end. *)
SendDelivers(r) ==
    /\ At(r, "deliver")
    /\ call' = [call EXCEPT ![r] = IF Last(r) THEN [step |-> "done"]
                                   ELSE Sending(Tail(@.todo), @.flow)]
    /\ account' = IF Last(r) /\ call[r].flow = "ask" /\ account = "none" THEN "open"
                  ELSE account
    /\ UNCHANGED <<password, purpose, codes, limits, cooling, tokens, spent>>

(* The message is not accepted: code and cooldown are deleted and the request fails. *)
SendFails(r) ==
    /\ At(r, "deliver")
    /\ Goes(r, "uncode")
    /\ UNCHANGED <<rows, codes, limits, cooling, tokens, spent>>

SendDropsCode(r) ==
    /\ At(r, "uncode")
    /\ otp' = [otp EXCEPT ![Now(r)] = 0]
    /\ Goes(r, "uncool")
    /\ UNCHANGED <<rows, sent, ready, mixed, limits, cooling, tokens, spent>>

SendDropsCooldown(r) ==
    /\ At(r, "uncool")
    /\ cool' = [cool EXCEPT ![Now(r)] = 0]
    /\ armed' = armed \ {Now(r)} /\ unarmed' = unarmed \ {Now(r)}
    /\ Answers(r)
    /\ UNCHANGED <<rows, codes, limits, crowded, tokens, spent>>

------------------------------------------------------------------------------
(* OTPService.verify_otp, and verify_otp_pair with two destinations *)

MayVerify == account = "verified" \/ (purpose # "login" /\ account = "open")

(* A guess is a code that was made, or a wrong one. *)
Possible == {g \in [{Needs[i] : i \in DOMAIN Needs} -> Code] :
                 \A k \in DOMAIN g : g[k] <= sent[k]}

Present(r) ==
    /\ MayVerify
    /\ \E g \in Possible :
          Begins(r, [step |-> "admit", todo |-> Needs, guess |-> g, over |-> FALSE])
    /\ UNCHANGED <<rows, codes, limits, cooling, tokens, spent>>

(* Mutant: one attempt more. *)
ExhaustedLate(k) == attempts[k] > MaxAttempts

Exhausted(k) == attempts[k] >= MaxAttempts

(* Both attempts are counted before either is found to be one too many. *)
VerifyAdmits(r) ==
    /\ At(r, "admit")
    /\ LET k == Now(r)
           over == call[r].over \/ Exhausted(k)
       IN  /\ attempts' = [attempts EXCEPT ![k] = IF @ > MaxAttempts THEN @ ELSE @ + 1]
           /\ tries' = IF k \in ready \ shared /\ ~Exhausted(k) THEN [tries EXCEPT ![k] = @ + 1]
                       ELSE tries
           /\ IF Last(r) /\ over THEN Answers(r)
              ELSE call' = [call EXCEPT ![r] =
                       [@ EXCEPT !.over = over,
                                 !.step = IF Last(r) THEN "read" ELSE "admit",
                                 !.todo = IF Last(r) THEN Needs ELSE Tail(call[r].todo)]]
    /\ UNCHANGED <<rows, codes, shared, cooling, tokens, spent>>

(* Mutant: a code that is left out is not asked for. *)
MatchesIfGiven(r, k) == call[r].guess[k] = 0 \/ otp[k] = call[r].guess[k]

Matches(r, k) == otp[k] # 0 /\ otp[k] = call[r].guess[k]

(* Mutant: the codes are used up whether they match or not. *)
VerifyReadsOnce(r) ==
    /\ At(r, "read")
    /\ Steps(r, "read", "forget", Needs)
    /\ UNCHANGED <<rows, codes, limits, cooling, tokens, spent>>

(* Both codes are read; only when both match are they used. *)
VerifyReads(r) ==
    /\ At(r, "read")
    /\ IF Matches(r, Now(r)) THEN Steps(r, "read", "forget", Needs)
       ELSE Answers(r)
    /\ UNCHANGED <<rows, codes, limits, cooling, tokens, spent>>

VerifyForgets(r) ==
    /\ At(r, "forget")
    /\ otp' = [otp EXCEPT ![Now(r)] = 0]
    /\ Steps(r, "forget", "wipe", Needs)
    /\ UNCHANGED <<rows, sent, ready, mixed, limits, cooling, tokens, spent>>

VerifyWipes(r) ==
    /\ At(r, "wipe")
    /\ attempts' = [attempts EXCEPT ![Now(r)] = 0]
    /\ shared' = shared \cup {Now(r)}
    /\ Steps(r, "wipe", "commit", <<>>)
    /\ UNCHANGED <<rows, codes, tries, cooling, tokens, spent>>

(* create_refresh_token: every token has a jti of its own. *)
NewToken(t) == t \notin born

Issues == \E t \in Token : NewToken(t) /\ born' = born \cup {t}

(* What the verification was for: the account is verified, the password is *)
(* replaced, and all but a reset hand out tokens.                           *)
Commits(r) ==
    /\ At(r, "commit")
    /\ account' = IF purpose = "registration" THEN "verified" ELSE account
    /\ password' = IF purpose = "password_reset" THEN "new" ELSE password
    /\ IF purpose = "password_reset" THEN born' = born ELSE Issues
    /\ spent' = spent \cup {<<k, call[r].guess[k]>> : k \in DOMAIN call[r].guess}
    /\ Answers(r)
    /\ UNCHANGED <<purpose, codes, limits, cooling, expired, denied, uses, contested>>

------------------------------------------------------------------------------
(* Refresh tokens *)

(* Mutant: the denylist is not looked up. *)
AcceptedUntilExpiry(t) == t \in born \ expired

Accepted(t) == t \in born \ (expired \cup denied)

(* refresh_tokens and logout: the token is decoded and looked up in the denylist. *)
PresentToken(r, t, flow) ==
    /\ Accepted(t)
    /\ Begins(r, [step |-> "deny", flow |-> flow, token |-> t])
    /\ contested' = IF \E q \in Request \ {r} : At(q, "deny") /\ call[q].token = t
                    THEN contested \cup {t} ELSE contested
    /\ UNCHANGED <<rows, codes, limits, cooling, born, expired, denied, uses, spent>>

(* Its jti is denied for as long as the token would have lived. *)
Deny(r) ==
    /\ At(r, "deny")
    /\ LET t == call[r].token
       IN  /\ denied' = denied \cup {t}
           /\ uses' = [uses EXCEPT ![t] = @ + 1]
    /\ IF call[r].flow = "refresh" THEN Issues ELSE born' = born
    /\ Answers(r)
    /\ UNCHANGED <<rows, codes, limits, cooling, expired, contested, spent>>

------------------------------------------------------------------------------
(* Expiries.  Every attempt prolongs the counter, so it outlives the code it counts for. *)

CodeExpires(k) ==
    /\ Happens /\ otp[k] # 0
    /\ otp' = [otp EXCEPT ![k] = 0]
    /\ UNCHANGED <<rows, sent, ready, mixed, limits, cooling, tokens, call, spent>>

AttemptsExpire(k) ==
    /\ Happens /\ attempts[k] # 0 /\ (otp[k] = 0 \/ tries[k] = 0)
    /\ attempts' = [attempts EXCEPT ![k] = 0]
    /\ UNCHANGED <<rows, codes, tries, shared, cooling, tokens, call, spent>>

CooldownEnds(k) ==
    /\ Happens /\ k \in armed
    /\ cool' = [cool EXCEPT ![k] = 0] /\ armed' = armed \ {k}
    /\ UNCHANGED <<rows, codes, limits, crowded, unarmed, tokens, call, spent>>

(* The token goes out of date, then its place in the denylist is given up. *)
TokenExpires(t) ==
    /\ Happens /\ t \in born \ expired
    /\ expired' = expired \cup {t} /\ denied' = denied \ {t}
    /\ UNCHANGED <<rows, codes, limits, cooling, born, uses, contested, call, spent>>

------------------------------------------------------------------------------
Sends(r) ==
    \/ SendChecks(r) \/ SendStores(r) \/ SendCounts(r) \/ SendArms(r) \/ SendClears(r)
    \/ SendDelivers(r) \/ SendFails(r) \/ SendDropsCode(r) \/ SendDropsCooldown(r)

SendStep(r) == Ask(r) \/ (\E k \in Key : Resend(r, k)) \/ Sends(r)

Verifies(r) == VerifyAdmits(r) \/ VerifyReads(r) \/ VerifyForgets(r) \/ VerifyWipes(r)

VerifyStep(r) == Present(r) \/ Verifies(r) \/ Commits(r)

TokenStep(r) ==
    \/ \E t \in Token, flow \in {"refresh", "logout"} : PresentToken(r, t, flow)
    \/ Deny(r)

(* The endpoints of an account (auth.py). *)
Serves(r) == SendStep(r) \/ VerifyStep(r) \/ TokenStep(r)

Expires ==
    \/ \E k \in Key : CodeExpires(k) \/ AttemptsExpire(k) \/ CooldownEnds(k)
    \/ \E t \in Token : TokenExpires(t)

Next ==
    \/ (\E r \in Request : Serves(r)) /\ UNCHANGED events
    \/ \E r \in Request : Fails(r)
    \/ Expires

Spec == Init /\ [][Next]_vars

------------------------------------------------------------------------------
(* Properties *)

(* No more than otp_max_attempts verifications of a code that was sent, unless the   *)
(* counter was deleted by a request that was not about this code (otp.py:109, :172). *)
AttemptsLimited == \A k \in Key : otp[k] = 0 \/ k \in shared \/ tries[k] <= MaxAttempts

(* A cooldown has no more codes than MaxSends, unless two sends passed the check at   *)
(* once (otp.py:95); and it ends: its counter has an expiry, or will be given it, or  *)
(* else its send failed between incr and expire, and only then is a destination       *)
(* locked for ever (:105).                                                            *)
CooldownsHold ==
    \A k \in Key :
        /\ cool[k] <= MaxSends \/ k \in crowded
        /\ \/ cool[k] = 0 \/ k \in armed \cup unarmed
           \/ \E r \in Request : At(r, "arm") /\ Now(r) = k

(* A refresh token serves one request, unless two held it at once (auth_service.py:217), *)
(* and a code with which a request was completed is not stored any more: it is accepted  *)
(* again only by requests that had read it before (otp.py:170).                          *)
ServeOnce ==
    /\ \A t \in Token : uses[t] <= 1 \/ t \in contested
    /\ \A k \in Key : <<k, otp[k]>> \notin spent

(* A code that was sent is there until it is used or expires or its own message is   *)
(* refused; another send takes it away only when the two overlapped (otp.py:133).    *)
SentCodesStay ==
    [][\A k \in ready : otp[k] # 0 /\ otp'[k] = 0 =>
          \/ k \in mixed
          \/ call' = call
          \/ \E r \in Request : At(r, "uncode") /\ call[r].code = otp[k]
          \/ \E r \in Request : At(r, "forget") /\ call[r].guess[k] # 0 /\ call'[r] # call[r]]_vars

(* An account is verified, and a password replaced, only by who has presented the code *)
(* sent to the phone and the code sent to the mail address (otp.py:218).               *)
BothCodesNeeded ==
    [][\A r \in Request :
          At(r, "commit") /\ <<account, password>>' # <<account, password>> =>
              \A k \in DOMAIN call[r].guess : call[r].guess[k] # 0]_vars
=============================================================================
