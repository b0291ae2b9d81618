------------------------------- MODULE FaceLock ------------------------------
(***************************************************************************)
(* The Redis lock of one event (ml/clustering/locks.py) as the face        *)
(* pipeline uses it (ml/pipeline.py): SET NX EX to acquire with a bounded  *)
(* number of attempts, a Lua compare-and-expire to extend, a Lua           *)
(* compare-and-delete to release, and a key that Redis drops when its time *)
(* to live is over.                                                        *)
(*                                                                         *)
(* A lock object draws a fresh uuid4 as its token, and one worker process  *)
(* runs one job at a time, so a worker stands for the token of its current *)
(* run.  Time is discrete; the key's remaining life and the time since     *)
(* each holder's last extend are kept as counters, so that no clock grows  *)
(* without bound.                                                          *)
(***************************************************************************)
EXTENDS Naturals

CONSTANTS
    Worker,         \* the Celery face workers
    NoWorker,       \* the key is absent
    LockTtl,        \* face_pipeline_lock_ttl_seconds, in ticks
    PulseGap,       \* the longest a live holder goes without an extend, in ticks
    LockAttempts    \* clustering_lock_retry_attempts

ASSUME LockAssumption ==
    /\ NoWorker \notin Worker
    /\ LockTtl \in Nat \ {0}
    /\ PulseGap \in Nat
    /\ LockAttempts \in Nat \ {0}

VARIABLES
    key,        \* the token Redis stores under face_pipeline_lock:{event_id}
    ttl,        \* what is left of the key's life; 0 exactly when it is absent
    holding,    \* the workers whose acquire returned True and who still run
    attempt,    \* refused attempts of a worker inside _acquire_pipeline_lock
    gap         \* ticks since the last acquire or extend of each holder

lockVars == <<key, ttl, holding, attempt, gap>>

LockTypeOK ==
    /\ key \in Worker \cup {NoWorker}
    /\ ttl \in 0..LockTtl
    /\ holding \subseteq Worker
    /\ attempt \in [Worker -> 0..LockAttempts]
    /\ gap \in [Worker -> 0..PulseGap]

LockInit ==
    /\ key = NoWorker
    /\ ttl = 0
    /\ holding = {}
    /\ attempt = [w \in Worker |-> 0]
    /\ gap = [w \in Worker |-> 0]

KeyExists == key # NoWorker

-----------------------------------------------------------------------------

\* Mutant: SET without NX.
AcquireWithoutNX(w) ==
    /\ w \notin holding
    /\ key' = w
    /\ ttl' = LockTtl
    /\ holding' = holding \cup {w}
    /\ attempt' = [attempt EXCEPT ![w] = 0]
    /\ gap' = [gap EXCEPT ![w] = 0]

\* SET key token NX EX ttl succeeds: the run owns the event.
Acquire(w) ==
    /\ w \notin holding
    /\ ~KeyExists
    /\ key' = w
    /\ ttl' = LockTtl
    /\ holding' = holding \cup {w}
    /\ attempt' = [attempt EXCEPT ![w] = 0]
    /\ gap' = [gap EXCEPT ![w] = 0]

\* SET NX finds the key and attempts are left: sleep and try again.
Refused(w) ==
    /\ w \notin holding
    /\ KeyExists
    /\ attempt[w] + 1 < LockAttempts
    /\ attempt' = [attempt EXCEPT ![w] = @ + 1]
    /\ UNCHANGED <<key, ttl, holding, gap>>

\* The last attempt is refused too: ClusteringLockBusyError.
Busy(w) ==
    /\ w \notin holding
    /\ KeyExists
    /\ attempt[w] + 1 = LockAttempts
    /\ attempt' = [attempt EXCEPT ![w] = 0]
    /\ UNCHANGED <<key, ttl, holding, gap>>

\* The compare-and-expire script.  When the token differs it does nothing, and
\* neither caller looks at the False it returns: the run goes on.
Extend(w) ==
    /\ w \in holding
    /\ ttl' = IF key = w THEN LockTtl ELSE ttl
    /\ gap' = [gap EXCEPT ![w] = 0]
    /\ UNCHANGED <<key, holding, attempt>>

\* Mutant: DEL without comparing the token.
ReleaseAnyToken(w) ==
    /\ w \in holding
    /\ holding' = holding \ {w}
    /\ key' = NoWorker
    /\ ttl' = 0
    /\ gap' = [gap EXCEPT ![w] = 0]
    /\ UNCHANGED attempt

\* The compare-and-delete script, in the finally clause of the run.
Release(w) ==
    /\ w \in holding
    /\ holding' = holding \ {w}
    /\ key' = IF key = w THEN NoWorker ELSE key
    /\ ttl' = IF key = w THEN 0 ELSE ttl
    /\ gap' = [gap EXCEPT ![w] = 0]
    /\ UNCHANGED attempt

\* The worker process dies (or starts over while still waiting for the lock):
\* nobody tells Redis.
Die(w) ==
    /\ \/ w \in holding
       \/ attempt[w] > 0
    /\ holding' = holding \ {w}
    /\ attempt' = [attempt EXCEPT ![w] = 0]
    /\ gap' = [gap EXCEPT ![w] = 0]
    /\ UNCHANGED <<key, ttl>>

\* One tick passes.  It may not pass while a live holder's pulse is overdue:
\* PulseGap is the bound on how long the pulse of a running worker can be late.
LockTick ==
    /\ \A w \in holding : gap[w] < PulseGap
    /\ ttl' = IF ttl > 0 THEN ttl - 1 ELSE 0
    /\ key' = IF ttl > 1 THEN key ELSE NoWorker
    /\ gap' = [w \in Worker |-> IF w \in holding THEN gap[w] + 1 ELSE 0]
    /\ UNCHANGED <<holding, attempt>>

LockNext ==
    \/ \E w \in Worker :
          Acquire(w) \/ Refused(w) \/ Busy(w) \/ Extend(w) \/ Release(w) \/ Die(w)
    \/ LockTick

LockSpec == LockInit /\ [][LockNext]_lockVars

-----------------------------------------------------------------------------

\* The pulse is on time: it always comes before the key's life is over.
PulseOnTime == PulseGap < LockTtl

\* At most one worker is inside the pipeline of the event, although the lock is
\* only a key that Redis may drop under its holder (locks.py:52).
Exclusive == \A v, w \in holding : v = w

\* Whoever is inside the pipeline still has its own token in Redis, with as
\* much life left as the time since its last extend leaves.
HolderOwnsKey == \A w \in holding : key = w /\ ttl + gap[w] = LockTtl

\* Only time or its owner ends a key, and only its owner prolongs it: a run that
\* has lost its key to another worker, and does not know it, neither deletes nor
\* extends the key of that worker (the two compare scripts of locks.py).
OthersKeyUntouched ==
    [][ /\ KeyExists /\ key' # key =>
              (ttl = 1 /\ UNCHANGED holding) \/ key \notin holding'
        /\ ttl' > ttl => key' \in holding' /\ gap'[key'] = 0 ]_lockVars

\* The lock implements mutual exclusion among the workers that run the pipeline.
Pipeline == INSTANCE Exclusion WITH inside <- holding
PipelineExclusion == Pipeline!Spec
==============================================================================
