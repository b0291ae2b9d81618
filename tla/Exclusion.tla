------------------------------ MODULE Exclusion ------------------------------
(***************************************************************************)
(* What a per-event lock promises: of all the Celery workers, at most one  *)
(* is between its acquire and its release (or its death) at any moment.    *)
(* This is the contract ml/clustering/locks.py states in one word, "the    *)
(* event must be exclusive"; FaceLock shows how a Redis key with a time to *)
(* live delivers it.                                                       *)
(***************************************************************************)
CONSTANT Worker

VARIABLE inside     \* the workers between acquire and release

TypeOK == inside \subseteq Worker

Init == inside = {}

Enter(w) == /\ inside = {}
            /\ inside' = {w}

Leave(w) == /\ w \in inside
            /\ inside' = inside \ {w}

Next == \E w \in Worker : Enter(w) \/ Leave(w)

Spec == Init /\ [][Next]_inside
==============================================================================
