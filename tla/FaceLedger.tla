------------------------------ MODULE FaceLedger -----------------------------
(***************************************************************************)
(* What bulk face processing promises of each photo, whatever batches,     *)
(* failures and restarts its crops go through: a photo is decided once, as *)
(* counted or as failed; embedding rows are only added before it is        *)
(* decided; and when it is counted, the run that decides it has stored     *)
(* exactly the crops it found, each of them once.                          *)
(***************************************************************************)
EXTENDS Naturals

CONSTANT Photo

VARIABLES
    outcome,    \* absent, pending, counted, failed or deleted
    crops,      \* the quality-passed crops the current run found
    rows,       \* embedding rows of the photo
    base        \* those of them that earlier, broken runs left behind

ledger == <<outcome, crops, rows, base>>

Init == /\ outcome = [p \in Photo |-> "absent"]
        /\ crops = [p \in Photo |-> 0]
        /\ rows = [p \in Photo |-> 0]
        /\ base = [p \in Photo |-> 0]

Arrive(p) == /\ outcome[p] = "absent"
             /\ outcome' = [outcome EXCEPT ![p] = "pending"]
             /\ UNCHANGED <<crops, rows, base>>

\* A run begins: what is stored of the pending photos stays, and is not its work.
Restart == LET loaded == {p \in Photo : outcome[p] = "pending"}
           IN  /\ base' = [p \in Photo |-> IF p \in loaded THEN rows[p] ELSE base[p]]
               /\ crops' = [p \in Photo |-> IF p \in loaded THEN 0 ELSE crops[p]]
               /\ UNCHANGED <<outcome, rows>>

\* The crops of a photo are found before the first of them is stored; a photo deleted
\* meanwhile is still looked at.
Detect(p) == /\ outcome[p] \in {"pending", "deleted"}
             /\ rows[p] = base[p]
             /\ crops' \in [Photo -> Nat]
             /\ \A q \in Photo \ {p} : crops'[q] = crops[q]
             /\ UNCHANGED <<outcome, rows, base>>

\* One commit may add rows to several pending photos, and to no other.
Store == /\ rows' \in [Photo -> Nat]
         /\ \A p \in Photo : /\ rows'[p] >= rows[p]
                             /\ rows'[p] # rows[p] => outcome[p] = "pending"
         /\ UNCHANGED <<outcome, crops, base>>

Count(p) == /\ outcome[p] = "pending"
            /\ rows[p] = base[p] + crops[p]
            /\ outcome' = [outcome EXCEPT ![p] = "counted"]
            /\ UNCHANGED <<crops, rows, base>>

Fail(S) == /\ \A p \in S : outcome[p] = "pending"
           /\ outcome' = [p \in Photo |-> IF p \in S THEN "failed" ELSE outcome[p]]
           /\ UNCHANGED <<crops, rows, base>>

Delete(p) == /\ outcome[p] \notin {"absent", "deleted"}
             /\ outcome' = [outcome EXCEPT ![p] = "deleted"]
             /\ rows' = [rows EXCEPT ![p] = 0]
             /\ base' = [base EXCEPT ![p] = 0]
             /\ UNCHANGED crops

Next == \/ \E p \in Photo : Arrive(p) \/ Detect(p) \/ Count(p) \/ Delete(p)
        \/ Restart
        \/ Store
        \/ \E S \in SUBSET Photo : Fail(S)

Spec == Init /\ [][Next]_ledger
==============================================================================
