------------------------------ MODULE MCFaceJobs -----------------------------
(***************************************************************************)
(* FaceJobs for TLC.  Workers, reconcile runs and photos are interchangeable *)
(* in every guard and every step, so the safety runs take each such set up  *)
(* to a permutation.  The runs of temporal properties do not use Symmetry.  *)
(***************************************************************************)
EXTENDS FaceJobs, TLC

Symmetry == Permutations(Worker) \cup Permutations(Ticker) \cup Permutations(Photo)
==============================================================================
