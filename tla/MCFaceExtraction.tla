--------------------------- MODULE MCFaceExtraction ---------------------------
(* FaceExtraction with interchangeable threads. *)
EXTENDS FaceExtraction, TLC

Symmetry == Permutations(Thread)
=============================================================================
