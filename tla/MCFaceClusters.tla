---------------------------- MODULE MCFaceClusters ----------------------------
(* FaceClusters for TLC: neither the faces of a pass nor the runs are ordered. *)
EXTENDS FaceClusters, TLC

Symmetry == Permutations(Frontal) \cup Permutations(Profile) \cup Permutations(Sessions)
==============================================================================
