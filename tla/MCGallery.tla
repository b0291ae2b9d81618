------------------------------ MODULE MCGallery ------------------------------
(* Gallery with interchangeable photos, clusters and requests. *)
EXTENDS Gallery, TLC

Symmetry == Permutations(Photo) \cup Permutations(Cluster) \cup Permutations(Request)
=============================================================================
