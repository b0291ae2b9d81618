------------------------------ MODULE MCLibrary ------------------------------
(* Library with interchangeable folders, photos and requests. *)
EXTENDS Library, TLC

(* The photos there are at the start have their renditions; a row without comes from an *)
(* upload, and one that has lost them from an archival.                                 *)
Start == Init /\ full = Rows

StartSpec == Start /\ [][Next]_vars

Symmetry == Permutations(Folder) \cup Permutations(Photo) \cup Permutations(Request)
=============================================================================
