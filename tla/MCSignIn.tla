------------------------------ MODULE MCSignIn ------------------------------
(* SignIn with interchangeable requests and tokens. *)
EXTENDS SignIn, TLC

Symmetry == Permutations(Request) \cup Permutations(Token)
=============================================================================
