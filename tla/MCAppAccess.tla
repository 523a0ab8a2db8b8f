----------------------------- MODULE MCAppAccess -----------------------------
(* Records and users are interchangeable. *)
EXTENDS AppAccess, TLC

Interchangeable == Permutations(Apps) \cup Permutations(Users)
=============================================================================
