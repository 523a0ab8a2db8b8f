------------------------------ MODULE MCSignIn ------------------------------
(* Instances of SignIn for TLC: requests and addresses are interchangeable. *)
EXTENDS SignIn, TLC

AtMostOneFactor == {{}, {"totp"}, {"push"}}

Symmetry == Permutations(Calls) \cup Permutations(Sources)
=============================================================================
