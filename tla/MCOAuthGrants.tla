---------------------------- MODULE MCOAuthGrants ----------------------------
(* Instances of OAuthGrants for TLC.                                        *)
EXTENDS OAuthGrants, TLC

Symmetry == Permutations(Sessions) \cup Permutations(Codes) \cup Permutations(Requests)
=============================================================================
