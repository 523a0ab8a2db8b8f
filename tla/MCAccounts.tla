----------------------------- MODULE MCAccounts -----------------------------
(* Users, addresses and links are interchangeable. *)
EXTENDS Accounts, TLC

Interchangeable == Permutations(Users) \cup Permutations(Emails) \cup Permutations(Links)
=============================================================================
