------------------------------ MODULE MCStepUp ------------------------------
(* StepUp with interchangeable sessions, tickets and requests. *)
EXTENDS StepUp, TLC

Symmetry == Permutations(Sessions) \cup Permutations(Tickets) \cup Permutations(Requests) \cup Permutations(Devices)
=============================================================================
