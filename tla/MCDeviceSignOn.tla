--------------------------- MODULE MCDeviceSignOn ---------------------------
(* DeviceSignOn with interchangeable exchanges. *)
EXTENDS DeviceSignOn, TLC

Symmetry == Permutations(Exchanges)
=============================================================================
