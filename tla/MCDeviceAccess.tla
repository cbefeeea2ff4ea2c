----------------------------- MODULE MCDeviceAccess -----------------------------
(* DeviceAccess for TLC: requests and keys are interchangeable. *)
EXTENDS DeviceAccess, TLC

Symmetry == Permutations(Requests) \cup Permutations(Keys)

=============================================================================
