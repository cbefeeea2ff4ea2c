---------------------------- MODULE MCLicenseGate ----------------------------
(* Instances of LicenseGate for TLC.  Hosts and launchers are interchangeable. *)
EXTENDS LicenseGate, TLC

Symmetry == Permutations(Hosts) \cup Permutations(Launchers)
=============================================================================
