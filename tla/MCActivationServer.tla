-------------------------- MODULE MCActivationServer --------------------------
(***************************************************************************)
(* Instances of ActivationServer for TLC.  Codes, drives, keys and requests *)
(* are interchangeable.                                                    *)
(***************************************************************************)
EXTENDS ActivationServer, TLC

Symmetry == Permutations(Codes) \cup Permutations(Drives)
              \cup Permutations(Keys) \cup Permutations(Calls)
=============================================================================
