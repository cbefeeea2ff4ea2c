--------------------------- MODULE MCActivationClient ---------------------------
(***************************************************************************)
(* Instances of ActivationClient for TLC.  Keys are interchangeable, and so *)
(* are the slots of the coroutines.                                        *)
(***************************************************************************)
EXTENDS ActivationClient, TLC

Symmetry == Permutations(Keys) \cup Permutations(Runs)
=============================================================================
