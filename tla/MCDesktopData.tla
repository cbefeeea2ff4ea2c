---------------------------- MODULE MCDesktopData ----------------------------
(* DesktopData on small sets of operations, mutations and files. *)
EXTENDS DesktopData, TLC

Symmetry == Permutations(Files) \cup Permutations(Mutators)
=============================================================================
