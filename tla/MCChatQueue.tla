------------------------------ MODULE MCChatQueue ------------------------------
(***************************************************************************)
(* Instances of ChatQueue for TLC.  Sessions, messages and direct sends are *)
(* each interchangeable.                                                   *)
(***************************************************************************)
EXTENDS ChatQueue, TLC

Symmetry == Permutations(Sessions) \cup Permutations(Items) \cup Permutations(Sends)
=============================================================================
