------------------------------- MODULE Capability -------------------------------
(* What plugin-service.ts and skill-service.ts have in common: the record that U-Claw keeps
   of a capability, and effects that may fail. *)
EXTENDS Naturals

CONSTANTS
  MaxVersion,   \* bound: versions of a plugin or a skill
  MaxFaults,    \* bound: commands, writes and renames that fail
  Troubles,     \* what is let go wrong although the code does not withstand it: "again" (an
                \* operation on plugins begins while the journal of another is left),
                \* "undone" (the journal of one that was undone stays and says it was done),
                \* "recovery" (the recovery of a skill stops before its last step),
                \* "sync" (a directory is changed and its sync fails)
  None

ASSUME CapabilityAssumption ==
  /\ MaxVersion \in Nat \ {0} /\ MaxFaults \in Nat
  /\ Troubles \subseteq {"again", "undone", "recovery", "sync"}

VARIABLE faults

Records == [version : 0 .. MaxVersion, enabled : BOOLEAN]
NoRecord == [version |-> 0, enabled |-> FALSE]

ASSUME NoneIsNoRecord == None \notin Records

Fails == faults < MaxFaults /\ faults' = faults + 1

(* An effect takes place, or it is reported as failed and has taken place or not. *)
Attempt(effect, nothing, onward, error) ==
  \/ effect /\ onward /\ UNCHANGED faults
  \/ (effect \/ nothing) /\ Fails /\ error
=============================================================================
