------------------------ MODULE ConsistencyCoordinator ------------------------
(* ProductionRuntimeConsistencyCoordinator (desktop/src/data/production-consistency-
   coordinator.ts): tracked writes of the desktop process run together, a consistency
   lease runs alone, with the writes drained and the gateway stopped.  The calls of the
   lifecycle end here in either way; DesktopData puts the gateway's supervisor there. *)
EXTENDS Naturals, Sequences

CONSTANTS
  Writers,   \* calls of runTrackedWrite
  Leases     \* calls of acquireConsistencyLease

VARIABLES
  write,            \* a write: "idle", "asleep" in writableWaiters, "awake", "in" its operation
  lease,            \* a lease's place in acquireConsistencyLease and release
  turns,            \* leaseTail: the turns not released yet
  activeWrites,
  pendingLeases,
  writesBlocked,
  terminalFailure,
  recovering        \* recover() awaits lifecycle.start

coordinatorVars == <<write, lease, turns, activeWrites, pendingLeases, writesBlocked,
                     terminalFailure, recovering>>

LeaseStages == {"idle", "queued", "draining", "drained", "stopping", "held", "starting", "lost"}

CoordinatorTypeOK ==
  /\ write \in [Writers -> {"idle", "asleep", "awake", "in"}]
  /\ lease \in [Leases -> LeaseStages]
  /\ turns \in Seq(Leases)
  /\ activeWrites \in Nat
  /\ pendingLeases \in Nat
  /\ writesBlocked \in BOOLEAN
  /\ terminalFailure \in BOOLEAN
  /\ recovering \in BOOLEAN

CoordinatorInit ==
  /\ write = [w \in Writers |-> "idle"]
  /\ lease = [l \in Leases |-> "idle"]
  /\ turns = <<>>
  /\ activeWrites = 0
  /\ pendingLeases = 0
  /\ writesBlocked = FALSE
  /\ terminalFailure = FALSE
  /\ recovering = FALSE

wakeWriters == [w \in Writers |-> IF write[w] = "asleep" THEN "awake" ELSE write[w]]
WakeIfOpen(blocked) == write' = IF blocked THEN write ELSE wakeWriters
Without(l) ==
  LET place == CHOOSE i \in DOMAIN turns : turns[i] = l
  IN [i \in 1 .. Len(turns) - 1 |-> IF i < place THEN turns[i] ELSE turns[i + 1]]

-----------------------------------------------------------------------------

\* Mistake: a write no longer waits for the lease.
WriteEnters_Blocked(w) ==
  /\ write[w] \in {"idle", "awake"}
  /\ write' = [write EXCEPT ![w] = "in"]
  /\ activeWrites' = activeWrites + 1
  /\ UNCHANGED <<lease, turns, pendingLeases, writesBlocked, terminalFailure, recovering>>

(* runTrackedWrite: the loop on writesBlocked, entered or woken in. *)
WriteEnters(w) ==
  /\ write[w] \in {"idle", "awake"}
  /\ ~writesBlocked
  /\ write' = [write EXCEPT ![w] = "in"]
  /\ activeWrites' = activeWrites + 1
  /\ UNCHANGED <<lease, turns, pendingLeases, writesBlocked, terminalFailure, recovering>>

WriteSleeps(w) ==
  /\ write[w] \in {"idle", "awake"}
  /\ writesBlocked /\ ~terminalFailure
  /\ write' = [write EXCEPT ![w] = "asleep"]
  /\ UNCHANGED <<lease, turns, activeWrites, pendingLeases, writesBlocked, terminalFailure,
                 recovering>>

WriteRefused(w) ==
  /\ write[w] \in {"idle", "awake"}
  /\ writesBlocked /\ terminalFailure
  /\ write' = [write EXCEPT ![w] = "idle"]
  /\ UNCHANGED <<lease, turns, activeWrites, pendingLeases, writesBlocked, terminalFailure,
                 recovering>>

\* Mistake: the last write does not wake the lease that drains.
WriteLeaves_Unnoticed(w) ==
  /\ write[w] = "in"
  /\ write' = [write EXCEPT ![w] = "idle"]
  /\ activeWrites' = activeWrites - 1
  /\ UNCHANGED <<lease, turns, pendingLeases, writesBlocked, terminalFailure, recovering>>

(* finally: the last write wakes the lease that drains. *)
WriteLeaves(w) ==
  /\ write[w] = "in"
  /\ write' = [write EXCEPT ![w] = "idle"]
  /\ activeWrites' = activeWrites - 1
  /\ lease' = IF activeWrites = 1
              THEN [l \in Leases |-> IF lease[l] = "draining" THEN "drained" ELSE lease[l]]
              ELSE lease
  /\ UNCHANGED <<turns, pendingLeases, writesBlocked, terminalFailure, recovering>>

-----------------------------------------------------------------------------
(* acquireConsistencyLease up to its first await.  A signal that is aborted already makes
   waitForAbort throw before the catch is attached: the lease stays counted and its turn
   is never given back. *)
Acquire(l, aborted) ==
  /\ lease[l] = "idle"
  /\ lease' = [lease EXCEPT ![l] = IF aborted THEN "lost" ELSE "queued"]
  /\ turns' = Append(turns, l)
  /\ pendingLeases' = pendingLeases + 1
  /\ writesBlocked' = TRUE
  /\ UNCHANGED <<write, activeWrites, terminalFailure, recovering>>

(* The wait for the previous turns is aborted. *)
AbortQueued(l) ==
  /\ lease[l] = "queued"
  /\ lease' = [lease EXCEPT ![l] = "idle"]
  /\ turns' = Without(l)
  /\ pendingLeases' = pendingLeases - 1
  /\ LET open == pendingLeases = 1 /\ ~terminalFailure
     IN writesBlocked' = (writesBlocked /\ ~open) /\ WakeIfOpen(~open)
  /\ UNCHANGED <<activeWrites, terminalFailure, recovering>>

HasTurn(l) == lease[l] = "queued" /\ Head(turns) = l

(* The turn comes after a restart that failed: refused, the writes stay blocked. *)
TurnRefused(l) ==
  /\ HasTurn(l) /\ terminalFailure
  /\ lease' = [lease EXCEPT ![l] = "idle"]
  /\ turns' = Without(l)
  /\ pendingLeases' = pendingLeases - 1
  /\ UNCHANGED <<write, activeWrites, writesBlocked, terminalFailure, recovering>>

TurnDrains(l) ==
  /\ HasTurn(l) /\ ~terminalFailure /\ activeWrites > 0
  /\ lease' = [lease EXCEPT ![l] = "draining"]
  /\ UNCHANGED <<write, turns, activeWrites, pendingLeases, writesBlocked, terminalFailure,
                 recovering>>

(* Nothing to drain, or drained: lifecycle.stop is called. *)
LeaseStops(l) ==
  /\ lease[l] = "drained" \/ (HasTurn(l) /\ ~terminalFailure /\ activeWrites = 0)
  /\ lease' = [lease EXCEPT ![l] = "stopping"]
  /\ UNCHANGED <<write, turns, activeWrites, pendingLeases, writesBlocked, terminalFailure,
                 recovering>>

\* Mistake: a lease that failed does not wake the writes.
GiveUp_Unwoken(l) ==
  /\ lease' = [lease EXCEPT ![l] = "idle"]
  /\ turns' = Without(l)
  /\ pendingLeases' = pendingLeases - 1
  /\ writesBlocked' = (pendingLeases > 1)
  /\ UNCHANGED <<write, activeWrites, terminalFailure, recovering>>

(* The catch of the drain and of the stop. *)
GiveUp(l) ==
  /\ lease' = [lease EXCEPT ![l] = "idle"]
  /\ turns' = Without(l)
  /\ pendingLeases' = pendingLeases - 1
  /\ writesBlocked' = (pendingLeases > 1)
  /\ WakeIfOpen(pendingLeases > 1)
  /\ UNCHANGED <<activeWrites, terminalFailure, recovering>>

AbortDraining(l) == lease[l] \in {"draining", "drained"} /\ GiveUp(l)
StopFailed(l) == lease[l] = "stopping" /\ GiveUp(l)

Stopped(l) ==
  /\ lease[l] = "stopping"
  /\ lease' = [lease EXCEPT ![l] = "held"]
  /\ UNCHANGED <<write, turns, activeWrites, pendingLeases, writesBlocked, terminalFailure,
                 recovering>>

(* release(): lifecycle.start is called; then its two outcomes. *)
Release(l) ==
  /\ lease[l] = "held"
  /\ lease' = [lease EXCEPT ![l] = "starting"]
  /\ UNCHANGED <<write, turns, activeWrites, pendingLeases, writesBlocked, terminalFailure,
                 recovering>>

Started(l) ==
  /\ lease[l] = "starting"
  /\ lease' = [lease EXCEPT ![l] = "idle"]
  /\ turns' = Without(l)
  /\ terminalFailure' = FALSE
  /\ pendingLeases' = pendingLeases - 1
  /\ writesBlocked' = (pendingLeases > 1)
  /\ WakeIfOpen(pendingLeases > 1)
  /\ UNCHANGED <<activeWrites, recovering>>

StartFailed(l) ==
  /\ lease[l] = "starting"
  /\ lease' = [lease EXCEPT ![l] = "idle"]
  /\ turns' = Without(l)
  /\ terminalFailure' = TRUE
  /\ pendingLeases' = pendingLeases - 1
  /\ write' = wakeWriters
  /\ UNCHANGED <<activeWrites, writesBlocked, recovering>>

-----------------------------------------------------------------------------
(* recover(): after a restart that failed; one call at a time here. *)
RecoverCall ==
  /\ terminalFailure /\ ~recovering
  /\ recovering' = TRUE
  /\ UNCHANGED <<write, lease, turns, activeWrites, pendingLeases, writesBlocked,
                 terminalFailure>>

RecoverDone ==
  /\ recovering
  /\ recovering' = FALSE
  /\ terminalFailure' = FALSE
  /\ writesBlocked' = (pendingLeases > 0)
  /\ WakeIfOpen(pendingLeases > 0)
  /\ UNCHANGED <<lease, turns, activeWrites, pendingLeases>>

RecoverFails ==
  /\ recovering
  /\ recovering' = FALSE
  /\ UNCHANGED <<write, lease, turns, activeWrites, pendingLeases, writesBlocked,
                 terminalFailure>>

-----------------------------------------------------------------------------
CoordinatorNext ==
  \/ \E w \in Writers : WriteEnters(w) \/ WriteSleeps(w) \/ WriteRefused(w) \/ WriteLeaves(w)
  \/ \E l \in Leases :
       \/ \E aborted \in BOOLEAN : Acquire(l, aborted)
       \/ AbortQueued(l) \/ TurnRefused(l) \/ TurnDrains(l) \/ LeaseStops(l)
       \/ AbortDraining(l) \/ StopFailed(l) \/ Stopped(l) \/ Release(l)
       \/ Started(l) \/ StartFailed(l)
  \/ RecoverCall \/ RecoverDone \/ RecoverFails

CoordinatorSpec == CoordinatorInit /\ [][CoordinatorNext]_coordinatorVars

-----------------------------------------------------------------------------
Quiet(l) == lease[l] \in {"drained", "stopping", "held", "starting"}

(* From the moment a lease has drained the writes until its gateway is back, no tracked
   write is in its operation, whatever other leases, aborts, failed restarts and
   recoveries do to the counters in between. *)
LeaseExcludesWrites ==
  \A l \in Leases : Quiet(l) => \A w \in Writers : write[w] # "in"

(* Two leases never drain, stop, hold or start the gateway at the same time. *)
OneLeaseAtATime ==
  \A k, l \in Leases :
    (lease[k] \notin {"idle", "queued", "lost"} /\ lease[l] \notin {"idle", "queued", "lost"})
      => k = l

(* Nobody sleeps behind a gate nobody will open: a write waits only for a lease that is
   counted and will end. *)
SleepersHaveALease ==
  (\E w \in Writers : write[w] = "asleep") => \E l \in Leases : lease[l] # "idle"
=============================================================================
