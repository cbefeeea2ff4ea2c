----------------------------- MODULE DesktopData -----------------------------
(* The desktop process around its data root (desktop/src/main.ts): the maintenance
   operations and a repair take consistency leases, which stop and restart the managed
   gateway; the mutations of the workspace and a cleanup are tracked writes; OpenClaw
   writes the data root while its gateway is up; the process may stop at any step. *)
EXTENDS WorkspaceData, Sequences

CONSTANT MaxCrashes   \* bound: restarts of the process

VARIABLES
  child, killer, stops, starts,
  write, lease, turns, activeWrites, pendingLeases, writesBlocked, terminalFailure,
  recovering,
  app,      \* "starting", "open", "quitting", "gone"
  crashes

Repair == "repair"   \* doctorRepairActions["gateway-restart"]
Main == "main"       \* startGatewayAndCreateWindow
Quit == "quit"       \* stopGateway of before-quit
Leases == Ops \cup {Repair}
Writers == Ops \cup Mutators

ASSUME DesktopAssumption ==
  Ops \cap Mutators = {} /\ {Repair, Main, Quit} \cap Writers = {}

G == INSTANCE GatewayProcess WITH Callers <- Leases \cup {Main, Quit}
C == INSTANCE ConsistencyCoordinator

gateway == <<child, killer, stops, starts>>
coordinator == <<write, lease, turns, activeWrites, pendingLeases, writesBlocked,
                 terminalFailure, recovering>>
data == <<maintenanceVars, workspaceVars>>
vars == <<gateway, coordinator, data, app, crashes>>

TypeOK ==
  /\ G!GatewayTypeOK /\ C!CoordinatorTypeOK /\ MaintenanceTypeOK /\ WorkspaceTypeOK
  /\ app \in {"starting", "open", "quitting", "gone"}

Init ==
  /\ G!GatewayInit /\ C!CoordinatorInit /\ MaintenanceInit /\ WorkspaceInit
  /\ app = "starting" /\ crashes = 0

(* The wait for the readiness of the gateway. *)
Proceeds(c) ==
  \/ G!Ready(c)
  \/ (Trouble("start") \/ ~starts[c].mine \/ child = "exited") /\ G!NotReady(c)
  \/ G!RolledBack(c)

Running == app \in {"open", "quitting"}
Same(v) == UNCHANGED v

-----------------------------------------------------------------------------
(* startGatewayAndCreateWindow, and before-quit. *)
AppStarts ==
  /\ app = "starting"
  /\ \/ G!Spawn(Main) /\ UNCHANGED app
     \/ Proceeds(Main) /\ UNCHANGED app
     \/ starts[Main].at = "done" /\ G!StartTaken(Main) /\ app' = "open"
     \/ /\ starts[Main].at = "failed" /\ app' = "gone"
        /\ UNCHANGED gateway
  /\ UNCHANGED <<coordinator, data, crashes>>

AppQuits ==
  /\ \/ /\ app = "open" /\ Trouble("quit") /\ app' = "quitting"
        /\ G!StopCall(Quit) /\ UNCHANGED starts
     \/ /\ app = "quitting" /\ stops[Quit] \in {"done", "failed"} /\ app' = "gone"
        /\ UNCHANGED gateway
  /\ UNCHANGED <<coordinator, data, crashes>>

(* The machine stops or the drive is pulled: only the disk is left. *)
Crash ==
  /\ Trouble("crash") /\ crashes < MaxCrashes /\ app # "gone"
  /\ crashes' = crashes + 1
  /\ app' = "starting"
  /\ child' = "none" /\ killer' = "idle"
  /\ stops' = [c \in DOMAIN stops |-> "idle"] /\ starts' = [c \in DOMAIN starts |-> G!NoStart]
  /\ write' = [w \in Writers |-> "idle"] /\ lease' = [l \in Leases |-> "idle"] /\ turns' = <<>>
  /\ activeWrites' = 0 /\ pendingLeases' = 0 /\ writesBlocked' = FALSE
  /\ terminalFailure' = FALSE /\ UNCHANGED recovering
  /\ op' = [o \in Ops |-> Idle]
  /\ mutation' = [w \in Mutators |-> NoMutation]
  /\ UNCHANGED <<live, newest, clock, diskVars, staged>>

ProcessEvent ==
  /\ \/ Trouble("stop") /\ G!KillTimesOut
     \/ G!TermTimesOut
     \/ (killer # "idle" \/ Trouble("exit")) /\ G!ChildExits
     \/ G!ChildCloses
  /\ UNCHANGED <<coordinator, data, app, crashes>>

-----------------------------------------------------------------------------
(* What the lease of an operation is waiting for decides the operation. *)
OpOf(l, next) == IF l = Repair THEN UNCHANGED op ELSE Becomes(l, next)
Rejected(l) == OpOf(l, Idle)
DataButOp == UNCHANGED <<live, newest, clock, diskVars, workspaceVars, app, crashes>>

(* An operation asks for its lease after its precheck; a repair asks right away. *)
OpAsks(o) ==
  /\ Running /\ op[o].at = "precheck" /\ op[o].kind # "cleanup"
  /\ IF Refused(op[o].kind) THEN Over(o) /\ UNCHANGED coordinator
     ELSE \/ /\ C!Acquire(o, FALSE)
             /\ Becomes(o, [op[o] EXCEPT !.state = "running", !.at = "waiting"])
          \/ Trouble("early") /\ Cancelled(o) /\ C!Acquire(o, TRUE) /\ Over(o)
  /\ DataButOp /\ UNCHANGED gateway

RepairAsks ==
  /\ Running /\ Trouble("repair")
  /\ C!Acquire(Repair, FALSE)
  /\ UNCHANGED <<gateway, data, app, crashes>>

LeaseWaits(l) ==
  /\ Running
  /\ \/ l \in Ops /\ (C!AbortQueued(l) \/ C!AbortDraining(l)) /\ Rejected(l) /\ UNCHANGED gateway
     \/ C!TurnRefused(l) /\ Rejected(l) /\ UNCHANGED gateway
     \/ C!TurnDrains(l) /\ UNCHANGED <<op, gateway>>
     \/ C!LeaseStops(l) /\ G!StopCall(l) /\ UNCHANGED <<op, starts>>
  /\ DataButOp

LeaseStopped(l) ==
  /\ Running
  /\ \/ stops[l] = "done" /\ C!Stopped(l) /\ OpOf(l, [op[l] EXCEPT !.at = "begin"])
     \/ stops[l] = "failed" /\ C!StopFailed(l) /\ Rejected(l)
  /\ G!StopTaken(l) /\ DataButOp

(* release() in the finally; lifecycle.start spawns before its first await. *)
LeaseReleases(l) ==
  /\ Running
  /\ l \in Ops => op[l].at = "done"
  /\ C!Release(l)
  /\ G!Spawn(l) \/ ((Trouble("start") \/ child # "none") /\ G!SpawnFails(l))
  /\ OpOf(l, [Idle EXCEPT !.kind = op[l].kind, !.state = op[l].state, !.at = "restart",
                       !.result = op[l].result])
  /\ DataButOp

(* The gateway is back: a reset goes on to its journal.  It is not: whatever the operation
   came to, it is reported as failed, and a reset as one to be recovered. *)
LeaseReleased(l) ==
  /\ Running
  /\ \/ /\ starts[l].at = "done" /\ C!Started(l)
        /\ OpOf(l, IF op[l].kind = "reset" /\ op[l].result = "completed"
                   THEN [op[l] EXCEPT !.at = "clear"] ELSE Idle)
     \/ starts[l].at = "failed" /\ C!StartFailed(l) /\ Rejected(l)
  /\ G!StartTaken(l) /\ DataButOp

Starting(l) ==
  /\ Running /\ Proceeds(l)
  /\ UNCHANGED <<coordinator, data, app, crashes>>

-----------------------------------------------------------------------------
(* Tracked writes: a mutation, and a cleanup. *)
MutationWrites(w) ==
  /\ Running
  /\ \/ /\ In(w, "idle") /\ (app = "open" \/ write[w] # "idle")
        /\ \/ /\ C!WriteEnters(w)
              /\ \E f \in Files : Begins(w, f)
           \/ (C!WriteSleeps(w) \/ C!WriteRefused(w)) /\ UNCHANGED mutation
     \/ In(w, "leave") /\ C!WriteLeaves(w) /\ MutationOver(w)
  /\ NoFile /\ UNCHANGED <<staged, gateway, app, crashes>>

CleanupWrites(o) ==
  /\ Running /\ op[o].kind = "cleanup"
  /\ \/ /\ op[o].at = "precheck"
        /\ \/ C!WriteEnters(o) /\ Go(o, "begin")
           \/ C!WriteSleeps(o) /\ UNCHANGED op
           \/ C!WriteRefused(o) /\ Over(o)
     \/ op[o].at = "done" /\ C!WriteLeaves(o) /\ Over(o)
  /\ DataButOp /\ UNCHANGED gateway

(* What the renderer asks for, and the work it started.  A read while an operation is
   under way is a case of its own: it may put a staged file back under a restore. *)
UserAsks ==
  /\ app = "open"
  /\ \/ \E o \in Ops : Starts(o) /\ UNCHANGED workspaceVars
     \/ (Trouble("read") \/ \A o \in Ops : op[o].at = "idle") /\ ReadOpensRoot
  /\ UNCHANGED <<gateway, coordinator, app, crashes>>

OpWorks(o) ==
  /\ Running
  /\ Work(o) \/ ResetClears(o)
  /\ UNCHANGED <<workspaceVars, gateway, coordinator, app, crashes>>

MutationWorks(w) ==
  /\ Running /\ MutationStep(w)
  /\ UNCHANGED <<gateway, coordinator, app, crashes>>

OpenClawWrites ==
  /\ child = "up"
  /\ \E f \in Files : GatewayWrites(f)
  /\ UNCHANGED <<gateway, coordinator, app, crashes>>

Next ==
  \/ AppStarts \/ AppQuits \/ Crash \/ ProcessEvent \/ OpenClawWrites \/ UserAsks
  \/ RepairAsks
  \/ \E o \in Ops : OpAsks(o) \/ CleanupWrites(o) \/ OpWorks(o)
  \/ \E l \in Leases : LeaseWaits(l) \/ LeaseStopped(l) \/ LeaseReleases(l)
                         \/ LeaseReleased(l) \/ Starting(l)
  \/ \E w \in Mutators : MutationWrites(w) \/ MutationWorks(w)

Spec == Init /\ [][Next]_vars

(* What is under way goes on: the event loop runs every continuation, the system delivers
   the events of a process that was signalled, timers fire.  Nobody has to ask for
   anything, and nothing has to go wrong.  A writer that was woken runs before anything
   a later request starts. *)
Fairness ==
  /\ WF_vars(AppStarts) /\ WF_vars(app = "quitting" /\ AppQuits)
  /\ WF_vars((killer # "idle" \/ child = "exited") /\ ProcessEvent)
  /\ \A o \in Ops : /\ WF_vars(OpAsks(o)) /\ WF_vars(OpWorks(o))
                    /\ WF_vars(CleanupWrites(o)) /\ SF_vars(~writesBlocked /\ CleanupWrites(o))
  /\ \A l \in Leases : /\ WF_vars(LeaseWaits(l)) /\ WF_vars(LeaseStopped(l))
                       /\ WF_vars(LeaseReleases(l)) /\ WF_vars(LeaseReleased(l))
                       /\ WF_vars(Starting(l))
  /\ \A w \in Mutators : WF_vars(write[w] # "idle" /\ MutationWrites(w)) /\ WF_vars(MutationWorks(w))

FairSpec == Spec /\ Fairness

-----------------------------------------------------------------------------
(* From the moment a lease is held until its gateway is started again no gateway is there
   to write the data root and no tracked write is in its operation, whatever the stops
   that time out, the starts that fail and roll back, the repairs and the quitting do. *)
GatewayQuiet ==
  \A l \in Leases : lease[l] = "held" =>
    child = "none" /\ \A w \in Writers : write[w] # "in"

(* An operation that was started ends, whatever fails on its way; and a write that sleeps
   behind a lease is woken, unless the application ends or leases are asked for again
   and again, each before the one before it is given back. *)
LeaseAsked == \E l \in Leases : lease[l] = "idle" /\ lease'[l] = "queued"
NobodyWaitsForever ==
  /\ \A o \in Ops : op[o].at # "idle" ~> (op[o].at = "idle" \/ app = "gone")
  /\ \/ []<><<LeaseAsked>>_vars
     \/ \A w \in Writers : write[w] = "asleep" ~> (write[w] # "asleep" \/ app = "gone")

=============================================================================
