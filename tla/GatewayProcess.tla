--------------------------- MODULE GatewayProcess ---------------------------
(* The supervisor of the managed OpenClaw gateway (desktop/src/gateway/gateway-process.ts)
   and the wait for its readiness (gateway/startup.ts, gateway/health-check.ts): at most
   one child is owned, several callers share one stop, and a start that fails takes back
   what it spawned.  The handlers run between two awaits; what node resolves in microtasks
   of the same event is part of that event.  Diagnostics records and the published phase,
   which nothing reads back, are left out. *)
CONSTANT Callers   \* who starts or stops the gateway

VARIABLES
  child,    \* "none": nothing owned; "up"; "exited": its "close" is still to come
  killer,   \* stopOwned: "idle", waiting after SIGTERM, waiting after SIGKILL
  stops,    \* a caller's stop(): awaiting stopPromise, then diagnosticsComplete
  starts    \* a caller's start and wait for readiness: [at, mine]; mine: the identity it
            \* got from start() is still that of the owned child

gatewayVars == <<child, killer, stops, starts>>

StopStages == {"idle", "promise", "closing", "done", "failed"}
StartStages == {"idle", "readying", "rollback", "done", "failed"}

GatewayTypeOK ==
  /\ child \in {"none", "up", "exited"}
  /\ killer \in {"idle", "term", "kill"}
  /\ stops \in [Callers -> StopStages]
  /\ starts \in [Callers -> [at : StartStages, mine : BOOLEAN]]

NoStart == [at |-> "idle", mine |-> FALSE]

GatewayInit ==
  /\ child = "none"
  /\ killer = "idle"
  /\ stops = [c \in Callers |-> "idle"]
  /\ starts = [c \in Callers |-> NoStart]

-----------------------------------------------------------------------------

\* Mistake: stop resolves before the process has ended.
StopCall_AtExit(c) ==
  /\ stops[c] = "idle"
  /\ stops' = [stops EXCEPT ![c] = IF child = "up" THEN "promise" ELSE "done"]
  /\ killer' = IF child = "up" /\ killer = "idle" THEN "term" ELSE killer
  /\ UNCHANGED child

(* stop(): nothing owned returns at once; the first caller signals the child, and all
   callers share one stopOwned. *)
StopCall(c) ==
  /\ stops[c] = "idle"
  /\ stops' = [stops EXCEPT ![c] = CASE child = "none"   -> "done"
                                     [] child = "exited" -> "closing"
                                     [] OTHER            -> "promise"]
  /\ killer' = IF child = "up" /\ killer = "idle" THEN "term" ELSE killer
  /\ UNCHANGED child

(* stopTimeoutMs passes after SIGTERM: the child is still there, SIGKILL. *)
TermTimesOut ==
  /\ child = "up" /\ killer = "term"
  /\ killer' = "kill"
  /\ UNCHANGED <<child, stops, starts>>

(* killTimeoutMs passes after SIGKILL: everybody who waits for the stop is refused, the
   child stays owned. *)
KillTimesOut ==
  /\ child = "up" /\ killer = "kill"
  /\ killer' = "idle"
  /\ stops' = [c \in Callers |-> IF stops[c] = "promise" THEN "failed" ELSE stops[c]]
  /\ UNCHANGED <<child, starts>>

(* The child's "exit": stopOwned returns, its callers go on to wait for "close". *)
ChildExits ==
  /\ child = "up"
  /\ child' = "exited"
  /\ killer' = "idle"
  /\ stops' = [c \in Callers |-> IF stops[c] = "promise" THEN "closing" ELSE stops[c]]
  /\ UNCHANGED starts

(* "close", after the last holder of its stderr is gone: finalize gives the child up. *)
ChildCloses ==
  /\ child = "exited"
  /\ child' = "none"
  /\ stops' = [c \in Callers |-> IF stops[c] = "closing" THEN "done" ELSE stops[c]]
  /\ starts' = [c \in Callers |-> [starts[c] EXCEPT !.mine = FALSE]]
  /\ UNCHANGED killer

-----------------------------------------------------------------------------
(* start(): refused while a child is owned, else spawned. *)
Spawn(c) ==
  /\ starts[c].at = "idle" /\ child = "none"
  /\ child' = "up"
  /\ starts' = [starts EXCEPT ![c] = [at |-> "readying", mine |-> TRUE]]
  /\ UNCHANGED <<killer, stops>>

SpawnFails(c) ==
  /\ starts[c].at = "idle"
  /\ starts' = [starts EXCEPT ![c].at = "failed"]
  /\ UNCHANGED <<child, killer, stops>>

(* waitForGatewayReadiness: the child is the one this start spawned, its endpoint answers
   and the capabilities are there. *)
Ready(c) ==
  /\ starts[c] = [at |-> "readying", mine |-> TRUE] /\ child = "up"
  /\ starts' = [starts EXCEPT ![c].at = "done"]
  /\ UNCHANGED <<child, killer, stops>>

(* The child is gone, the deadline passes or the start is aborted: stop("startup-rollback"),
   which asks for no identity. *)
NotReady(c) ==
  /\ starts[c].at = "readying"
  /\ starts' = [starts EXCEPT ![c].at = "rollback"]
  /\ StopCall(c)

RolledBack(c) ==
  /\ starts[c].at = "rollback" /\ stops[c] \in {"done", "failed"}
  /\ starts' = [starts EXCEPT ![c].at = "failed"]
  /\ stops' = [stops EXCEPT ![c] = "idle"]
  /\ UNCHANGED <<child, killer>>

(* A caller takes the outcome of its stop() or of its start. *)
StopTaken(c) == stops' = [stops EXCEPT ![c] = "idle"] /\ UNCHANGED <<child, killer, starts>>
StartTaken(c) == starts' = [starts EXCEPT ![c] = NoStart] /\ UNCHANGED <<child, killer, stops>>
=============================================================================
