------------------------------ MODULE GatewayLink ------------------------------
(* The desktop's one connection to the gateway: OpenClawClient's negotiation, reconnects
   and status (adapter/src/openclaw-client.ts) over PortAwareGatewayTransport
   (desktop/src/wiring/create-desktop-main-options.ts), GatewayWebSocket and RpcRouter
   (adapter/src/transport/).  The gateway's processes are numbered in the order they are
   started; a handler runs to its end, and so do the promises it settles.  The texts of
   errors, delays and the count of attempts behind them are left out. *)
EXTENDS Naturals

CONSTANTS
  Users,        \* who asks for a reconnect: the renderer, a channel's runtime
  Slots,        \* RPCs under way, one slot each
  MaxGateways,  \* bound: gateway processes started
  MaxLinkFaults,  \* bound: what goes wrong on the connection while a gateway is up, and the
                \* reconnects asked for when no connection is lost
  MaxRetries    \* maxStartupRetries

Gap == "gap"    \* handleSequenceGap's own reconnect
Callers == Users \cup {Gap}

ASSUME LinkAssumption ==
  /\ MaxGateways \in Nat /\ MaxLinkFaults \in Nat /\ MaxRetries \in Nat
  /\ Gap \notin Users

VARIABLES
  gateway,       \* the process that is up, 0 when there is none
  started,       \* processes started
  probe,         \* waitForGatewayReadiness: "off", "loop" between checks, "asked"
  announced,     \* the process whose capabilities the readiness check has reported, or 0
  ws,            \* the active GatewayWebSocket: its state; the process it reached; whether
                 \* its router is open; whether the sequence of its events is broken
  negotiation,   \* the promise negotiate() shares: what it waits for
  retries,       \* attempt of connectWithStartupRetry
  capabilities,  \* the process they were negotiated with, or 0
  status,
  calls,         \* reconnect(): "idle", "delay" in its policy's wait, "joined" to negotiate()
  request,       \* pending in the router or not
  linkFaults

wsVars == <<gateway, started, probe, announced, ws, negotiation, retries, capabilities,
            status, calls, request, linkFaults>>

NoSocket == [state |-> "none", peer |-> 0, open |-> FALSE, desynced |-> FALSE]
Handshaking == {"connecting", "authenticating"}

LinkTypeOK ==
  /\ gateway \in 0 .. MaxGateways /\ started \in 0 .. MaxGateways
  /\ announced \in 0 .. MaxGateways /\ capabilities \in 0 .. MaxGateways
  /\ probe \in {"off", "loop", "asked"}
  /\ ws \in [state : {"none", "ready", "failed", "closed"} \cup Handshaking,
             peer : 0 .. MaxGateways, open : BOOLEAN, desynced : BOOLEAN]
  /\ negotiation \in {"none", "socket", "orphan", "delay"}
  /\ retries \in 0 .. MaxRetries
  /\ status \in {"idle", "connecting", "ready", "reconnecting", "failed", "closed"}
  /\ calls \in [Callers -> {"idle", "delay", "joined"}]
  /\ request \in [Slots -> {"idle", "pending"}]
  /\ linkFaults \in 0 .. MaxLinkFaults

LinkInit ==
  /\ gateway = 0 /\ started = 0 /\ probe = "off" /\ announced = 0
  /\ ws = NoSocket /\ negotiation = "none" /\ retries = 0 /\ capabilities = 0
  /\ status = "idle" /\ calls = [c \in Callers |-> "idle"]
  /\ request = [r \in Slots |-> "idle"] /\ linkFaults = 0

-----------------------------------------------------------------------------
(* RpcRouter.handleClose and close: every pending request is rejected, then the close
   listeners run.  The client's own is on the router its capabilities came from, unless a
   reconnect has just taken it off. *)
RequestsRejected == request' = [r \in Slots |-> "idle"]

\* Mistake: a closed transport is told to nobody.
Told_Never == status

Told == IF ws.state = "ready" /\ status # "reconnecting" THEN "closed" ELSE status
LinkFault == linkFaults < MaxLinkFaults /\ linkFaults' = linkFaults + 1
NoFault == UNCHANGED linkFaults

(* PortAwareGatewayTransport.close, which every request and a handshake under way feel: the
   negotiation goes on waiting for a socket that nobody will make ready any more. *)
TransportCloses ==
  /\ ws' = NoSocket
  /\ negotiation' = IF negotiation = "socket" THEN "orphan" ELSE negotiation
  /\ RequestsRejected

(* negotiate() where nothing is cached: join the negotiation under way or begin one, with
   a socket and a router of its own, to the process that listens then. *)
Connecting == [state |-> "connecting", peer |-> gateway, open |-> TRUE, desynced |-> FALSE]

-----------------------------------------------------------------------------
(* The supervisor.  The first start sets the port of a transport that has nothing yet
   (buildGatewayLaunchOptions); a managed restart sets the supervisor's only.  The socket,
   its handshake, the requests and the capabilities of the process before it stay, until
   the end of that process is noticed. *)
GatewayStarts ==
  /\ gateway = 0 /\ probe = "off" /\ started < MaxGateways
  /\ started' = started + 1 /\ gateway' = started'
  /\ probe' = "loop"
  /\ UNCHANGED <<announced, ws, negotiation, retries, capabilities, status, calls, request,
                 linkFaults>>

GatewayStops ==
  /\ gateway # 0
  /\ gateway' = 0 /\ announced' = 0
  /\ UNCHANGED <<started, probe, ws, negotiation, retries, capabilities, status, calls,
                 request, linkFaults>>

(* checkGatewayHealth: the endpoint answers and the capabilities are asked for. *)
ProbeAsks ==
  /\ probe = "loop" /\ gateway # 0
  /\ \/ /\ capabilities # 0
        /\ probe' = "off" /\ announced' = gateway
        /\ UNCHANGED <<ws, negotiation, retries, status>>
     \/ /\ capabilities = 0 /\ negotiation = "none"
        /\ probe' = "asked"
        /\ ws' = Connecting /\ negotiation' = "socket" /\ retries' = 0
        /\ status' = "connecting"
        /\ UNCHANGED announced
     \/ /\ capabilities = 0 /\ negotiation # "none"
        /\ probe' = "asked"
        /\ UNCHANGED <<announced, ws, negotiation, retries, status>>
  /\ UNCHANGED <<gateway, started, capabilities, calls, request, linkFaults>>

(* The child has exited, or the deadline passes: an answer still out is given up, which
   closes the transport. *)
ProbeEnds ==
  /\ probe # "off"
  /\ IF gateway = 0 THEN NoFault ELSE LinkFault
  /\ probe' = "off"
  /\ IF probe = "asked" THEN TransportCloses /\ status' = Told
     ELSE UNCHANGED <<ws, negotiation, request, status>>
  /\ UNCHANGED <<gateway, started, announced, retries, capabilities, calls>>

-----------------------------------------------------------------------------
(* GatewayWebSocket.connect: the challenge, then hello-ok.  What a process has sent may be
   read after its end. *)
Challenged ==
  /\ ws.state = "connecting"
  /\ LET peer == IF ws.peer = 0 THEN gateway ELSE ws.peer
     IN peer # 0 /\ ws' = [ws EXCEPT !.state = "authenticating", !.peer = peer]
  /\ UNCHANGED <<gateway, started, probe, announced, negotiation, retries, capabilities,
                   status, calls, request, linkFaults>>

\* Mistake: a failed negotiation is kept as the answer.
Settled_FailureKept(outcome) ==
  /\ negotiation' = IF outcome = "ready" THEN "none" ELSE negotiation
  /\ calls' = [c \in Callers |-> IF calls[c] = "joined" THEN "idle" ELSE calls[c]]
  /\ probe' = (IF probe = "asked" THEN "loop" ELSE probe) /\ UNCHANGED announced
  /\ status' = outcome

(* Everybody who waits for the negotiation gets its outcome. *)
Settled(outcome) ==
  /\ negotiation' = "none"
  /\ calls' = [c \in Callers |-> IF calls[c] = "joined" THEN "idle" ELSE calls[c]]
  /\ IF outcome = "ready" /\ probe = "asked"
     THEN probe' = "off" /\ announced' = gateway
     ELSE probe' = (IF probe = "asked" THEN "loop" ELSE probe) /\ UNCHANGED announced
  /\ status' = outcome

HelloOk ==
  /\ ws.state = "authenticating"
  /\ ws' = [ws EXCEPT !.state = "ready"]
  /\ capabilities' = ws.peer
  /\ Settled("ready")
  /\ UNCHANGED <<gateway, started, retries, request, linkFaults>>

(* The process that the socket was made for, or has reached, is there no more. *)
PeerIsGone == gateway = 0 \/ ws.peer # gateway

(* fail(): the socket errs or closes, a frame is malformed, the 750 ms pass. *)
HandshakeFails ==
  /\ ws.state \in Handshaking
  /\ IF PeerIsGone THEN NoFault ELSE LinkFault
  /\ ws' = [ws EXCEPT !.state = "failed", !.open = FALSE]
  /\ RequestsRejected
  /\ Settled("failed")
  /\ UNCHANGED <<gateway, started, retries, capabilities>>

(* UNAVAILABLE with a retryAfterMs, while the gateway still starts: the transport is closed,
   and connected again after the wait. *)
StartupRefuses ==
  /\ ws.state = "authenticating" /\ retries < MaxRetries
  /\ LinkFault
  /\ ws' = NoSocket /\ RequestsRejected
  /\ negotiation' = "delay"
  /\ UNCHANGED <<gateway, started, probe, announced, retries, capabilities, status, calls>>

StartupRetries ==
  /\ negotiation = "delay"
  /\ negotiation' = "socket" /\ ws' = Connecting /\ retries' = retries + 1
  /\ UNCHANGED <<gateway, started, probe, announced, capabilities, status, calls, request,
                 linkFaults>>

(* The socket of the negotiation was closed under it: its "connect" is rejected at once,
   the challenge when its time is over. *)
OrphanRejected ==
  /\ negotiation = "orphan"
  /\ Settled("failed")
  /\ UNCHANGED <<gateway, started, ws, retries, capabilities, request, linkFaults>>

-----------------------------------------------------------------------------
(* gateway.reconnect(), and the same called for a gap when no other gap is worked on. *)
ReconnectAsked(c) ==
  /\ calls' = [calls EXCEPT ![c] = "delay"]
  /\ status' = "reconnecting"

Lost == status \in {"failed", "closed"} /\ probe = "off"

UserReconnects(c) ==
  /\ started > 0 /\ calls[c] = "idle"
  /\ IF Lost THEN NoFault ELSE LinkFault
  /\ ReconnectAsked(c)
  /\ UNCHANGED <<gateway, started, probe, announced, ws, negotiation, retries, capabilities,
                 request>>

ReconnectRuns(c) ==
  /\ calls[c] = "delay"
  /\ calls' = [calls EXCEPT ![c] = "joined"]
  /\ capabilities' = 0
  /\ RequestsRejected
  /\ IF negotiation = "none"
     THEN ws' = Connecting /\ negotiation' = "socket" /\ retries' = 0 /\ status' = "connecting"
     ELSE TransportCloses /\ UNCHANGED <<retries, status>>
  /\ UNCHANGED <<gateway, started, probe, announced, linkFaults>>

\* Mistake: a gap is not answered.
GapAnswered_Never == UNCHANGED <<calls, status>>

GapAnswered == IF calls[Gap] = "idle" THEN ReconnectAsked(Gap) ELSE UNCHANGED <<calls, status>>

(* An event whose sequence number leaves a gap: it is dropped, and every later one until
   the router is replaced; onResyncRequired is not given, so the answer is a reconnect. *)
EventLeavesGap ==
  /\ ws.state = "ready" /\ ~ws.desynced
  /\ LinkFault
  /\ ws' = [ws EXCEPT !.desynced = TRUE]
  /\ GapAnswered
  /\ UNCHANGED <<gateway, started, probe, announced, negotiation, retries, capabilities,
                 request>>

-----------------------------------------------------------------------------
(* The end of a connection that was ready: the socket closes, or a frame is malformed. *)
ConnectionCloses ==
  /\ ws.state = "ready"
  /\ IF PeerIsGone THEN NoFault ELSE LinkFault
  /\ \E state \in {"closed", "failed"} :
       ws' = [ws EXCEPT !.state = state, !.open = FALSE, !.desynced = FALSE]
  /\ RequestsRejected
  /\ status' = Told
  /\ UNCHANGED <<gateway, started, probe, announced, negotiation, retries, capabilities, calls>>

(* RpcRouter.request: sent; answered, timed out or cancelled. *)
RequestSent(r) ==
  /\ ws.open /\ request[r] = "idle"
  /\ request' = [request EXCEPT ![r] = "pending"]
  /\ UNCHANGED <<gateway, started, probe, announced, ws, negotiation, retries, capabilities,
                 status, calls, linkFaults>>

RequestSettles(r) ==
  /\ request[r] = "pending"
  /\ request' = [request EXCEPT ![r] = "idle"]
  /\ UNCHANGED <<gateway, started, probe, announced, ws, negotiation, retries, capabilities,
                 status, calls, linkFaults>>

LinkNext ==
  \/ GatewayStarts \/ GatewayStops \/ ProbeAsks \/ ProbeEnds
  \/ Challenged \/ HelloOk \/ HandshakeFails \/ StartupRefuses \/ StartupRetries
  \/ OrphanRejected \/ EventLeavesGap \/ ConnectionCloses
  \/ \E c \in Users : UserReconnects(c)
  \/ \E c \in Callers : ReconnectRuns(c)
  \/ \E r \in Slots : RequestSent(r) \/ RequestSettles(r)

LinkSpec == LinkInit /\ [][LinkNext]_wsVars

(* Timers fire, a peer that is there answers, one that is not is noticed.  And the user
   asks again: a lost connection is shown with a button, nothing else restores it. *)
RollBack == probe = "off" /\ announced = 0 /\ GatewayStops   \* a start that was given up
AsksAgain == Lost /\ \E c \in Users : UserReconnects(c)
LinkFairness ==
  /\ WF_wsVars(ProbeAsks) /\ WF_wsVars(gateway = 0 /\ ProbeEnds) /\ WF_wsVars(RollBack)
  /\ WF_wsVars(~PeerIsGone /\ (Challenged \/ HelloOk))
  /\ WF_wsVars(PeerIsGone /\ (HandshakeFails \/ ConnectionCloses))
  /\ WF_wsVars(StartupRetries) /\ WF_wsVars(OrphanRejected)
  /\ \A c \in Callers : WF_wsVars(ReconnectRuns(c))
  /\ SF_wsVars(AsksAgain)

LinkFairSpec == LinkSpec /\ LinkFairness

-----------------------------------------------------------------------------
(* What the window shows is so: "ready" stands for a connection that carries requests, a
   connection that is ready is not shown as lost, and no request waits in a router whose
   socket is gone, whichever reconnects, probes, retries and restarts of the gateway
   closed one another's sockets. *)
StatusIsTrue ==
  /\ status = "ready" => ws.state = "ready" /\ ws.open
  /\ ws.state = "ready" => status \in {"ready", "reconnecting"} /\ capabilities = ws.peer
  /\ \A r \in Slots : request[r] = "pending" => ws.open

(* A broken sequence, behind which every event of every conversation is dropped, does not
   last: the connection is replaced or given up for all to see. *)
GapHeals == ws.desynced ~> ~ws.desynced

(* A gateway that is up to stay is reached, and once nothing goes wrong any more it stays
   reached: although it is announced on what its predecessor had negotiated, although that
   one's socket or handshake may still be there, and although two reconnects and a probe can
   make one another fail, whoever fails leaves a state from which the next try succeeds. *)
GatewayIsReached ==
  <>[](gateway # 0) => <>[](status = "ready" /\ ws.state = "ready" /\ ws.peer = gateway)
=============================================================================
