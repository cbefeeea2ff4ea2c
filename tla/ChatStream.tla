------------------------------ MODULE ChatStream ------------------------------
(* One session's conversation between the gateway and the window: sendChat and watchChat of
   adapter/src/openclaw-client.ts with their AsyncEventQueue, the tracking of tools and
   approvals, the recovery of a final answer that was missed, and chat.send and
   chat.cancel-stream of desktop/src/ipc/client-dispatcher.ts.  The socket is one ordered
   sequence of frames, events and answers; the gateway is external.  A send has its run,
   and one tool call with one approval if it is in ToolRuns; a clientRequestId is used
   once.  What a handler settles in microtasks is part of its step, so what is pushed into
   a queue is shown at once.  Attachments, skills, the contents of text are left out. *)
EXTENDS Naturals, Sequences

CONSTANTS
  Sends,      \* chat.send calls, each with a clientRequestId and a run of its own
  TextRuns,   \* those whose run says something before its end
  ToolRuns,   \* those whose run calls a tool that asks for an approval
  Mixed,      \* bound: whether sends with tools and sends without are made in one behaviour
  Troubles,   \* "first": an event lost before the link has shown any; "long": a run that
              \* outlasts the 12 waits of its recovery; "bare": no agent.wait to recover with
  MaxDeltas,  \* bound: deltas of a run
  MaxFaults,  \* bound: events lost, sockets closed, calls timed out
  MaxWire,    \* bound: frames on their way
  MaxLinks    \* bound: connections

ASSUME StreamAssumption ==
  /\ TextRuns \subseteq Sends /\ ToolRuns \subseteq Sends
  /\ Mixed \in BOOLEAN /\ Troubles \subseteq {"first", "long", "bare"}
  /\ {MaxDeltas, MaxFaults, MaxWire} \subseteq Nat /\ MaxLinks \in Nat \ {0}

VARIABLES
  link,      \* "up"; "gap": desynced, a reconnect is on its way; "down"
  links,     \* connections made
  wire,      \* frames from the gateway, in order
  hole,      \* an event was lost after the last one on the wire
  observed,  \* the sequence detector has seen an event of this link
  inbox,     \* requests on their way to the gateway or worked on there
  run,       \* the gateway's: how the run of a send is
  emitted,   \* deltas it has emitted
  called,    \* its tool call: started, finished, how its approval is
  stream,    \* sendChat: its stage, the events buffered before the run is known, what was
             \* shown, the state shown of its tool, its recovery
  traced,    \* toolCallRuns, approvalRequests, approvalDecisions, approvalToolIndex and
             \* seenRealtimeApprovals, for the tool of each run
  watch,     \* watchChat: on or not; the state it shows of each run's tool
  denied,    \* ghost: the user was told, on this connection, that the tool is denied
  faults

linkVars == <<link, links, observed>>
gatewayVars == <<run, emitted, called>>
clientVars == <<stream, traced, watch, denied>>
vars == <<linkVars, wire, hole, inbox, gatewayVars, clientVars, faults>>

Ends == {"final", "aborted", "error"}
Over == {"done", "cancelled"}      \* of a tool: succeeded or failed; cancelled
ToolStates == {"none", "running", "waiting"} \cup Over
Live == {"sent", "open"}
Untraced == [tool |-> "none", request |-> FALSE, decision |-> "none", indexed |-> FALSE,
             seen |-> FALSE]
NoStream == [stage |-> "idle", buffer |-> <<>>, shown |-> <<>>, tool |-> "none",
             recovery |-> "off"]

(* What a stream takes: a delta or an end of a run, the state of its tool; [n]: which delta. *)
Happening(type, s, n) == [type |-> type, run |-> s, n |-> n]
Items == [type : Ends \cup {"delta"} \cup ToolStates, run : Sends, n : 0 .. MaxDeltas]
EventFrames == [kind : {"chat", "tool", "approval"}, item : Items, gap : BOOLEAN]
AnswerFrames == [kind : {"accepted", "wait over", "wait failed", "reply", "no reply", "pending",
                         "refused", "allow", "deny"}, run : Sends]
Requests == [op : {"send", "abort", "wait", "history", "list", "allow", "deny"}, run : Sends]

TypeOK ==
  /\ link \in {"up", "gap", "down"} /\ links \in 1 .. MaxLinks
  /\ wire \in Seq(EventFrames \cup AnswerFrames) /\ Len(wire) <= MaxWire
  /\ hole \in BOOLEAN /\ observed \in BOOLEAN
  /\ inbox \subseteq Requests
  /\ run \in [Sends -> {"none", "running"} \cup Ends]
  /\ emitted \in [Sends -> 0 .. MaxDeltas]
  /\ called \in [Sends -> [started : BOOLEAN, finished : BOOLEAN,
                           approval : {"none", "open", "allow", "deny"}]]
  /\ stream \in [Sends -> [stage : Live \cup {"idle", "ended", "failed", "cancelling", "cancelled"},
                           buffer : Seq(Items), shown : Seq(Items), tool : ToolStates,
                           recovery : {"off", "wait", "history", "failed"}]]
  /\ traced \in [Sends -> [tool : ToolStates, request : BOOLEAN, indexed : BOOLEAN,
                           decision : {"none", "allow", "deny"}, seen : BOOLEAN]]
  /\ watch \in [on : BOOLEAN, tool : [Sends -> ToolStates]]
  /\ denied \subseteq ToolRuns
  /\ faults \in 0 .. MaxFaults

Init ==
  /\ link = "up" /\ links = 1 /\ wire = <<>> /\ hole = FALSE /\ observed = FALSE
  /\ inbox = {}
  /\ run = [s \in Sends |-> "none"] /\ emitted = [s \in Sends |-> 0]
  /\ called = [s \in Sends |-> [started |-> FALSE, finished |-> FALSE, approval |-> "none"]]
  /\ stream = [s \in Sends |-> NoStream]
  /\ traced = [s \in Sends |-> Untraced]
  /\ watch = [on |-> FALSE, tool |-> [s \in Sends |-> "none"]]
  /\ denied = {} /\ faults = 0

Fault == faults < MaxFaults /\ faults' = faults + 1

-----------------------------------------------------------------------------
(* The gateway, external: it takes requests and emits the events of its runs in order.  An
   event may get lost on a link that is too slow; the number of the next one shows it. *)
IsEvent(frame) == frame.kind \in {"chat", "tool", "approval"}
Losable == "first" \in Troubles \/ observed \/ \E i \in DOMAIN wire : IsEvent(wire[i])

Emits(kind, item) ==
  /\ Len(wire) < MaxWire
  /\ \/ /\ link # "down"
        /\ wire' = Append(wire, [kind |-> kind, item |-> item, gap |-> hole])
        /\ hole' = FALSE /\ UNCHANGED faults
     \/ link # "down" /\ Losable /\ Fault /\ hole' = TRUE /\ UNCHANGED wire
     \/ link = "down" /\ UNCHANGED <<wire, hole, faults>>
  /\ UNCHANGED <<linkVars, clientVars>>

EmitDelta(s) ==
  /\ s \in TextRuns /\ run[s] = "running" /\ emitted[s] < MaxDeltas
  /\ emitted' = [emitted EXCEPT ![s] = @ + 1]
  /\ Emits("chat", Happening("delta", s, emitted'[s]))
  /\ UNCHANGED <<inbox, run, called>>

EmitEnd(s, end) ==
  /\ run[s] = "running"
  /\ end = "final" /\ s \in ToolRuns => called[s].finished
  /\ end = "aborted" => [op |-> "abort", run |-> s] \in inbox
  /\ run' = [run EXCEPT ![s] = end]
  /\ inbox' = inbox \ {[op |-> "abort", run |-> s]}
  /\ Emits("chat", Happening(end, s, 0))
  /\ UNCHANGED <<emitted, called>>

(* The approval may be asked for before or after the start of the tool is told. *)
ToolStarts(s) ==
  /\ s \in ToolRuns /\ run[s] = "running" /\ ~called[s].started
  /\ called' = [called EXCEPT ![s].started = TRUE]
  /\ Emits("tool", Happening("running", s, 0))
  /\ UNCHANGED <<inbox, run, emitted>>

ApprovalAsked(s) ==
  /\ s \in ToolRuns /\ run[s] = "running" /\ called[s].approval = "none"
  /\ called' = [called EXCEPT ![s].approval = "open"]
  /\ Emits("approval", Happening("waiting", s, 0))
  /\ UNCHANGED <<inbox, run, emitted>>

ToolFinishes(s) ==
  /\ run[s] = "running" /\ called[s].started /\ ~called[s].finished
  /\ called[s].approval \in {"allow", "deny"}
  /\ called' = [called EXCEPT ![s].finished = TRUE]
  /\ Emits("tool", Happening("done", s, 0))
  /\ UNCHANGED <<inbox, run, emitted>>

Answers(op, s, kind) ==
  /\ [op |-> op, run |-> s] \in inbox /\ link # "down" /\ Len(wire) < MaxWire
  /\ inbox' = inbox \ {[op |-> op, run |-> s]}
  /\ wire' = Append(wire, [kind |-> kind, run |-> s])
  /\ UNCHANGED <<linkVars, hole, run, emitted, clientVars, faults>>

RunStarts(s) ==
  /\ [op |-> "send", run |-> s] \in inbox /\ run[s] = "none"
  /\ run' = [run EXCEPT ![s] = "running"]
  /\ UNCHANGED <<linkVars, wire, hole, inbox, emitted, called, clientVars, faults>>

AnswerSend(s) == run[s] # "none" /\ Answers("send", s, "accepted") /\ UNCHANGED called

(* agent.wait is answered when the run is over; the answer that it still goes on is asked
   for again.  chat.history has the answer of the run; one that failed may have left some. *)
AnswerWait(s) ==
  /\ run[s] \in Ends
  /\ Answers("wait", s, IF run[s] = "final" THEN "wait over" ELSE "wait failed")
  /\ UNCHANGED called

AnswerHistory(s, kind) ==
  /\ kind = "no reply" => run[s] # "final"
  /\ Answers("history", s, kind) /\ UNCHANGED called

Asked(s) == called[s].approval = "open" /\ run[s] = "running"
AnswerList(s) ==
  /\ Answers("list", s, IF Asked(s) THEN "pending" ELSE "refused")
  /\ UNCHANGED called

(* The decision on an approval: a second one is refused, and one for a run that is over. *)
AnswerResolve(s, decision) ==
  /\ Answers(decision, s, IF Asked(s) THEN decision ELSE "refused")
  /\ called' = IF Asked(s) THEN [called EXCEPT ![s].approval = decision] ELSE called

-----------------------------------------------------------------------------

\* Mistake: an ended queue takes further events.
Pushed_PastEnd(st, e) ==
  IF e.type \in ToolStates THEN [st EXCEPT !.tool = e.type] ELSE [st EXCEPT !.shown = Append(@, e)]

(* AsyncEventQueue.push: nothing after the end.  enqueue of sendChat: what comes before the
   run is known waits, what belongs to another run is passed over. *)
Pushed(st, e) ==
  LET shown == IF e.type \in ToolStates THEN [st EXCEPT !.tool = e.type]
                                        ELSE [st EXCEPT !.shown = Append(@, e)]
  IN IF e.type \in Ends THEN [shown EXCEPT !.stage = "ended", !.recovery = "off"] ELSE shown

\* Mistake: frames of another run are taken for this one.
Enqueued_AnyRun(st, s, e) ==
  IF st.stage = "sent" THEN [st EXCEPT !.buffer = Append(@, e)]
  ELSE IF st.stage = "open" THEN Pushed(st, e) ELSE st

Enqueued(st, s, e) ==
  CASE st.stage = "sent" -> [st EXCEPT !.buffer = Append(@, e)]
    [] st.stage = "open" /\ e.run = s -> Pushed(st, e)
    [] OTHER -> st

(* The acceptance names the run: what was buffered is taken up in its order. *)
Replayed(st, s, recovery) ==
  LET replay[i \in 0 .. Len(st.buffer)] ==
        IF i = 0 THEN [st EXCEPT !.stage = "open", !.buffer = <<>>, !.recovery = recovery]
                 ELSE Enqueued(replay[i - 1], s, st.buffer[i])
  IN replay[Len(st.buffer)]

\* Mistake: a final answer that was missed is not asked for.
Opened_Unwatched(st, s) == Replayed(st, s, "off")

Opened(st, s) == Replayed(st, s, IF "bare" \in Troubles THEN "off" ELSE "wait")

(* Every consumer that listens gets an event. *)
Listening == watch.on \/ \E s \in Sends : stream[s].stage \in Live
ToStreams(e) == stream' = [s \in Sends |-> Enqueued(stream[s], s, e)]
ToWatch(e) == watch' = IF watch.on /\ e.type \in ToolStates
                       THEN [watch EXCEPT !.tool[e.run] = e.type] ELSE watch

(* clearToolRunsForRun: only a tool that is tracked is forgotten. *)
Cleared(tr) ==
  IF tr.tool = "none" THEN tr ELSE IF tr.indexed THEN Untraced ELSE [tr EXCEPT !.tool = "none"]

\* Mistake: a denial does not outlast the frames of the tool.
Recorded_Plain(tr, state) == state

(* recordToolRun: a start after a denial is a cancelled tool, an end is final. *)
Recorded(tr, state) ==
  IF state = "running" /\ tr.indexed /\ tr.decision = "deny" THEN "cancelled" ELSE state

-----------------------------------------------------------------------------
(* RpcRouter.handleMessage: an event that leaves a gap is dropped, and all the later ones;
   the reconnect it brings about forgets tools and approvals at once.  The first event of
   a link leaves no gap, whatever its number. *)
Arrives(kind) == wire # <<>> /\ Head(wire).kind = kind
GapSeen == Head(wire).gap /\ observed
Event(kind) == Arrives(kind) /\ link = "up" /\ ~GapSeen
Taken == wire' = Tail(wire) /\ UNCHANGED <<hole, gatewayVars, faults>>

EventDropped ==
  /\ wire # <<>> /\ IsEvent(Head(wire))
  /\ \/ link = "gap" /\ UNCHANGED <<link, traced, denied>>
     \/ /\ link = "up" /\ GapSeen
        /\ link' = "gap" /\ traced' = [s \in Sends |-> Untraced] /\ denied' = {}
  /\ Taken /\ UNCHANGED <<links, observed, inbox, stream, watch>>

ChatFrame ==
  /\ Event("chat")
  /\ LET e == Head(wire).item
     IN /\ ToStreams(e)
        /\ traced' = IF e.type \in Ends /\ Listening THEN [traced EXCEPT ![e.run] = Cleared(@)]
                     ELSE traced
  /\ observed' = TRUE
  /\ Taken /\ UNCHANGED <<link, links, inbox, watch, denied>>

ToolFrame ==
  /\ Event("tool")
  /\ LET s == Head(wire).item.run
         state == Recorded(traced[s], Head(wire).item.type)
     IN IF ~Listening \/ traced[s].tool \in Over \/ traced[s].tool = state
        THEN UNCHANGED <<stream, traced, watch>>
        ELSE /\ traced' = [traced EXCEPT ![s].tool = state]
             /\ ToStreams(Happening(state, s, 0)) /\ ToWatch(Happening(state, s, 0))
  /\ observed' = TRUE
  /\ Taken /\ UNCHANGED <<link, links, inbox, denied>>

(* processApprovalFrame, storeApproval, pauseToolForApproval. *)
ApprovalFrame ==
  /\ Event("approval")
  /\ LET s == Head(wire).item.run
         pauses == traced[s].tool \notin Over \cup {"none"}
     IN IF ~Listening \/ traced[s].seen
        THEN UNCHANGED <<stream, traced, watch>>
        ELSE /\ traced' = [traced EXCEPT ![s].seen = TRUE, ![s].request = TRUE,
                             ![s].indexed = TRUE, ![s].tool = IF pauses THEN "waiting" ELSE @]
             /\ IF pauses
                THEN ToStreams(Happening("waiting", s, 0)) /\ ToWatch(Happening("waiting", s, 0))
                ELSE UNCHANGED <<stream, watch>>
  /\ observed' = TRUE
  /\ Taken /\ UNCHANGED <<link, links, inbox, denied>>

-----------------------------------------------------------------------------
(* The answers.  [s] is the run they are about. *)
About == Head(wire).run
Asks(op, s) == inbox' = inbox \cup {[op |-> op, run |-> s]}

Accepted ==
  /\ Arrives("accepted")
  /\ LET s == About
         opened == Opened(stream[s], s)
     IN \/ /\ stream[s].stage = "sent"
           /\ stream' = [stream EXCEPT ![s] = opened]
           /\ IF opened.recovery = "wait" THEN Asks("wait", s) ELSE UNCHANGED inbox
           /\ traced' = IF opened.stage = "ended" THEN [traced EXCEPT ![s] = Cleared(@)]
                        ELSE traced
        \/ /\ stream[s].stage = "cancelling"
           /\ stream' = [stream EXCEPT ![s].stage = "cancelled"]
           /\ IF run[s] = "running" THEN Asks("abort", s) ELSE UNCHANGED inbox
           /\ UNCHANGED traced
        \/ stream[s].stage \notin {"sent", "cancelling"} /\ UNCHANGED <<stream, inbox, traced>>
  /\ Taken /\ UNCHANGED <<linkVars, watch, denied>>

(* The end that the recovery supplies, or gives up on. *)
Supplies(s, end) ==
  /\ stream' = [stream EXCEPT ![s] = Enqueued(@, s, Happening(end, s, 0))]
  /\ traced' = [traced EXCEPT ![s] = Cleared(@)]

WaitAnswered ==
  /\ Arrives("wait over") \/ Arrives("wait failed")
  /\ IF stream[About].recovery = "wait"
     THEN /\ stream' = [stream EXCEPT ![About].recovery =
                          IF Head(wire).kind = "wait over" THEN "history" ELSE "failed"]
          /\ Asks("history", About)
     ELSE UNCHANGED <<stream, inbox>>
  /\ Taken /\ UNCHANGED <<linkVars, traced, watch, denied>>

HistoryAnswered ==
  /\ Arrives("reply") \/ Arrives("no reply")
  /\ IF stream[About].recovery \in {"history", "failed"}
     THEN Supplies(About, IF Head(wire).kind = "reply" THEN "final" ELSE "error")
     ELSE UNCHANGED <<stream, traced>>
  /\ Taken /\ UNCHANGED <<linkVars, inbox, watch, denied>>

(* The call is refused or times out; or the run has outlasted its waits. *)
RecoveryFails(s) ==
  /\ stream[s].recovery # "off"
  /\ \/ Fault
     \/ /\ "long" \in Troubles /\ stream[s].recovery = "wait" /\ run[s] = "running"
        /\ UNCHANGED faults
  /\ Supplies(s, "error")
  /\ UNCHANGED <<linkVars, wire, hole, inbox, gatewayVars, watch, denied>>

(* approvals.listPending stores what it has got, whatever has been decided since. *)
Listed ==
  /\ Arrives("pending")
  /\ traced' = [traced EXCEPT ![About].request = TRUE, ![About].indexed = TRUE]
  /\ Taken /\ UNCHANGED <<linkVars, inbox, stream, watch, denied>>

Refused == Arrives("refused") /\ Taken /\ UNCHANGED <<linkVars, inbox, clientVars>>

(* resolveTrackedApproval. *)
Resolved ==
  /\ Arrives("allow") \/ Arrives("deny")
  /\ LET s == About
         decision == Head(wire).kind
         state == IF decision = "deny" THEN "cancelled" ELSE "running"
         tracked == traced[s].tool \notin Over \cup {"none"}
     IN /\ traced' = IF ~traced[s].request THEN traced
                     ELSE [traced EXCEPT ![s].request = FALSE, ![s].decision = decision,
                                         ![s].tool = IF tracked THEN state ELSE @]
        /\ IF traced[s].request /\ tracked
           THEN ToStreams(Happening(state, s, 0)) /\ ToWatch(Happening(state, s, 0))
           ELSE UNCHANGED <<stream, watch>>
        /\ denied' = IF decision = "deny" /\ link = "up" THEN denied \cup {s} ELSE denied
  /\ Taken /\ UNCHANGED <<linkVars, inbox>>

-----------------------------------------------------------------------------
(* The window. *)

\* A bound: tools are used in behaviours of their own, unless Mixed.
Kind(ofTools) ==
  Mixed \/ \A s \in Sends : stream[s].stage # "idle" => (s \in ToolRuns) = ofTools

Send(s) ==
  /\ stream[s].stage = "idle" /\ Kind(s \in ToolRuns)
  /\ watch.on => Mixed \/ s \in ToolRuns
  /\ IF link = "down"
     THEN stream' = [stream EXCEPT ![s].stage = "failed"] /\ UNCHANGED inbox
     ELSE stream' = [stream EXCEPT ![s].stage = "sent"] /\ Asks("send", s)
  /\ UNCHANGED <<linkVars, wire, hole, gatewayVars, traced, watch, denied, faults>>

(* chat.cancel-stream: before the acceptance the stream is given up and the run aborted once
   it is known; later only the stream ends. *)
Cancel(s) ==
  /\ stream[s].stage \in Live
  /\ stream' = [stream EXCEPT ![s].stage = IF @ = "sent" THEN "cancelling" ELSE "cancelled",
                              ![s].buffer = <<>>, ![s].recovery = "off"]
  /\ traced' = IF stream[s].stage = "open" THEN [traced EXCEPT ![s] = Cleared(@)] ELSE traced
  /\ UNCHANGED <<linkVars, wire, hole, inbox, gatewayVars, watch, denied, faults>>

Abort(s) ==
  /\ stream[s].stage = "open" /\ run[s] = "running" /\ Asks("abort", s)
  /\ UNCHANGED <<linkVars, wire, hole, gatewayVars, clientVars, faults>>

(* The call of chat.send times out: nobody will see its run, and an abort that waited for
   the acceptance is not sent. *)
SendTimesOut(s) ==
  /\ stream[s].stage \in {"sent", "cancelling"} /\ Fault
  /\ stream' = [stream EXCEPT ![s].stage = IF @ = "sent" THEN "failed" ELSE "cancelled",
                              ![s].buffer = <<>>]
  /\ UNCHANGED <<linkVars, wire, hole, inbox, gatewayVars, traced, watch, denied>>

(* Asked when there is nothing to decide, either changes nothing. *)
Resolve(s, decision) ==
  /\ link # "down" /\ Asked(s) /\ traced[s].request
  /\ \A d \in {"allow", "deny"} : [op |-> d, run |-> s] \notin inbox
  /\ Asks(decision, s)
  /\ UNCHANGED <<linkVars, wire, hole, gatewayVars, clientVars, faults>>

ListPending(s) ==
  /\ link # "down" /\ Asked(s) /\ Asks("list", s)
  /\ UNCHANGED <<linkVars, wire, hole, gatewayVars, clientVars, faults>>

(* What is watched here are tools. *)
WatchSwitched ==
  /\ link # "down" /\ ToolRuns # {} /\ Kind(TRUE)
  /\ watch' = [on |-> ~watch.on, tool |-> [s \in Sends |-> "none"]]
  /\ UNCHANGED <<linkVars, wire, hole, inbox, gatewayVars, stream, traced, denied, faults>>

-----------------------------------------------------------------------------
(* The router closes: every call is rejected, every queue fails; the dispatcher shows a
   stream that had started an error. *)
Failed(st, s) ==
  CASE st.stage = "sent" -> [st EXCEPT !.stage = "failed", !.buffer = <<>>]
    [] st.stage = "open" -> [st EXCEPT !.stage = "failed", !.recovery = "off",
                                       !.shown = Append(@, Happening("error", s, 0))]
    [] st.stage = "cancelling" -> [st EXCEPT !.stage = "cancelled"]
    [] OTHER -> st

RouterCloses ==
  /\ wire' = <<>> /\ hole' = FALSE /\ observed' = FALSE
  /\ inbox' = {}
  /\ stream' = [s \in Sends |-> Failed(stream[s], s)]
  /\ watch' = [watch EXCEPT !.on = FALSE]
  /\ denied' = {}
  /\ UNCHANGED gatewayVars

SocketCloses ==
  /\ link # "down" /\ Fault
  /\ link' = "down" /\ traced' = [s \in Sends |-> Untraced]
  /\ RouterCloses /\ UNCHANGED links

(* A gap's reconnect forgot what it knew when it began; the user's begins and ends here. *)
Reconnects ==
  /\ link = "gap" \/ (link = "down" /\ links < MaxLinks)
  /\ IF links < MaxLinks THEN link' = "up" /\ links' = links + 1
     ELSE link' = "down" /\ UNCHANGED links
  /\ traced' = IF link = "gap" THEN traced ELSE [s \in Sends |-> Untraced]
  /\ RouterCloses /\ UNCHANGED faults

-----------------------------------------------------------------------------
GatewayNext(s) ==
  \/ RunStarts(s) \/ EmitDelta(s) \/ \E end \in Ends : EmitEnd(s, end)
  \/ ToolStarts(s) \/ ApprovalAsked(s) \/ ToolFinishes(s)
  \/ AnswerSend(s) \/ AnswerWait(s) \/ AnswerList(s)
  \/ \E kind \in {"reply", "no reply"} : AnswerHistory(s, kind)
  \/ \E d \in {"allow", "deny"} : AnswerResolve(s, d)

Receive ==
  \/ EventDropped \/ ChatFrame \/ ToolFrame \/ ApprovalFrame
  \/ Accepted \/ WaitAnswered \/ HistoryAnswered \/ Listed \/ Refused \/ Resolved

WindowNext(s) ==
  \/ Send(s) \/ Cancel(s) \/ Abort(s) \/ SendTimesOut(s) \/ RecoveryFails(s) \/ ListPending(s)
  \/ \E d \in {"allow", "deny"} : Resolve(s, d)

Next ==
  \/ \E s \in Sends : GatewayNext(s) \/ WindowNext(s)
  \/ Receive \/ WatchSwitched \/ SocketCloses \/ Reconnects

Spec == Init /\ [][Next]_vars

(* Frames are read, the gateway works off its requests and ends its runs, the wait before a
   reconnect ends. *)
Works(s) ==
  \/ RunStarts(s) \/ \E end \in Ends : EmitEnd(s, end)
  \/ AnswerSend(s) \/ AnswerWait(s) \/ \E kind \in {"reply", "no reply"} : AnswerHistory(s, kind)
Fairness ==
  /\ WF_vars(Receive) /\ WF_vars(link = "gap" /\ Reconnects)
  /\ \A s \in Sends : WF_vars(Works(s))

FairSpec == Spec /\ Fairness

-----------------------------------------------------------------------------
(* What a stream shows is the run's own text from its beginning without a hole: whatever
   comes before the acceptance, after a lost event, or from other runs. *)
TextHasNoHole ==
  \A s \in Sends : \A i \in DOMAIN stream[s].shown :
    stream[s].shown[i].type = "delta" => stream[s].shown[i] = Happening("delta", s, i)

(* A stream shows one end and nothing after it, although the run, the recovery and a closed
   connection can each supply one; and the end is so: no answer is shown as complete, and
   none as aborted, of a run that goes on. *)
EndIsTrue ==
  \A s \in Sends :
    LET shown == stream[s].shown
    IN \A i \in DOMAIN shown :
         shown[i].type \in Ends =>
           /\ i = Len(shown) /\ stream[s].stage \in {"ended", "failed"}
           /\ shown[i].type = "final" => run[s] \in Ends
           /\ shown[i].type = "aborted" => run[s] = "aborted"

(* Once the user was told that a tool is denied, no consumer shows it as running or waiting
   again, in whatever order its start, its approval, the decision and a list come. *)
DeniedStaysDenied ==
  [][\A s \in denied :
       /\ stream'[s].tool # stream[s].tool => stream'[s].tool \in Over
       /\ watch'.tool[s] # watch.tool[s] => watch'.tool[s] \in Over \cup {"none"}]_vars

(* Every stream that was begun ends: by its run's end, a supplied one, or an error.  That of a
   run whose tool waits for an approval may wait for its user. *)
EveryStreamEnds == \A s \in Sends \ ToolRuns : stream[s].stage \in Live ~> stream[s].stage \notin Live
=============================================================================
