------------------------------- MODULE ChatQueue -------------------------------
(***************************************************************************)
(* Messages a user queues for a session and the desktop sends for him: the  *)
(* queue file, the dispatcher with its flights, the direct sends that make   *)
(* a session active, the loop that watches the gateway, and the user.        *)
(*                                                                         *)
(* One step is what runs between two awaits that leave the process: a write  *)
(* of the queue file, an event of a stream, a status of the gateway.  Asking *)
(* whether the gateway is available reads memory only, so it is not a step   *)
(* of its own; neither is taking the activity of a session with no flight.   *)
(*                                                                         *)
(* A definition whose comment begins with "Mistake" is a wrong variant of   *)
(* the one after it; no action uses it.                                     *)
(***************************************************************************)
EXTENDS Naturals, FiniteSets, SequencesExt

CONSTANTS
  Sessions,
  Items,       \* the messages the user may queue, each once
  Sends,       \* the messages the user may send directly, each once
  MaxUps,      \* bound on how often the gateway becomes available
  MaxCrashes,  \* bound on how often the desktop is restarted
  Troubles,    \* what may happen besides the ordinary course, see AllTroubles
  None

\* "steer": the user sends a queued message himself.  "cancel": a direct send ends with no
\* final, aborted or error event.  "edit": a failed message is edited.  "remove": a message is
\* removed.  "lost": a stream reports that the gateway is disconnected or unavailable.
\* "write": the queue file cannot be written or read.
AllTroubles == {"steer", "cancel", "edit", "remove", "lost", "write"}

ASSUME QueueAssumption ==
  /\ IsFiniteSet(Items) /\ IsFiniteSet(Sends)
  /\ MaxUps \in Nat /\ MaxCrashes \in Nat
  /\ Troubles \subseteq AllTroubles
  /\ None \notin Sessions \cup Items

VARIABLES
  queue,     \* file: the items of each session, oldest first
  status,    \* file: the status of each item; "new" and "gone" are not in it
  known,     \* file: the sessions it has a document for
  gateway,   \* businessAvailable
  news,      \* statuses with businessAvailable that the watch has not taken
  watch,     \* the watch loop: waits for news, lists the sessions, or has ended
  awaited,   \* the sessions whose flights the watch loop waits for
  flight,    \* flights
  waiting,   \* waiting
  active,    \* activeSessions
  direct,    \* the direct sends
  ups, crashes,
  answered,  \* history: items whose stream ended in a final event
  faulted    \* history: a write failed, or the desktop was restarted

file    == <<queue, status, known>>
outside == <<gateway, news, ups, crashes>>
vars    == <<queue, status, known, gateway, news, watch, awaited, flight, waiting, active, direct,
             ups, crashes, answered, faulted>>

-----------------------------------------------------------------------------
Statuses == {"new", "queued", "sending", "failed", "gone"}
Kinds    == {"idle", "release", "available", "send"}
Flights  == [kind : Kinds, pc : {"head", "claim", "deliver", "acknowledge", "restore", "fail"},
             item : Items \cup {None},
             caught : BOOLEAN]   \* the write after the stream is in deliver's catch clause
ASSUME NoneIsNoFlight == None \notin Flights

Directs  == [pc : {"new", "acquiring", "active", "done"}, session : Sessions \cup {None}]

TypeOK ==
  /\ queue \in [Sessions -> SeqOf(Items, Cardinality(Items))]
  /\ status \in [Items -> Statuses] /\ known \subseteq Sessions
  /\ gateway \in BOOLEAN /\ news \in 0 .. MaxUps
  /\ watch \in {"idle", "listing", "dead"} /\ awaited \subseteq Sessions
  /\ flight \in [Sessions -> Flights \cup {None}] /\ waiting \subseteq Sessions
  /\ active \in [Sessions -> Nat] /\ direct \in [Sends -> Directs]
  /\ ups \in 0 .. MaxUps /\ crashes \in 0 .. MaxCrashes
  /\ answered \subseteq Items /\ faulted \in BOOLEAN

Init ==
  /\ queue = [s \in Sessions |-> <<>>] /\ status = [i \in Items |-> "new"] /\ known = {}
  /\ gateway = FALSE /\ news = 0 /\ watch = "idle" /\ awaited = {}
  /\ flight = [s \in Sessions |-> None] /\ waiting = {} /\ active = [s \in Sessions |-> 0]
  /\ direct = [d \in Sends |-> [pc |-> "new", session |-> None]]
  /\ ups = 0 /\ crashes = 0 /\ answered = {} /\ faulted = FALSE

Trouble(t) == t \in Troubles

Flight(kind, pc, item) ==
  [kind |-> kind, pc |-> pc, item |-> item, caught |-> FALSE]

\* singleFlight: whoever finds a flight only waits for its end.
Joined(f, kind) == IF f = None THEN Flight(kind, "head", None) ELSE f

-----------------------------------------------------------------------------
(* The user, through the IPC channel, and the queue file. *)

Keep == UNCHANGED <<outside, watch, awaited, active, direct, answered, faulted>>

Addable(i) == status[i] = "new"

Add(s, i) ==
  /\ Addable(i)
  /\ queue' = [queue EXCEPT ![s] = Append(@, i)]
  /\ status' = [status EXCEPT ![i] = "queued"]
  /\ known' = known \cup {s}
  /\ UNCHANGED <<flight, waiting>> /\ Keep

\* An edit of an item that is queued changes its text only.
Update(i) ==
  /\ Trouble("edit") /\ status[i] = "failed"
  /\ status' = [status EXCEPT ![i] = "queued"]
  /\ UNCHANGED <<queue, known, flight, waiting>> /\ Keep

Position(s, i) == CHOOSE n \in DOMAIN queue[s] : queue[s][n] = i

\* remove has found the item, and no two have its id: the filter takes out this one.
Drop(s, i) ==
  /\ queue' = [queue EXCEPT ![s] = RemoveAt(@, Position(s, i))]
  /\ status' = [status EXCEPT ![i] = "gone"]

\* Mistake: the refusal of an item that is being sent is forgotten.
Removable_Sending(i) == status[i] \in {"queued", "failed", "sending"}

Removable(i) == status[i] \in {"queued", "failed"}

RemoveItem(s, i) ==
  /\ Trouble("remove") /\ i \in ToSet(queue[s]) /\ Removable(i)
  /\ Drop(s, i)
  /\ UNCHANGED <<known, flight, waiting>> /\ Keep

\* The dispatcher's send.  With a flight under way it answers CONFLICT once that has ended.
SendItem(s, i) ==
  /\ Trouble("steer") /\ flight[s] = None /\ gateway
  /\ i \in ToSet(queue[s])
  /\ flight' = [flight EXCEPT ![s] = Flight("send", "claim", i)]
  /\ UNCHANGED <<file, waiting>> /\ Keep

-----------------------------------------------------------------------------
(* Flights. *)

Occupied(s, n) == [active EXCEPT ![s] = @ + n]

Acquiring(s) == {d \in Sends : direct[d].pc = "acquiring" /\ direct[d].session = s}

\* The end of a flight: the direct sends that waited for it take the session.
EndFlight(s) ==
  /\ flight' = [flight EXCEPT ![s] = None]
  /\ direct' = [d \in Sends |-> IF d \in Acquiring(s) THEN [direct[d] EXCEPT !.pc = "active"]
                                                      ELSE direct[d]]
  /\ active' = Occupied(s, Cardinality(Acquiring(s)))
  /\ awaited' = awaited \ {s}

Goto(s, pc) ==
  /\ flight' = [flight EXCEPT ![s].pc = pc]
  /\ UNCHANGED <<direct, active, awaited>>

\* A flight's operation throws.  releaseActivity puts the session back, the watch loop ends
\* for good, sessionIdle's caller ignores it and send's caller is told.
Reject(s) ==
  /\ EndFlight(s) /\ faulted' = TRUE
  /\ waiting' = IF flight[s].kind = "release" THEN waiting \cup {s} ELSE waiting
  /\ watch' = IF flight[s].kind = "available" THEN "dead" ELSE watch
  /\ UNCHANGED <<file, outside, answered>>

MayTake(s) == gateway /\ active[s] = 0

AskTurn(s) ==
  /\ flight[s] # None /\ flight[s].pc = "head"
  /\ IF MayTake(s) THEN Goto(s, "claim") /\ UNCHANGED waiting
     ELSE EndFlight(s) /\ waiting' = waiting \cup {s}
  /\ UNCHANGED <<file, outside, watch, answered, faulted>>

\* Mistake: a failed item is taken again.
Sendable_Failed(s) == ToSet(queue[s])

Sendable(s) == {i \in ToSet(queue[s]) : status[i] \in {"queued", "sending"}}

Oldest(s) == CHOOSE i \in Sendable(s) : \A j \in Sendable(s) : Position(s, i) <= Position(s, j)

Take(s, i) ==
  /\ status' = [status EXCEPT ![i] = "sending"]
  /\ flight' = [flight EXCEPT ![s].pc = "deliver", ![s].item = i]
  /\ UNCHANGED <<direct, active, awaited>>

ClaimNext(s) ==
  /\ flight[s] # None /\ flight[s].pc = "claim" /\ flight[s].kind # "send"
  /\ IF Sendable(s) = {} THEN EndFlight(s) /\ UNCHANGED status
     ELSE Take(s, Oldest(s))
  /\ known' = known \cup {s}
  /\ UNCHANGED <<queue, outside, watch, waiting, answered, faulted>>

\* The item of an explicit send is taken whatever its status; it may have been removed.
Claim(s) ==
  /\ flight[s] # None /\ flight[s].pc = "claim" /\ flight[s].kind = "send"
  /\ IF flight[s].item \in ToSet(queue[s]) THEN Take(s, flight[s].item)
     ELSE EndFlight(s) /\ UNCHANGED status
  /\ UNCHANGED <<queue, known, outside, watch, waiting, answered, faulted>>

Settling(f, op, caught) == [f EXCEPT !.pc = op, !.caught = caught]

\* A closed connection is thrown as an AdapterServiceError, which carries the UClawError
\* in a field of its own: the catch clause does not see that it means disconnected.
CutOff(f) == Settling(f, "fail", TRUE)

StreamEnds(s) ==
  /\ flight[s] # None /\ flight[s].pc = "deliver"
  /\ \/ /\ flight' = [flight EXCEPT ![s] = Settling(@, "acknowledge", FALSE)]
        /\ answered' = answered \cup {flight[s].item}
     \/ /\ \E caught \in BOOLEAN : flight' = [flight EXCEPT ![s] = Settling(@, "fail", caught)]
        /\ UNCHANGED answered
     \/ ~gateway /\ flight' = [flight EXCEPT ![s] = CutOff(@)] /\ UNCHANGED answered
     \/ /\ Trouble("lost")
        /\ \E caught \in BOOLEAN : flight' = [flight EXCEPT ![s] = Settling(@, "restore", caught)]
        /\ UNCHANGED answered
  /\ UNCHANGED <<file, outside, watch, awaited, waiting, active, direct, faulted>>

\* After deliver: an explicit send ends; a flight goes on unless the gateway was gone.
Delivered(s) ==
  IF flight[s].kind = "send" THEN EndFlight(s) /\ UNCHANGED waiting
  ELSE IF flight[s].pc = "restore" THEN EndFlight(s) /\ waiting' = waiting \cup {s}
  ELSE /\ flight' = [flight EXCEPT ![s] = Flight(@.kind, "head", None)]
       /\ UNCHANGED <<direct, active, awaited, waiting>>

\* Mistake: the item keeps its status when its delivery failed.
SetStatus_Forgotten(i, new) == UNCHANGED status

SetStatus(i, new) == status' = [status EXCEPT ![i] = new]

\* Mistake: the acknowledgement is refused as the removal of an item that is being sent, and
\* the catch clause records a failure.
Acknowledge_Refused(s, i) == SetStatus(i, "failed") /\ UNCHANGED queue

\* acknowledge is a removal that is allowed while the item is being sent.
Acknowledge(s, i) == Drop(s, i)

Settle(s) ==
  /\ flight[s] # None /\ flight[s].pc \in {"acknowledge", "restore", "fail"}
  /\ CASE flight[s].pc = "acknowledge" -> Acknowledge(s, flight[s].item)
       [] flight[s].pc = "restore"     -> SetStatus(flight[s].item, "queued") /\ UNCHANGED queue
       [] flight[s].pc = "fail"        -> SetStatus(flight[s].item, "failed") /\ UNCHANGED queue
  /\ Delivered(s)
  /\ UNCHANGED <<known, outside, watch, answered, faulted>>

\* A write fails.  In deliver's try clause that leads to its catch clause, which tries to
\* record the failure; anywhere else the operation of the flight throws.
WriteFails(s) ==
  /\ Trouble("write") /\ flight[s] # None
  /\ \/ flight[s].pc = "claim" /\ Reject(s)
     \/ /\ flight[s].pc \in {"acknowledge", "restore", "fail"}
        /\ IF flight[s].caught THEN Reject(s)
           ELSE /\ flight' = [flight EXCEPT ![s] = Settling(@, "fail", TRUE)]
                /\ faulted' = TRUE
                /\ UNCHANGED <<file, outside, watch, awaited, waiting, active, direct, answered>>

-----------------------------------------------------------------------------
(* Direct sends: routeChatSend in main.ts, which holds the session active. *)

\* Mistake: a direct send does not wait for the flight of its session.
Entry_AtOnce(s) == "active"

Entry(s) == IF flight[s] = None THEN "active" ELSE "acquiring"

StartDirect(d, s) ==
  /\ direct[d].pc = "new"
  /\ LET at == Entry(s)
     IN  /\ direct' = [direct EXCEPT ![d] = [pc |-> at, session |-> s]]
         /\ active' = Occupied(s, IF at = "active" THEN 1 ELSE 0)
  /\ UNCHANGED <<file, outside, watch, awaited, flight, waiting, answered, faulted>>

\* Mistake: the session is not told that it is idle.
GoesIdle_Forgotten(terminal) == FALSE

\* sessionIdle is called only after a final, aborted or error event.
GoesIdle(terminal) == terminal

\* releaseActivity, then sessionIdle: the last one out wakes a session that waits, and after
\* a terminal event the session is served, or noted as waiting.
Release(s, terminal) ==
  LET last == active[s] = 1
      idle == GoesIdle(terminal)
  IN  /\ active' = [active EXCEPT ![s] = @ - 1]
      /\ flight' = [flight EXCEPT ![s] =
           IF last /\ s \in waiting THEN Joined(@, "release")
           ELSE IF last /\ idle /\ gateway THEN Joined(@, "idle") ELSE @]
      /\ waiting' = IF idle /\ (~last \/ ~gateway) THEN waiting \cup {s}
                    ELSE IF last THEN waiting \ {s} ELSE waiting

EndDirect(d, terminal) ==
  /\ direct[d].pc = "active"
  /\ terminal \/ Trouble("cancel")
  /\ direct' = [direct EXCEPT ![d].pc = "done"]
  /\ Release(direct[d].session, terminal)
  /\ UNCHANGED <<file, outside, watch, awaited, answered, faulted>>

-----------------------------------------------------------------------------
(* The gateway, the loop that watches it, and restarts. *)

GatewayUp ==
  /\ ~gateway /\ ups < MaxUps
  /\ gateway' = TRUE /\ news' = news + 1 /\ ups' = ups + 1
  /\ UNCHANGED <<file, watch, awaited, flight, waiting, active, direct, crashes, answered, faulted>>

\* The connection is closed.  The streams that run over it throw at once; a message that
\* another provider answers goes on.
GatewayDown ==
  /\ gateway /\ gateway' = FALSE
  /\ \E cut \in SUBSET {s \in Sessions : flight[s] # None /\ flight[s].pc = "deliver"} :
       flight' = [s \in Sessions |-> IF s \in cut THEN CutOff(flight[s]) ELSE flight[s]]
  /\ UNCHANGED <<file, news, ups, crashes, watch, awaited, waiting, active, direct, answered, faulted>>

\* A direct send over a closed connection throws too: it ends with no terminal event.
DirectCut(d) ==
  /\ direct[d].pc = "active" /\ ~gateway
  /\ direct' = [direct EXCEPT ![d].pc = "done"]
  /\ Release(direct[d].session, FALSE)
  /\ UNCHANGED <<file, outside, watch, awaited, answered, faulted>>

TakeNews ==
  /\ watch = "idle" /\ awaited = {} /\ news > 0
  /\ watch' = "listing" /\ news' = news - 1
  /\ UNCHANGED <<file, gateway, ups, crashes, awaited, flight, waiting, active, direct, answered, faulted>>

\* Mistake: only the sessions noted as waiting are served.
Served_Waiting == {s \in waiting : active[s] = 0}

Served == {s \in waiting \cup known : active[s] = 0}

\* gatewayAvailable, once it has read the sessions of the file.
GatewayAvailable ==
  /\ watch = "listing" /\ watch' = "idle"
  /\ awaited' = Served
  /\ waiting' = waiting \ Served
  /\ flight' = [s \in Sessions |-> IF s \in Served THEN Joined(flight[s], "available") ELSE flight[s]]
  /\ UNCHANGED <<file, outside, active, direct, answered, faulted>>

\* Nobody calls gatewayAvailable after it has thrown once.
ListFails ==
  /\ Trouble("write") /\ watch = "listing" /\ watch' = "dead"
  /\ faulted' = TRUE
  /\ UNCHANGED <<file, outside, awaited, flight, waiting, active, direct, answered>>

\* The process ends in any way and starts again: the file is all it keeps.
Restart ==
  /\ crashes < MaxCrashes /\ crashes' = crashes + 1
  /\ gateway' = FALSE /\ news' = 0 /\ watch' = "idle" /\ awaited' = {}
  /\ flight' = [s \in Sessions |-> None] /\ waiting' = {}
  /\ active' = [s \in Sessions |-> 0]
  /\ direct' = [d \in Sends |-> IF direct[d].pc \in {"acquiring", "active"}
                                THEN [direct[d] EXCEPT !.pc = "done"] ELSE direct[d]]
  /\ faulted' = TRUE
  /\ UNCHANGED <<file, ups, answered>>

-----------------------------------------------------------------------------
FlightStep(s) == AskTurn(s) \/ ClaimNext(s) \/ Claim(s) \/ Settle(s)
WatchStep     == TakeNews \/ GatewayAvailable

Next ==
  \/ \E s \in Sessions, i \in Items : Add(s, i) \/ RemoveItem(s, i) \/ SendItem(s, i)
  \/ \E i \in Items : Update(i)
  \/ \E s \in Sessions : FlightStep(s) \/ StreamEnds(s) \/ WriteFails(s)
  \/ \E d \in Sends, s \in Sessions : StartDirect(d, s)
  \/ \E d \in Sends : DirectCut(d) \/ \E terminal \in BOOLEAN : EndDirect(d, terminal)
  \/ GatewayUp \/ GatewayDown \/ WatchStep \/ ListFails \/ Restart

Spec == Init /\ [][Next]_vars

\* Disk operations end, the watch loop takes what is pushed to it, and a stream ends: the
\* adapter waits at most twelve times ten seconds for the answer of a run.
Fairness ==
  /\ \A s \in Sessions : WF_vars(FlightStep(s)) /\ WF_vars(StreamEnds(s))
  /\ \A d \in Sends : WF_vars(EndDirect(d, TRUE))
  /\ WF_vars(WatchStep)

FairSpec == Spec /\ Fairness

-----------------------------------------------------------------------------
(* Properties. *)

InQueue(s, i) == i \in ToSet(queue[s])

\* A message is sent once, and locked against edits and removal only as long as a flight sends
\* it: while no write has failed and the desktop has not been restarted, one that was answered
\* is being taken out of the queue or has left it, and one marked as being sent has its flight.
SentOnce ==
  ~faulted => \A i \in Items :
    /\ i \in answered => \/ status[i] = "gone"
                         \/ \E s \in Sessions : /\ flight[s] # None /\ flight[s].item = i
                                               /\ flight[s].pc = "acknowledge"
    /\ status[i] = "sending" =>
         \E s \in Sessions : flight[s] # None /\ flight[s].item = i /\ InQueue(s, i)

\* The queue sends nothing by itself while a direct send has the session; that one waits until
\* the flight has ended, the flight asks before every item.
QueueWaitsItsTurn ==
  \A s \in Sessions :
    (flight[s] # None /\ flight[s].kind # "send" /\ flight[s].pc # "head") => active[s] = 0

\* activeSessions counts the direct sends that run: a count that stays above them silences
\* the queue of the session for good.
ActiveIsCounted ==
  \A s \in Sessions :
    active[s] = Cardinality({d \in Sends : direct[d].pc = "active" /\ direct[d].session = s})

\* No message is lost: one that is being sent leaves the queue only if it was answered.
NoneLost ==
  [][\A i \in Items : (status[i] = "sending" /\ status'[i] = "gone") => i \in answered]_vars

\* The queue is served: the messages queued behind a task after the task ends, as long as the
\* gateway is there, and those in the queue while the gateway is away once it is back to stay;
\* and every flight ends and lets the direct sends that wait for it start.
QueueDrains ==
  /\ \A s \in Sessions, i \in Items :
       (InQueue(s, i) /\ status[i] = "queued" /\ active[s] > 0) ~> (status[i] # "queued" \/ ~gateway)
  /\ <>[]gateway => \A i \in Items :
       (status[i] \in {"queued", "sending"} /\ ~gateway) ~> (status[i] \notin {"queued", "sending"})
  /\ \A d \in Sends : (direct[d].pc = "acquiring") ~> (direct[d].pc # "acquiring")

=============================================================================
