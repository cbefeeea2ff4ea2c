---------------------------- MODULE ConnectionProofs ----------------------------
(* The desktop's connection with OpenClaw, for any number of gateway processes, connections,
   faults, sends, deltas and frames on their way.  The first part is about ChatStream: what a
   stream shows ends rightly and has no hole, and a tool that was denied stays so.  The second
   is about GatewayLink: the status
   shown of the connection, and the requests that wait in its router. *)
EXTENDS ChatStream, GatewayLink, WellFoundedInduction, TLAPS

Stages == Live \cup {"idle", "ended", "failed", "cancelling", "cancelled"}
Streams == [stage : Stages, buffer : Seq(Items), shown : Seq(Items), tool : ToolStates,
            recovery : {"off", "wait", "history", "failed"}]
Frames == EventFrames \cup AnswerFrames
Traces == [tool : ToolStates, request : BOOLEAN, indexed : BOOLEAN,
           decision : {"none", "allow", "deny"}, seen : BOOLEAN]
Calls == [started : BOOLEAN, finished : BOOLEAN, approval : {"none", "open", "allow", "deny"}]

\* The type invariant, in its parts.
LinkType == /\ link \in {"up", "gap", "down"} /\ links \in 1 .. MaxLinks
            /\ hole \in BOOLEAN /\ observed \in BOOLEAN /\ faults \in 0 .. MaxFaults
WireType == wire \in Seq(Frames) /\ Len(wire) <= MaxWire
GateType == /\ run \in [Sends -> {"none", "running"} \cup Ends] /\ emitted \in [Sends -> 0 .. MaxDeltas]
            /\ called \in [Sends -> Calls] /\ \A s \in Sends : called[s].approval # "none" => s \in ToolRuns
AskType == inbox \subseteq Requests
TraceType == traced \in [Sends -> Traces]
WatchType == watch \in [on : BOOLEAN, tool : [Sends -> ToolStates]] /\ denied \subseteq ToolRuns
StreamType == stream \in [Sends -> Streams]

\* What an item is to the stream of a send.
EndOf(e, s) == e.run = s /\ e.type \in Ends

-----------------------------------------------------------------------------
(* The streams end rightly. *)
Shaped(st) ==
  /\ st.stage = "sent" => st.shown = <<>> /\ st.tool = "none"
  /\ st.stage # "sent" => st.buffer = <<>>
  /\ st.stage # "open" => st.recovery = "off"
  /\ st.stage = "idle" => st = NoStream
  /\ \A i \in DOMAIN st.shown :
       /\ st.shown[i].type \in Ends \cup {"delta"}
       /\ st.shown[i].type \in Ends => i = Len(st.shown) /\ st.stage \in {"ended", "failed"}

\* A send that has not been made, and a run that has not begun.
Unbegun(s) ==
  /\ stream[s].stage = "idle" => run[s] = "none" /\ [op |-> "send", run |-> s] \notin inbox
  /\ run[s] = "none" =>
       /\ emitted[s] = 0 /\ ~called[s].started /\ called[s].approval = "none"
       /\ \A i \in DOMAIN wire : IsEvent(wire[i]) => wire[i].item.run # s

\* What a frame says of its run is so; [r]: the runs.
Tells(frame, r) ==
  /\ frame.kind = "chat" => /\ frame.item.type \in Ends \cup {"delta"}
                            /\ frame.item.type \in Ends => r[frame.item.run] = frame.item.type
  /\ frame.kind = "tool" => frame.item.type \in {"running", "done"}
  /\ frame.kind = "approval" => frame.item.type = "waiting"
  /\ frame.kind \in {"wait over", "wait failed"} => r[frame.run] \in Ends
  /\ frame.kind \in {"allow", "deny"} => frame.run \in ToolRuns
FramesAreTrue == \A i \in DOMAIN wire : Tells(wire[i], run)

\* So is what a stream has and shows.
Fits(st, s, r) ==
  /\ \A i \in DOMAIN st.buffer : st.buffer[i].type \in Ends => r[st.buffer[i].run] = st.buffer[i].type
  /\ st.recovery \in {"history", "failed"} => r[s] \in Ends
  /\ \A i \in DOMAIN st.shown :
       /\ st.shown[i].type = "final" => r[s] \in Ends
       /\ st.shown[i].type = "aborted" => r[s] = "aborted"

Ending == /\ LinkType /\ WireType /\ GateType /\ AskType /\ TraceType /\ WatchType /\ StreamType
          /\ FramesAreTrue
          /\ \A s \in Sends : Shaped(stream[s]) /\ Unbegun(s) /\ Fits(stream[s], s, run)

-----------------------------------------------------------------------------
(* Induction: a set of naturals has a least one. *)
LEMMA LeastNumber ==
  ASSUME NEW T, T \subseteq Nat, T # {}
  PROVE  \E x \in T : \A y \in T : x <= y
<1> DEFINE R == {ss \in Nat \X Nat : ss[1] < ss[2]}
<1>1. IsWellFoundedOn(R, Nat)
  BY NatLessThanWellFounded DEF OpToRel
<1>2. \A x, y \in Nat : <<y, x>> \in R <=> y < x
  OBVIOUS
<1> HIDE DEF R
<1>3. PICK x \in T : \A y \in T : ~ (<<y, x>> \in R)
  BY <1>1, WFMin
<1>4. ASSUME NEW y \in T PROVE x <= y
  <2>1. x \in Nat /\ y \in Nat
    OBVIOUS
  <2>2. ~ (y < x)
    BY <1>2, <1>3, <2>1
  <2> QED BY <2>1, <2>2
<1> QED BY <1>4

LEMMA UpTo ==
  ASSUME NEW n \in Nat, NEW S, 0 \in S, \A k \in 0 .. n - 1 : k \in S => k + 1 \in S
  PROVE  \A k \in 0 .. n : k \in S
<1> DEFINE T == {k \in 0 .. n : k \notin S}
<1>1. SUFFICES ASSUME T # {} PROVE FALSE
  OBVIOUS
<1>2. T \subseteq Nat
  OBVIOUS
<1>3. PICK k \in T : \A y \in T : k <= y
  <2> HIDE DEF T
  <2> QED BY <1>1, <1>2, LeastNumber
<1>4. k # 0 /\ k - 1 \in 0 .. n - 1
  OBVIOUS
<1>5. k - 1 \in S
  BY <1>3, <1>4
<1>6. k - 1 + 1 \in S
  BY <1>4, <1>5
<1> QED BY <1>3, <1>6

(* A recursive function over the positions of a sequence: there is one. *)
Begun(st, recovery) == [st EXCEPT !.stage = "open", !.buffer = <<>>, !.recovery = recovery]
Replays(g, n, st, s, recovery) ==
  g = [i \in 0 .. n |-> IF i = 0 THEN Begun(st, recovery) ELSE Enqueued(g[i - 1], s, st.buffer[i])]

LEMMA ReplayExists ==
  ASSUME NEW st, NEW s, NEW recovery, NEW n \in Nat
  PROVE  \E g : Replays(g, n, st, s, recovery)
<1> DEFINE S == {k \in 0 .. n : \E g : Replays(g, k, st, s, recovery)}
<1>1. 0 \in S
  <2>1. Replays([i \in 0 .. 0 |-> Begun(st, recovery)], 0, st, s, recovery)
    BY DEF Replays
  <2> QED BY <2>1
<1>2. ASSUME NEW k \in 0 .. n - 1, k \in S PROVE k + 1 \in S
  <2>1. PICK g : Replays(g, k, st, s, recovery)
    BY <1>2
  <2> DEFINE h == [i \in 0 .. k + 1 |-> IF i = k + 1 THEN Enqueued(g[k], s, st.buffer[k + 1]) ELSE g[i]]
  <2>2. ASSUME NEW i \in 0 .. k + 1
        PROVE h[i] = IF i = 0 THEN Begun(st, recovery) ELSE Enqueued(h[i - 1], s, st.buffer[i])
    <3>0. h = [j \in 0 .. k + 1 |-> IF j = k + 1 THEN Enqueued(g[k], s, st.buffer[k + 1]) ELSE g[j]]
      BY DEF h
    <3> HIDE DEF h
    <3>1. CASE i = k + 1
      BY <3>0, <3>1
    <3>2. CASE i = 0
      BY <3>0, <3>2, <2>1 DEF Replays
    <3>3. CASE i # 0 /\ i # k + 1
      <4>1. i \in 0 .. k /\ i - 1 \in 0 .. k + 1 /\ i - 1 # k + 1
        BY <3>3
      <4>2. h[i] = g[i] /\ h[i - 1] = g[i - 1]
        BY <3>0, <3>3, <4>1
      <4> QED BY <3>3, <4>1, <4>2, <2>1 DEF Replays
    <3> QED BY <3>1, <3>2, <3>3
  <2>3. Replays(h, k + 1, st, s, recovery)
    BY <2>2 DEF Replays
  <2> HIDE DEF h
  <2>4. k + 1 \in 0 .. n
    OBVIOUS
  <2> QED BY <2>3, <2>4
<1> HIDE DEF S
<1>3. \A k \in 0 .. n : k \in S
  BY <1>1, <1>2, UpTo
<1>4. n \in S
  BY <1>3
<1> QED BY <1>4 DEF S

LEMMA ReplayIs ==
  ASSUME NEW st, NEW s, NEW recovery, Len(st.buffer) \in Nat
  PROVE  \E g : Replays(g, Len(st.buffer), st, s, recovery) /\ Replayed(st, s, recovery) = g[Len(st.buffer)]
<1>1. \E g : Replays(g, Len(st.buffer), st, s, recovery)
  BY ReplayExists
<1> QED BY <1>1, Zenon DEF Replays, Replayed, Begun

-----------------------------------------------------------------------------
(* What a stream makes of an item. *)
LEMMA ItemTypes == Ends \cap ToolStates = {} /\ "delta" \notin Ends \cup ToolStates
BY DEF Ends, ToolStates, Over

LEMMA PushedIs ==
  ASSUME NEW s, NEW st \in Streams, Shaped(st), st.stage = "open", NEW e \in Items
  PROVE  /\ Pushed(st, e) \in Streams /\ Shaped(Pushed(st, e)) /\ Pushed(st, e).buffer = <<>>
         /\ e.type \in ToolStates =>
              /\ Pushed(st, e).tool = e.type
              /\ Pushed(st, e).stage = "open" /\ Pushed(st, e).shown = st.shown
              /\ Pushed(st, e).recovery = st.recovery
         /\ e.type \notin ToolStates => Pushed(st, e).shown = Append(st.shown, e) /\ Pushed(st, e).tool = st.tool
         /\ e.type = "delta" => Pushed(st, e).stage = "open" /\ Pushed(st, e).recovery = st.recovery
         /\ e.type \in Ends => Pushed(st, e).stage = "ended" /\ Pushed(st, e).recovery = "off"
<1>1. e.type \in Ends \cup {"delta"} \cup ToolStates /\ st.buffer = <<>> /\ st.shown \in Seq(Items)
  BY DEF Items, Streams, Shaped
<1>2. CASE e.type \in ToolStates
  <2>1. e.type \notin Ends /\ e.type # "delta"
    BY <1>2, ItemTypes
  <2>2. Pushed(st, e) = [st EXCEPT !.tool = e.type]
    BY <1>2, <2>1 DEF Pushed
  <2> QED BY <1>1, <1>2, <2>1, <2>2 DEF Streams, Shaped, Stages, Live
<1>3. CASE e.type = "delta"
  <2>1. e.type \notin Ends \cup ToolStates
    BY <1>3, ItemTypes
  <2>2. Pushed(st, e) = [st EXCEPT !.shown = Append(st.shown, e)]
    BY <2>1 DEF Pushed
  <2>3. /\ Append(st.shown, e) \in Seq(Items) /\ Len(Append(st.shown, e)) = Len(st.shown) + 1
        /\ \A i \in DOMAIN Append(st.shown, e) : i \in DOMAIN st.shown \/ i = Len(st.shown) + 1
        /\ \A i \in DOMAIN st.shown : Append(st.shown, e)[i] = st.shown[i]
        /\ Append(st.shown, e)[Len(st.shown) + 1] = e
    BY <1>1
  <2>4. \A i \in DOMAIN st.shown : st.shown[i].type = "delta"
    BY DEF Shaped
  <2>5. \A i \in DOMAIN Append(st.shown, e) : Append(st.shown, e)[i].type = "delta"
    BY <1>3, <2>3, <2>4
  <2>6. "delta" \notin Ends
    BY ItemTypes
  <2>7. /\ Pushed(st, e) \in Streams /\ Pushed(st, e).stage = "open" /\ Pushed(st, e).buffer = <<>>
        /\ Pushed(st, e).shown = Append(st.shown, e) /\ Pushed(st, e).tool = st.tool
        /\ Pushed(st, e).recovery = st.recovery
    BY <1>1, <2>2, <2>3 DEF Streams
  <2>8. Shaped(Pushed(st, e))
    BY <2>5, <2>6, <2>7 DEF Shaped
  <2> QED BY <1>3, <2>1, <2>7, <2>8
<1>4. CASE e.type \in Ends
  <2>1. e.type \notin ToolStates /\ e.type # "delta"
    BY <1>4, ItemTypes
  <2>2. Pushed(st, e) = [st EXCEPT !.shown = Append(st.shown, e), !.stage = "ended", !.recovery = "off"]
    BY <1>4, <2>1 DEF Pushed
  <2>3. /\ Append(st.shown, e) \in Seq(Items) /\ Len(Append(st.shown, e)) = Len(st.shown) + 1
        /\ \A i \in DOMAIN Append(st.shown, e) : i \in DOMAIN st.shown \/ i = Len(st.shown) + 1
        /\ \A i \in DOMAIN st.shown : Append(st.shown, e)[i] = st.shown[i]
        /\ Append(st.shown, e)[Len(st.shown) + 1] = e
    BY <1>1
  <2>4. \A i \in DOMAIN st.shown : st.shown[i].type = "delta"
    BY DEF Shaped
  <2>5. \A i \in DOMAIN Append(st.shown, e) :
          \/ Append(st.shown, e)[i].type = "delta"
          \/ Append(st.shown, e)[i].type = e.type /\ i = Len(Append(st.shown, e))
    BY <2>3, <2>4
  <2>6. "delta" \notin Ends
    BY ItemTypes
  <2>7. /\ Pushed(st, e) \in Streams /\ Pushed(st, e).stage = "ended" /\ Pushed(st, e).buffer = <<>>
        /\ Pushed(st, e).shown = Append(st.shown, e) /\ Pushed(st, e).tool = st.tool
        /\ Pushed(st, e).recovery = "off"
    BY <1>1, <2>2, <2>3 DEF Streams, Stages
  <2>8. Shaped(Pushed(st, e))
    BY <1>4, <2>5, <2>6, <2>7 DEF Shaped
  <2> QED BY <1>4, <2>1, <2>7, <2>8
<1> QED BY <1>1, <1>2, <1>3, <1>4

LEMMA EnqueuedIs ==
  ASSUME NEW s, NEW st \in Streams, Shaped(st), NEW e \in Items
  PROVE  /\ Enqueued(st, s, e) \in Streams /\ Shaped(Enqueued(st, s, e))
         /\ st.stage = "sent" =>
              /\ Enqueued(st, s, e).buffer = Append(st.buffer, e) /\ Enqueued(st, s, e).stage = "sent"
              /\ Enqueued(st, s, e).shown = <<>> /\ Enqueued(st, s, e).tool = "none"
              /\ Enqueued(st, s, e).recovery = "off"
         /\ st.stage = "open" /\ e.run = s => Enqueued(st, s, e) = Pushed(st, e)
         /\ st.stage \notin Live \/ (st.stage = "open" /\ e.run # s) => Enqueued(st, s, e) = st
<1>1. CASE st.stage = "sent"
  <2>1. Enqueued(st, s, e) = [st EXCEPT !.buffer = Append(st.buffer, e)]
    BY <1>1 DEF Enqueued
  <2>2. Append(st.buffer, e) \in Seq(Items)
    BY DEF Streams
  <2> QED BY <1>1, <2>1, <2>2 DEF Streams, Shaped, Live, Stages
<1>2. CASE st.stage = "open" /\ e.run = s
  BY <1>2, PushedIs DEF Enqueued, Live
<1>3. CASE st.stage \notin Live \/ (st.stage = "open" /\ e.run # s)
  BY <1>3 DEF Enqueued, Live
<1> QED BY <1>1, <1>2, <1>3 DEF Live

-----------------------------------------------------------------------------
(* What the replay of a buffer is: the queue of its own items up to the first end. *)
Ready(st) == st \in Streams /\ st.stage = "sent" /\ Shaped(st)

Replaying(g, b, s, recovery) ==
  /\ Len(b) \in Nat /\ DOMAIN b = 1 .. Len(b) /\ \A i \in 1 .. Len(b) : b[i] \in Items
  /\ g[0] \in Streams /\ Shaped(g[0])
  /\ g[0].stage = "open" /\ g[0].shown = <<>> /\ g[0].tool = "none" /\ g[0].recovery = recovery
  /\ \A k \in 0 .. Len(b) - 1 :
       /\ k + 1 \in 1 .. Len(b) /\ k \in 0 .. Len(b)
       /\ g[k + 1] = Enqueued(g[k], s, b[k + 1])

LEMMA ReplaySteps ==
  ASSUME NEW s, NEW st, Ready(st), NEW recovery \in {"off", "wait"},
         NEW g, Replays(g, Len(st.buffer), st, s, recovery)
  PROVE  Replaying(g, st.buffer, s, recovery)
<1>1. st.buffer \in Seq(Items) /\ st.shown = <<>> /\ st.tool = "none"
  BY DEF Ready, Streams, Shaped
<1>2. Len(st.buffer) \in Nat /\ DOMAIN st.buffer = 1 .. Len(st.buffer) /\ \A i \in 1 .. Len(st.buffer) : st.buffer[i] \in Items
  BY <1>1
<1>3. g[0] = Begun(st, recovery)
  BY <1>2 DEF Replays
<1>4. ASSUME NEW k \in 0 .. Len(st.buffer) - 1
      PROVE  /\ k + 1 \in 1 .. Len(st.buffer) /\ k \in 0 .. Len(st.buffer)
             /\ g[k + 1] = Enqueued(g[k], s, st.buffer[k + 1])
  <2>1. k + 1 \in 1 .. Len(st.buffer) /\ k \in 0 .. Len(st.buffer) /\ k + 1 \in 0 .. Len(st.buffer) /\ k + 1 # 0 /\ k + 1 - 1 = k
    BY <1>2
  <2> QED BY <2>1 DEF Replays
<1>5. /\ g[0].stage = "open" /\ g[0].shown = <<>> /\ g[0].tool = "none" /\ g[0].recovery = recovery
      /\ g[0].buffer = <<>> /\ g[0] \in Streams
  BY <1>1, <1>3 DEF Begun, Ready, Streams, Stages, Live
<1>6. Shaped(g[0])
  BY <1>5 DEF Shaped
<1> QED BY <1>2, <1>4, <1>5, <1>6 DEF Replaying

\* What has been taken up of the first [k] items.
TakenUp(g, b, s, recovery, k) ==
  /\ g[k] \in Streams /\ Shaped(g[k]) /\ g[k].stage \in {"open", "ended"}
  /\ g[k].stage = "open" => g[k].recovery = recovery /\ \A i \in 1 .. k : ~EndOf(b[i], s)
  /\ g[k].stage = "ended" => \E i \in 1 .. k : EndOf(b[i], s)
  /\ \A i \in DOMAIN g[k].shown : \E j \in 1 .. k : g[k].shown[i] = b[j] /\ b[j].run = s

LEMMA ReplayShape ==
  ASSUME NEW s, NEW b, NEW recovery \in {"off", "wait"}, NEW g, Replaying(g, b, s, recovery)
  PROVE  \A k \in 0 .. Len(b) : TakenUp(g, b, s, recovery, k)
<1> DEFINE P(k) == TakenUp(g, b, s, recovery, k)
           S == {k \in 0 .. Len(b) : P(k)}
<1> HIDE DEF P, S
<1>0. Len(b) \in Nat
  BY DEF Replaying
<1>1. 0 \in S
  <2>1. DOMAIN g[0].shown = {} /\ 0 \in 0 .. Len(b)
    BY <1>0 DEF Replaying
  <2>2. P(0)
    BY <2>1 DEF P, TakenUp, Replaying
  <2> QED BY <2>1, <2>2 DEF S
<1>2. ASSUME NEW k \in 0 .. Len(b) - 1, k \in S PROVE k + 1 \in S
  <2> DEFINE e == b[k + 1]
  <2>1. /\ k \in 0 .. Len(b) /\ k + 1 \in 0 .. Len(b) /\ e \in Items /\ g[k + 1] = Enqueued(g[k], s, e)
        /\ \A i \in 1 .. k + 1 : i \in 1 .. k \/ i = k + 1
        /\ 1 .. k \subseteq 1 .. k + 1 /\ k + 1 \in 1 .. k + 1
    BY DEF Replaying
  <2> HIDE DEF e
  <2>2. /\ g[k] \in Streams /\ Shaped(g[k]) /\ g[k].stage \in {"open", "ended"}
        /\ g[k].stage = "open" => g[k].recovery = recovery /\ \A i \in 1 .. k : ~EndOf(b[i], s)
        /\ g[k].stage = "ended" => \E i \in 1 .. k : EndOf(b[i], s)
        /\ \A i \in DOMAIN g[k].shown : \E j \in 1 .. k : g[k].shown[i] = b[j] /\ b[j].run = s
    BY <1>2 DEF S, P, TakenUp
  <2>3. CASE g[k].stage = "ended" \/ e.run # s
    <3>0. g[k] \in Streams /\ Shaped(g[k]) /\ (g[k].stage \notin Live \/ (g[k].stage = "open" /\ e.run # s))
      BY <2>2, <2>3 DEF Live
    <3> PICK p : p = g[k]
      OBVIOUS
    <3>1. g[k + 1] = g[k]
      BY <2>1, <3>0, EnqueuedIs
    <3>2. ~EndOf(e, s) \/ g[k].stage = "ended"
      BY <2>3 DEF EndOf
    <3> QED BY <2>1, <2>2, <3>1, <3>2 DEF e, P, S, TakenUp
  <2>4. CASE g[k].stage = "open" /\ e.run = s
    <3>0. g[k] \in Streams /\ Shaped(g[k])
      BY <2>2
    <3> PICK p : p = g[k]
      OBVIOUS
    <3>1. g[k + 1] = Pushed(g[k], e) /\ g[k] \in Streams /\ Shaped(g[k])
      BY <2>1, <2>4, <3>0, EnqueuedIs
    <3>2. e.type \in Ends \cup {"delta"} \cup ToolStates
      BY <2>1 DEF Items
    <3>3. g[k + 1] \in Streams /\ Shaped(g[k + 1])
      BY <2>1, <2>4, <3>1, PushedIs
    <3>4. g[k + 1].stage = (IF e.type \in Ends THEN "ended" ELSE "open")
      BY <2>1, <2>4, <3>1, <3>2, PushedIs, ItemTypes
    <3>5. g[k + 1].stage = "open" => g[k + 1].recovery = recovery
      BY <2>1, <2>2, <2>4, <3>1, <3>2, <3>4, PushedIs
    <3>6. g[k + 1].shown = g[k].shown \/ g[k + 1].shown = Append(g[k].shown, e)
      BY <2>1, <2>4, <3>1, PushedIs
    <3>7. g[k].shown \in Seq(Items)
      BY <3>1 DEF Streams
    <3>8. \A i \in DOMAIN g[k + 1].shown : \/ i \in DOMAIN g[k].shown /\ g[k + 1].shown[i] = g[k].shown[i]
                                           \/ g[k + 1].shown[i] = e
      <4>1. CASE g[k + 1].shown = g[k].shown
        BY <4>1
      <4>2. CASE g[k + 1].shown = Append(g[k].shown, e)
        BY <3>7, <4>2
      <4> QED BY <3>6, <4>1, <4>2
    <3>9. \A i \in DOMAIN g[k + 1].shown : \E j \in 1 .. k + 1 : g[k + 1].shown[i] = b[j] /\ b[j].run = s
      <4> SUFFICES ASSUME NEW i \in DOMAIN g[k + 1].shown
          PROVE \E j \in 1 .. k + 1 : g[k + 1].shown[i] = b[j] /\ b[j].run = s
        OBVIOUS
      <4>1. CASE i \in DOMAIN g[k].shown /\ g[k + 1].shown[i] = g[k].shown[i]
        BY <2>1, <2>2, <4>1
      <4>2. CASE g[k + 1].shown[i] = e
        BY <2>1, <2>4, <4>2 DEF e
      <4> QED BY <3>8, <4>1, <4>2
    <3>10. EndOf(e, s) <=> e.type \in Ends
      BY <2>4 DEF EndOf
    <3> QED BY <2>1, <2>2, <2>4, <3>3, <3>4, <3>5, <3>9, <3>10 DEF e, P, S, TakenUp
  <2> QED BY <2>2, <2>3, <2>4
<1>3. \A k \in 0 .. Len(b) : k \in S
  BY <1>0, <1>1, <1>2, UpTo
<1> QED BY <1>3 DEF S, P


LEMMA OpenedIs ==
  ASSUME NEW s \in Sends, NEW st, Ready(st), NEW r, Fits(st, s, r)
  PROVE  /\ Opened(st, s) \in Streams /\ Shaped(Opened(st, s)) /\ Fits(Opened(st, s), s, r)
         /\ Opened(st, s).stage \in {"open", "ended"}
<1> DEFINE recovery == IF "bare" \in Troubles THEN "off" ELSE "wait"
<1>1. recovery \in {"off", "wait"} /\ Opened(st, s) = Replayed(st, s, recovery)
  BY DEF Opened
<1> HIDE DEF recovery
<1>2. st.buffer \in Seq(Items) /\ Len(st.buffer) \in Nat /\ DOMAIN st.buffer = 1 .. Len(st.buffer)
  BY DEF Ready, Streams
<1>3. PICK g : Replays(g, Len(st.buffer), st, s, recovery) /\ Replayed(st, s, recovery) = g[Len(st.buffer)]
  BY <1>2, ReplayIs
<1>4. Replaying(g, st.buffer, s, recovery)
  BY <1>1, <1>3, ReplaySteps
<1> DEFINE n == Len(st.buffer)
<1>5. n \in 0 .. n
  BY <1>2
<1>6. /\ g[n] \in Streams /\ Shaped(g[n]) /\ g[n].stage \in {"open", "ended"}
      /\ g[n].stage = "open" => g[n].recovery = recovery
      /\ \A i \in DOMAIN g[n].shown : \E j \in 1 .. n : g[n].shown[i] = st.buffer[j] /\ st.buffer[j].run = s
  <2>1. \A k \in 0 .. Len(st.buffer) : TakenUp(g, st.buffer, s, recovery, k)
    <3>1. PICK b : b = st.buffer
      OBVIOUS
    <3> QED BY <1>1, <1>4, <3>1, ReplayShape
  <2>2. TakenUp(g, st.buffer, s, recovery, n)
    BY <1>5, <2>1
  <2> QED BY <2>2 DEF TakenUp
<1>7. Opened(st, s) = g[n]
  BY <1>1, <1>3
<1>8. PICK p : p = g[n]
  OBVIOUS
<1> HIDE DEF n
<1>9. p.recovery \in {"off", "wait"} /\ p.buffer = <<>>
  BY <1>1, <1>6, <1>8 DEF Shaped
<1>10. ASSUME NEW i \in DOMAIN p.shown
       PROVE  p.shown[i].type \in Ends => r[s] = p.shown[i].type
  <2>1. PICK j \in 1 .. n : p.shown[i] = st.buffer[j] /\ st.buffer[j].run = s
    BY <1>6, <1>8
  <2>2. j \in DOMAIN st.buffer
    BY <1>2 DEF n
  <2> QED BY <2>1, <2>2 DEF Fits
<1>11. Fits(p, s, r)
  <2>1. \A i \in DOMAIN p.buffer : FALSE
    BY <1>9
  <2>2. "final" \in Ends /\ "aborted" \in Ends
    BY DEF Ends
  <2> QED BY <1>9, <1>10, <2>1, <2>2 DEF Fits
<1> QED BY <1>6, <1>7, <1>8, <1>11

(* A stream that takes a happening which is true of the runs, or supplied by its recovery. *)
LEMMA EnqueuedFits ==
  ASSUME NEW s \in Sends, NEW st \in Streams, Shaped(st), NEW r, Fits(st, s, r), NEW e \in Items,
         e.type \in Ends => \/ r[e.run] = e.type
                            \/ st.stage # "sent" /\ (e.type = "final" => r[s] \in Ends) /\ e.type # "aborted"
  PROVE  /\ Enqueued(st, s, e) \in Streams /\ Shaped(Enqueued(st, s, e)) /\ Fits(Enqueued(st, s, e), s, r)
         /\ (Enqueued(st, s, e).stage = "idle") = (st.stage = "idle")
<1> DEFINE q == Enqueued(st, s, e)
<1>1. q \in Streams /\ Shaped(q)
  BY EnqueuedIs
<1>2. CASE st.stage = "sent"
  <2>1. /\ q.buffer = Append(st.buffer, e) /\ q.stage = "sent" /\ q.shown = <<>> /\ q.recovery = "off"
    BY <1>2, EnqueuedIs
  <2>a. st.buffer \in Seq(Items) /\ (e.type \in Ends => r[e.run] = e.type)
    BY <1>2 DEF Streams
  <2> HIDE DEF q
  <2>2. \A i \in DOMAIN q.buffer : (i \in DOMAIN st.buffer /\ q.buffer[i] = st.buffer[i]) \/ q.buffer[i] = e
    BY <2>1, <2>a
  <2>3. DOMAIN q.shown = {}
    BY <2>1
  <2>4. Fits(q, s, r)
    BY <2>1, <2>a, <2>2, <2>3 DEF Fits
  <2> QED BY <1>1, <1>2, <2>1, <2>4 DEF q
<1>3. CASE st.stage = "open" /\ e.run = s
  <2>0. e.type \in Ends \cup {"delta"} \cup ToolStates
    BY DEF Items
  <2>1. q = Pushed(st, e)
    BY <1>3 DEF Enqueued
  <2>2. q.buffer = <<>> /\ q.stage \in {"open", "ended"} /\ q.recovery \in {st.recovery, "off"}
    BY <1>3, <2>0, <2>1, PushedIs
  <2>3. q.shown = st.shown \/ q.shown = Append(st.shown, e)
    BY <1>3, <2>1, PushedIs
  <2>4. st.shown \in Seq(Items) /\ st.buffer = <<>>
    BY <1>3 DEF Streams, Shaped
  <2> HIDE DEF q
  <2>5. \A i \in DOMAIN q.shown : (i \in DOMAIN st.shown /\ q.shown[i] = st.shown[i]) \/ q.shown[i] = e
    <3>1. CASE q.shown = st.shown
      BY <3>1
    <3>2. CASE q.shown = Append(st.shown, e)
      BY <2>4, <3>2
    <3> QED BY <2>3, <3>1, <3>2
  <2>6. "final" \in Ends /\ "aborted" \in Ends
    BY DEF Ends
  <2>7. (e.type = "final" => r[s] \in Ends) /\ (e.type = "aborted" => r[s] = "aborted")
    BY <1>3, <2>6
  <2>8. \A i \in DOMAIN q.buffer : FALSE
    BY <2>2
  <2>9. Fits(q, s, r)
    BY <2>2, <2>5, <2>7, <2>8 DEF Fits
  <2> QED BY <1>1, <1>3, <2>2, <2>9 DEF q
<1>4. CASE st.stage \notin Live \/ (st.stage = "open" /\ e.run # s)
  BY <1>1, <1>4, EnqueuedIs
<1> QED BY <1>2, <1>3, <1>4 DEF Live

\* The runs go on: what was true of them stays so.
Later(r, rr) == \A s \in Sends : (r[s] \in Ends => rr[s] = r[s]) /\ (rr[s] = "none" => r[s] = "none")

LEMMA FitsLater ==
  ASSUME NEW s \in Sends, NEW st \in Streams, NEW r, NEW rr, Later(r, rr), Fits(st, s, r)
  PROVE  Fits(st, s, rr)
<1>1. \A i \in DOMAIN st.buffer : st.buffer[i].run \in Sends
  <2>1. st.buffer \in Seq(Items) /\ \A e \in Items : e.run \in Sends
    BY DEF Streams, Items
  <2> QED BY <2>1
<1>2. "aborted" \in Ends
  BY DEF Ends
<1> QED BY <1>1, <1>2 DEF Fits, Later

LEMMA FrameKinds ==
  ASSUME NEW f \in Frames
  PROVE  /\ IsEvent(f) => f \in EventFrames /\ f.item \in Items /\ f.item.run \in Sends
         /\ ~IsEvent(f) => f \in AnswerFrames /\ f.run \in Sends
<1>1. CASE f \in EventFrames
  <2>1. f.kind \in {"chat", "tool", "approval"} /\ f.item \in Items
    BY <1>1 DEF EventFrames
  <2>2. f.item.run \in Sends
    BY <2>1 DEF Items
  <2> QED BY <1>1, <2>1, <2>2 DEF IsEvent
<1>2. CASE f \in AnswerFrames
  BY <1>2 DEF AnswerFrames, IsEvent
<1> QED BY <1>1, <1>2 DEF Frames

LEMMA TellsLater ==
  ASSUME NEW f \in Frames, NEW r, NEW rr, Later(r, rr), Tells(f, r)
  PROVE  Tells(f, rr)
BY FrameKinds DEF Tells, Later, IsEvent

(* The wire grows by a frame, loses its first, or is emptied. *)
LEMMA FramesOn ==
  ASSUME FramesAreTrue, WireType, WireType', Later(run, run'),
         NEW f, Tells(f, run'),
         \A i \in DOMAIN wire' : wire'[i] = f \/ \E j \in DOMAIN wire : wire'[i] = wire[j]
  PROVE  FramesAreTrue'
<1> SUFFICES ASSUME NEW i \in DOMAIN wire' PROVE Tells(wire'[i], run')
  BY DEF FramesAreTrue
<1>1. CASE wire'[i] = f
  BY <1>1
<1>2. CASE \E j \in DOMAIN wire : wire'[i] = wire[j]
  <2>1. PICK j \in DOMAIN wire : wire'[i] = wire[j]
    BY <1>2
  <2>2. wire[j] \in Frames /\ Tells(wire[j], run)
    BY DEF WireType, FramesAreTrue
  <2>3. PICK p : p = wire[j]
    OBVIOUS
  <2> QED BY <2>1, <2>2, <2>3, TellsLater
<1> QED BY <1>1, <1>2

LEMMA WireAppended ==
  ASSUME WireType, NEW f \in Frames, Len(wire) < MaxWire, MaxWire \in Nat, wire' = Append(wire, f)
  PROVE  /\ WireType' /\ Len(wire') = Len(wire) + 1 /\ wire'[Len(wire')] = f
         /\ DOMAIN wire' = 1 .. Len(wire) + 1 /\ DOMAIN wire = 1 .. Len(wire)
         /\ \A i \in DOMAIN wire : i \in DOMAIN wire' /\ wire'[i] = wire[i]
         /\ \A i \in DOMAIN wire' : (i \in DOMAIN wire /\ wire'[i] = wire[i]) \/ (i = Len(wire) + 1 /\ wire'[i] = f)
BY DEF WireType

LEMMA WireTaken ==
  ASSUME WireType, MaxWire \in Nat, wire # <<>>, wire' = Tail(wire)
  PROVE  /\ WireType' /\ Len(wire') = Len(wire) - 1 /\ Head(wire) = wire[1] /\ wire[1] \in Frames
         /\ 1 \in DOMAIN wire /\ DOMAIN wire = 1 .. Len(wire) /\ DOMAIN wire' = 1 .. Len(wire) - 1
         /\ \A i \in DOMAIN wire' : i + 1 \in DOMAIN wire /\ wire'[i] = wire[i + 1]
         /\ \A i \in DOMAIN wire : i # 1 => i - 1 \in DOMAIN wire' /\ wire'[i - 1] = wire[i]
BY DEF WireType

-----------------------------------------------------------------------------
(* What a step leaves of a send that has not been made. *)
OldEvents(s) == \A i \in DOMAIN wire' : IsEvent(wire'[i]) /\ wire'[i].item.run = s =>
                  \E j \in DOMAIN wire : wire'[i] = wire[j]

LEMMA UnbegunOn ==
  ASSUME NEW s \in Sends, Unbegun(s),
         stream'[s].stage = "idle" => /\ stream[s].stage = "idle" /\ run'[s] = run[s]
                                      /\ [op |-> "send", run |-> s] \in inbox' => [op |-> "send", run |-> s] \in inbox,
         run'[s] = "none" => run[s] = "none" /\ emitted'[s] = emitted[s] /\ called'[s] = called[s] /\ OldEvents(s)
  PROVE  Unbegun(s)'
BY DEF Unbegun, OldEvents

(* A step of the gateway, of a run that has begun. *)
LEMMA GatewayKeeps ==
  ASSUME Ending, UNCHANGED clientVars, Later(run, run'), LinkType', WireType', GateType', AskType',
         FramesAreTrue', inbox' \subseteq inbox,
         \A s \in Sends : /\ run'[s] = "none" => /\ emitted'[s] = emitted[s] /\ called'[s] = called[s]
                                                 /\ OldEvents(s)
                          /\ stream[s].stage = "idle" => run'[s] = run[s]
  PROVE  Ending'
<1>1. TraceType' /\ WatchType' /\ StreamType' /\ stream' = stream
  BY DEF Ending, TraceType, WatchType, StreamType, clientVars
<1>2. ASSUME NEW s \in Sends PROVE Shaped(stream'[s]) /\ Unbegun(s)' /\ Fits(stream'[s], s, run')
  <2>1. Shaped(stream[s]) /\ Unbegun(s) /\ Fits(stream[s], s, run) /\ stream[s] \in Streams
    BY DEF Ending, StreamType
  <2>2. run'[s] = "none" => run[s] = "none"
    BY DEF Later
  <2>3. Unbegun(s)'
    BY <1>1, <2>1, <2>2, UnbegunOn
  <2>4. PICK st : st = stream[s]
    OBVIOUS
  <2>5. Fits(stream[s], s, run')
    BY <2>1, <2>4, FitsLater
  <2> QED BY <1>1, <2>1, <2>3, <2>5
<1> QED BY <1>1, <1>2 DEF Ending

(* A step of the client: what is on the wire was there, the runs are as they were. *)
LEMMA ClientKeeps ==
  ASSUME Ending, UNCHANGED gatewayVars, LinkType', WireType', AskType', TraceType', WatchType', StreamType',
         \A i \in DOMAIN wire' : \E j \in DOMAIN wire : wire'[i] = wire[j],
         \A s \in Sends : /\ Shaped(stream'[s]) /\ Fits(stream'[s], s, run)
                          /\ stream'[s].stage = "idle" =>
                               /\ stream[s].stage = "idle"
                               /\ [op |-> "send", run |-> s] \in inbox' => [op |-> "send", run |-> s] \in inbox
  PROVE  Ending'
<1>1. run' = run /\ emitted' = emitted /\ called' = called /\ GateType'
  BY DEF Ending, GateType, gatewayVars
<1>2. FramesAreTrue'
  <2>1. SUFFICES ASSUME NEW i \in DOMAIN wire' PROVE Tells(wire'[i], run)
    BY <1>1 DEF FramesAreTrue
  <2> QED BY DEF Ending, FramesAreTrue
<1>3. ASSUME NEW s \in Sends PROVE Unbegun(s)'
  <2>1. Unbegun(s) /\ OldEvents(s)
    BY DEF Ending, OldEvents
  <2> QED BY <1>1, <2>1, UnbegunOn
<1> QED BY <1>1, <1>2, <1>3 DEF Ending

LEMMA FaultIs ==
  ASSUME StreamAssumption, LinkType
  PROVE  Fault => faults' \in 0 .. MaxFaults
BY DEF StreamAssumption, LinkType, Fault

(* An event goes onto the wire, is lost, or has no link. *)
LEMMA EmitsKeeps ==
  ASSUME StreamAssumption, Ending, NEW s \in Sends, run[s] = "running", run'[s] # "none",
         NEW kind \in {"chat", "tool", "approval"}, NEW item \in Items, item.run = s, Emits(kind, item),
         Later(run, run'), \A t \in Sends : t # s => run'[t] = run[t] /\ emitted'[t] = emitted[t] /\ called'[t] = called[t],
         GateType', inbox' \subseteq inbox, Tells([kind |-> kind, item |-> item, gap |-> hole], run')
  PROVE  Ending'
<1> DEFINE f == [kind |-> kind, item |-> item, gap |-> hole]
<1>1. f \in Frames /\ f.item = item
  BY DEF Frames, EventFrames, Ending, LinkType
<1>2. /\ UNCHANGED clientVars /\ UNCHANGED linkVars /\ Len(wire) < MaxWire
      /\ \/ wire' = Append(wire, f) /\ hole' = FALSE /\ UNCHANGED faults
         \/ Fault /\ hole' = TRUE /\ wire' = wire
         \/ UNCHANGED <<wire, hole, faults>>
  BY DEF Emits
<1> HIDE DEF f
<1>3. LinkType'
  BY <1>2, FaultIs DEF Ending, LinkType, linkVars
<1>4. MaxWire \in Nat /\ WireType
  BY DEF StreamAssumption, Ending
<1>5. /\ WireType'
      /\ \A i \in DOMAIN wire' : wire'[i] = f \/ \E j \in DOMAIN wire : wire'[i] = wire[j]
  <2>1. CASE wire' = Append(wire, f)
    <3>1. PICK ff : ff = f
      OBVIOUS
    <3>2. /\ WireType' /\ \A i \in DOMAIN wire' : (i \in DOMAIN wire /\ wire'[i] = wire[i]) \/ (i = Len(wire) + 1 /\ wire'[i] = f)
      BY <1>1, <1>2, <1>4, <2>1, <3>1, WireAppended
    <3> QED BY <3>2
  <2>2. CASE wire' = wire
    BY <1>4, <2>2 DEF WireType
  <2> QED BY <1>2, <2>1, <2>2
<1>6. FramesAreTrue'
  <2>1. PICK ff : ff = f
    OBVIOUS
  <2>2. Tells(ff, run')
    BY <2>1 DEF f
  <2>3. \A i \in DOMAIN wire' : wire'[i] = ff \/ \E j \in DOMAIN wire : wire'[i] = wire[j]
    BY <1>5, <2>1
  <2>4. FramesAreTrue
    BY DEF Ending
  <2> QED BY <1>4, <1>5, <2>2, <2>3, <2>4, FramesOn
<1>7. AskType'
  BY DEF Ending, AskType
<1>8. ASSUME NEW t \in Sends
      PROVE  /\ run'[t] = "none" => emitted'[t] = emitted[t] /\ called'[t] = called[t] /\ OldEvents(t)
             /\ stream[t].stage = "idle" => run'[t] = run[t]
  <2>1. CASE t = s
    BY <2>1 DEF Ending, Unbegun
  <2>2. CASE t # s
    <3>1. OldEvents(t)
      BY <1>1, <1>5, <2>2 DEF OldEvents
    <3> QED BY <2>2, <3>1
  <2> QED BY <2>1, <2>2
<1> QED BY <1>2, <1>3, <1>5, <1>6, <1>7, <1>8, GatewayKeeps

LEMMA AnswersKeeps ==
  ASSUME StreamAssumption, Ending, NEW s \in Sends, NEW op, NEW kind, Answers(op, s, kind),
         [kind |-> kind, run |-> s] \in AnswerFrames,
         Tells([kind |-> kind, run |-> s], run), called' = called \/ (GateType' /\ run[s] = "running"
           /\ \A t \in Sends : t # s => called'[t] = called[t])
  PROVE  Ending'
<1> DEFINE f == [kind |-> kind, run |-> s]
<1>1. f \in Frames /\ ~IsEvent(f)
  BY DEF Frames, AnswerFrames, IsEvent
<1>2. /\ UNCHANGED <<linkVars, hole, run, emitted, clientVars, faults>> /\ Len(wire) < MaxWire
      /\ inbox' \subseteq inbox /\ wire' = Append(wire, f)
  BY DEF Answers
<1>a. Tells(f, run')
  BY <1>2
<1> HIDE DEF f
<1>3. LinkType' /\ GateType' /\ AskType'
  BY <1>2 DEF Ending, LinkType, linkVars, GateType, AskType
<1>4. MaxWire \in Nat /\ WireType
  BY DEF StreamAssumption, Ending
<1>5. PICK ff : ff = f
  OBVIOUS
<1>6. /\ WireType' /\ \A i \in DOMAIN wire' : (i \in DOMAIN wire /\ wire'[i] = wire[i]) \/ (i = Len(wire) + 1 /\ wire'[i] = ff)
  BY <1>1, <1>2, <1>4, <1>5, WireAppended
<1>7. Later(run, run')
  BY <1>2 DEF Later
<1>8. FramesAreTrue'
  <2>1. FramesAreTrue /\ Tells(ff, run') /\ \A i \in DOMAIN wire' : wire'[i] = ff \/ \E j \in DOMAIN wire : wire'[i] = wire[j]
    BY <1>a, <1>5, <1>6 DEF Ending
  <2> QED BY <1>4, <1>6, <1>7, <2>1, FramesOn
<1>9. ASSUME NEW t \in Sends
      PROVE  /\ run'[t] = "none" => emitted'[t] = emitted[t] /\ called'[t] = called[t] /\ OldEvents(t)
             /\ stream[t].stage = "idle" => run'[t] = run[t]
  <2>1. OldEvents(t)
    BY <1>1, <1>5, <1>6 DEF OldEvents
  <2> QED BY <1>2, <2>1
<1> QED BY <1>2, <1>3, <1>6, <1>7, <1>8, <1>9, GatewayKeeps

LEMMA GatewayEnding ==
  ASSUME StreamAssumption, Ending, NEW s \in Sends, GatewayNext(s)
  PROVE  Ending'
<1> USE DEF Happening
<1>0. /\ run \in [Sends -> {"none", "running"} \cup Ends] /\ emitted \in [Sends -> 0 .. MaxDeltas] /\ MaxDeltas \in Nat
      /\ called \in [Sends -> Calls] /\ \A t \in Sends : called[t].approval # "none" => t \in ToolRuns
  BY DEF Ending, GateType, StreamAssumption
<1>1. CASE RunStarts(s)
  <2>1. /\ [op |-> "send", run |-> s] \in inbox /\ run[s] = "none" /\ run' = [run EXCEPT ![s] = "running"]
        /\ UNCHANGED <<linkVars, wire, hole, inbox, emitted, called, clientVars, faults>>
    BY <1>1 DEF RunStarts
  <2>2. "none" \notin Ends /\ "running" \notin Ends
    BY DEF Ends
  <2>3. Later(run, run')
    BY <1>0, <2>1, <2>2 DEF Later
  <2>4. LinkType' /\ WireType' /\ GateType' /\ AskType'
    BY <1>0, <2>1 DEF Ending, LinkType, WireType, linkVars, GateType, AskType
  <2>5. FramesAreTrue'
    <3>1. SUFFICES ASSUME NEW i \in DOMAIN wire PROVE Tells(wire[i], run')
      BY <2>1 DEF FramesAreTrue
    <3>2. wire[i] \in Frames /\ Tells(wire[i], run)
      BY DEF Ending, WireType, FramesAreTrue
    <3>3. PICK f : f = wire[i]
      OBVIOUS
    <3> QED BY <2>3, <3>2, <3>3, TellsLater
  <2>6. ASSUME NEW t \in Sends
        PROVE  /\ run'[t] = "none" => emitted'[t] = emitted[t] /\ called'[t] = called[t] /\ OldEvents(t)
               /\ stream[t].stage = "idle" => run'[t] = run[t]
    <3>1. OldEvents(t)
      BY <2>1 DEF OldEvents
    <3>2. CASE t = s
      BY <2>1, <3>1, <3>2 DEF Ending, Unbegun
    <3>3. CASE t # s
      BY <1>0, <2>1, <3>1, <3>3
    <3> QED BY <3>2, <3>3
  <2> QED BY <2>1, <2>3, <2>4, <2>5, <2>6, GatewayKeeps
<1>2. CASE EmitDelta(s)
  <2>1. /\ run[s] = "running" /\ emitted[s] < MaxDeltas /\ emitted' = [emitted EXCEPT ![s] = emitted[s] + 1]
        /\ UNCHANGED <<inbox, run, called>> /\ Emits("chat", Happening("delta", s, emitted'[s]))
    BY <1>2 DEF EmitDelta
  <2>2. PICK item : item = Happening("delta", s, emitted'[s])
    OBVIOUS
  <2>3. emitted'[s] \in 0 .. MaxDeltas /\ GateType'
    BY <1>0, <2>1 DEF GateType
  <2>4. item \in Items /\ item.run = s /\ item.type = "delta"
    BY <2>2, <2>3 DEF Items
  <2>5. PICK kind : kind = "chat"
    OBVIOUS
  <2>6. Tells([kind |-> kind, item |-> item, gap |-> hole], run')
    BY <2>4, <2>5, ItemTypes DEF Tells
  <2>7. Later(run, run')
    BY <2>1 DEF Later
  <2> QED BY <1>0, <2>1, <2>2, <2>3, <2>4, <2>5, <2>6, <2>7, EmitsKeeps
<1>3. CASE \E end \in Ends : EmitEnd(s, end)
  <2>1. PICK end \in Ends : EmitEnd(s, end)
    BY <1>3
  <2>2. /\ run[s] = "running" /\ run' = [run EXCEPT ![s] = end] /\ inbox' \subseteq inbox
        /\ UNCHANGED <<emitted, called>> /\ Emits("chat", Happening(end, s, 0))
    BY <2>1 DEF EmitEnd
  <2>3. PICK item : item = Happening(end, s, 0)
    OBVIOUS
  <2>4. item \in Items /\ item.run = s /\ item.type = end /\ GateType'
    BY <1>0, <2>2, <2>3 DEF Items, GateType
  <2>5. PICK kind : kind = "chat"
    OBVIOUS
  <2>6. run'[s] = end /\ "none" \notin Ends /\ "running" \notin Ends
    BY <1>0, <2>2 DEF Ends
  <2>7. Tells([kind |-> kind, item |-> item, gap |-> hole], run')
    BY <2>4, <2>5, <2>6 DEF Tells
  <2>8. Later(run, run')
    BY <1>0, <2>2, <2>6 DEF Later
  <2> QED BY <1>0, <2>2, <2>3, <2>4, <2>5, <2>6, <2>7, <2>8, EmitsKeeps
<1>4. CASE ToolStarts(s) \/ ApprovalAsked(s) \/ ToolFinishes(s)
  <2>1. PICK kind \in {"tool", "approval"}, type \in {"running", "done", "waiting"} :
          /\ run[s] = "running" /\ UNCHANGED <<inbox, run, emitted>> /\ GateType'
          /\ \A t \in Sends : t # s => called'[t] = called[t]
          /\ (kind = "approval") = (type = "waiting")
          /\ Emits(kind, Happening(type, s, 0))
    <3>1. CASE ToolStarts(s)
      BY <1>0, <3>1 DEF ToolStarts, GateType, Calls
    <3>2. CASE ApprovalAsked(s)
      BY <1>0, <3>2 DEF ApprovalAsked, GateType, Calls
    <3>3. CASE ToolFinishes(s)
      BY <1>0, <3>3 DEF ToolFinishes, GateType, Calls
    <3> QED BY <1>4, <3>1, <3>2, <3>3
  <2>2. PICK item : item = Happening(type, s, 0)
    OBVIOUS
  <2>3. item \in Items /\ item.run = s /\ item.type = type
    BY <1>0, <2>2 DEF Items, ToolStates, Over
  <2>4. Tells([kind |-> kind, item |-> item, gap |-> hole], run')
    BY <2>1, <2>3 DEF Tells
  <2>5. Later(run, run')
    BY <2>1 DEF Later
  <2> QED BY <2>1, <2>2, <2>3, <2>4, <2>5, EmitsKeeps
<1>5. CASE AnswerSend(s) \/ AnswerWait(s) \/ AnswerList(s) \/ \E kind \in {"reply", "no reply"} : AnswerHistory(s, kind)
  <2>1. PICK op \in {"send", "wait", "list", "history"},
             kind \in {"accepted", "wait over", "wait failed", "reply", "no reply", "pending", "refused"} :
          Answers(op, s, kind) /\ called' = called /\ (kind \in {"wait over", "wait failed"} => run[s] \in Ends)
    <3>1. CASE AnswerSend(s)
      BY <3>1 DEF AnswerSend
    <3>2. CASE AnswerWait(s)
      <4>1. CASE run[s] = "final"
        BY <3>2, <4>1 DEF AnswerWait
      <4>2. CASE run[s] # "final"
        BY <3>2, <4>2 DEF AnswerWait
      <4> QED BY <4>1, <4>2
    <3>3. CASE AnswerList(s)
      <4>1. CASE Asked(s)
        BY <3>3, <4>1 DEF AnswerList
      <4>2. CASE ~Asked(s)
        BY <3>3, <4>2 DEF AnswerList
      <4> QED BY <4>1, <4>2
    <3>4. CASE \E kind \in {"reply", "no reply"} : AnswerHistory(s, kind)
      BY <3>4 DEF AnswerHistory
    <3> QED BY <1>5, <3>1, <3>2, <3>3, <3>4
  <2>2. [kind |-> kind, run |-> s] \in AnswerFrames
    BY DEF AnswerFrames
  <2>3. Tells([kind |-> kind, run |-> s], run)
    BY <2>1 DEF Tells
  <2> QED BY <2>1, <2>2, <2>3, AnswersKeeps
<1>6. CASE \E d \in {"allow", "deny"} : AnswerResolve(s, d)
  <2>1. PICK d \in {"allow", "deny"} : AnswerResolve(s, d)
    BY <1>6
  <2>2. PICK kind : kind = (IF Asked(s) THEN d ELSE "refused")
    OBVIOUS
  <2>3. Answers(d, s, kind) /\ kind \in {"allow", "deny", "refused"}
    BY <2>1, <2>2 DEF AnswerResolve
  <2>4. UNCHANGED <<run, emitted>>
    BY <2>3 DEF Answers
  <2>5. called' = called \/ (GateType' /\ run[s] = "running" /\ \A t \in Sends : t # s => called'[t] = called[t])
    BY <1>0, <2>1, <2>4 DEF AnswerResolve, Asked, GateType, Calls
  <2>6. [kind |-> kind, run |-> s] \in AnswerFrames /\ Tells([kind |-> kind, run |-> s], run)
    <3>1. kind # "refused" => s \in ToolRuns
      BY <1>0, <2>2 DEF Asked
    <3> QED BY <2>3, <3>1 DEF AnswerFrames, Tells
  <2> QED BY <2>3, <2>5, <2>6, AnswersKeeps
<1> QED BY <1>1, <1>2, <1>3, <1>4, <1>5, <1>6 DEF GatewayNext

-----------------------------------------------------------------------------
(* The client's steps. *)
LEMMA ToStreamsIs ==
  ASSUME Ending, NEW e \in Items, e.type \in Ends => run[e.run] = e.type, ToStreams(e)
  PROVE  /\ StreamType'
         /\ \A s \in Sends : /\ Shaped(stream'[s]) /\ Fits(stream'[s], s, run)
                             /\ (stream'[s].stage = "idle") = (stream[s].stage = "idle")
<1>1. ASSUME NEW s \in Sends
      PROVE  /\ stream'[s] \in Streams /\ Shaped(stream'[s]) /\ Fits(stream'[s], s, run)
             /\ (stream'[s].stage = "idle") = (stream[s].stage = "idle")
  <2>1. stream[s] \in Streams /\ Shaped(stream[s]) /\ Fits(stream[s], s, run)
    BY DEF Ending, StreamType
  <2>2. PICK st : st = stream[s]
    OBVIOUS
  <2>3. stream'[s] = Enqueued(st, s, e)
    BY <2>2 DEF ToStreams
  <2> QED BY <2>1, <2>2, <2>3, EnqueuedFits
<1>2. StreamType'
  BY <1>1 DEF ToStreams, StreamType
<1> QED BY <1>1, <1>2

\* A happening of a tool.
LEMMA ToolItem ==
  ASSUME StreamAssumption, NEW s \in Sends, NEW state \in ToolStates
  PROVE  /\ Happening(state, s, 0) \in Items /\ Happening(state, s, 0).type = state
         /\ Happening(state, s, 0).run = s /\ state \notin Ends
BY ItemTypes DEF StreamAssumption, Happening, Items

LEMMA ToWatchIs ==
  ASSUME WatchType, NEW e \in Items, ToWatch(e), denied' \subseteq ToolRuns
  PROVE  WatchType'
<1>1. e.run \in Sends
  BY DEF Items
<1> QED BY <1>1 DEF ToWatch, WatchType

LEMMA ClearedIs ==
  ASSUME TraceType, NEW s \in Sends
  PROVE  Cleared(traced[s]) \in Traces
BY DEF TraceType, Traces, Cleared, Untraced, ToolStates

LEMMA AsksIs ==
  ASSUME AskType, NEW s \in Sends, NEW op \in {"send", "abort", "wait", "history", "list", "allow", "deny"}, Asks(op, s)
  PROVE  /\ AskType'
         /\ op # "send" => \A t \in Sends : [op |-> "send", run |-> t] \in inbox' => [op |-> "send", run |-> t] \in inbox
BY DEF AskType, Asks, Requests

\* A frame is taken from the wire.
LEMMA TakenKeeps ==
  ASSUME StreamAssumption, Ending, wire # <<>>, Taken, UNCHANGED links, link' \in {"up", "gap", "down"}, observed' \in BOOLEAN,
         AskType', TraceType', WatchType', StreamType',
         \A s \in Sends : /\ Shaped(stream'[s]) /\ Fits(stream'[s], s, run)
                          /\ stream'[s].stage = "idle" =>
                               /\ stream[s].stage = "idle"
                               /\ [op |-> "send", run |-> s] \in inbox' => [op |-> "send", run |-> s] \in inbox
  PROVE  Ending'
<1>1. WireType /\ MaxWire \in Nat /\ wire' = Tail(wire)
  BY DEF Ending, StreamAssumption, Taken
<1>2. WireType' /\ \A i \in DOMAIN wire' : i + 1 \in DOMAIN wire /\ wire'[i] = wire[i + 1]
  BY <1>1, WireTaken
<1>3. LinkType' /\ UNCHANGED gatewayVars
  BY DEF Ending, LinkType, Taken
<1> QED BY <1>2, <1>3, ClientKeeps

LEMMA HeadIs ==
  ASSUME StreamAssumption, Ending, wire # <<>>
  PROVE  /\ Head(wire) \in Frames /\ Tells(Head(wire), run)
         /\ IsEvent(Head(wire)) => Head(wire).item \in Items /\ Head(wire).item.run \in Sends
         /\ ~IsEvent(Head(wire)) => Head(wire).run \in Sends
<1>1. Head(wire) \in Frames /\ Head(wire) = wire[1] /\ 1 \in DOMAIN wire
  BY DEF Ending, WireType
<1>2. Tells(Head(wire), run)
  BY <1>1 DEF Ending, FramesAreTrue
<1>3. PICK f : f = Head(wire)
  OBVIOUS
<1> QED BY <1>1, <1>2, <1>3, FrameKinds

LEMMA StreamsStay ==
  ASSUME Ending, UNCHANGED stream
  PROVE  /\ StreamType'
         /\ \A s \in Sends : /\ Shaped(stream'[s]) /\ Fits(stream'[s], s, run)
                             /\ (stream'[s].stage = "idle") = (stream[s].stage = "idle")
BY DEF Ending, StreamType

LEMMA EventEnding ==
  ASSUME StreamAssumption, Ending, EventDropped \/ ChatFrame \/ ToolFrame \/ ApprovalFrame
  PROVE  Ending'
<1>0. AskType /\ TraceType /\ WatchType /\ LinkType /\ traced \in [Sends -> Traces]
  BY DEF Ending, TraceType
<1>1. CASE EventDropped
  <2>1. /\ wire # <<>> /\ Taken /\ UNCHANGED <<links, observed, inbox, stream, watch>>
        /\ link' \in {"up", "gap", "down"} /\ denied' \subseteq ToolRuns /\ TraceType'
    <3>1. Untraced \in Traces
      BY DEF Untraced, Traces, ToolStates
    <3> QED BY <1>0, <1>1, <3>1 DEF EventDropped, WatchType, TraceType, LinkType
  <2>2. AskType' /\ WatchType' /\ observed' \in BOOLEAN
    BY <1>0, <2>1 DEF AskType, WatchType, LinkType
  <2> QED BY <2>1, <2>2, StreamsStay, TakenKeeps
<1>2. CASE ChatFrame
  <2>1. PICK e : e = Head(wire).item
    OBVIOUS
  <2>2. /\ wire # <<>> /\ Head(wire).kind = "chat" /\ ToStreams(e) /\ observed' = TRUE /\ Taken
        /\ UNCHANGED <<link, links, inbox, watch, denied>>
        /\ traced' = IF e.type \in Ends /\ Listening THEN [traced EXCEPT ![e.run] = Cleared(traced[e.run])] ELSE traced
    BY <1>2, <2>1 DEF ChatFrame, Event, Arrives
  <2>3. e \in Items /\ e.run \in Sends /\ (e.type \in Ends => run[e.run] = e.type)
    BY <2>1, <2>2, HeadIs DEF IsEvent, Tells
  <2>4. Cleared(traced[e.run]) \in Traces
    BY <1>0, <2>3, ClearedIs
  <2>5. TraceType'
    BY <1>0, <2>2, <2>4 DEF TraceType
  <2>6. AskType' /\ WatchType' /\ link' \in {"up", "gap", "down"} /\ observed' \in BOOLEAN
    BY <1>0, <2>2 DEF AskType, WatchType, LinkType
  <2> QED BY <2>2, <2>3, <2>5, <2>6, ToStreamsIs, TakenKeeps
<1>3. CASE ToolFrame
  <2>1. PICK f : f = Head(wire)
    OBVIOUS
  <2>2. PICK state : state = Recorded(traced[f.item.run], f.item.type)
    OBVIOUS
  <2>3. /\ wire # <<>> /\ f.kind = "tool" /\ observed' = TRUE /\ Taken /\ UNCHANGED <<link, links, inbox, denied>>
        /\ \/ UNCHANGED <<stream, traced, watch>>
           \/ /\ traced' = [traced EXCEPT ![f.item.run].tool = state]
              /\ ToStreams(Happening(state, f.item.run, 0)) /\ ToWatch(Happening(state, f.item.run, 0))
    BY <1>3, <2>1, <2>2 DEF ToolFrame, Event, Arrives
  <2>4. f.item.run \in Sends /\ f.item.type \in {"running", "done"}
    BY <2>1, <2>3, HeadIs DEF IsEvent, Tells
  <2>5. state \in ToolStates
    BY <2>2, <2>4 DEF Recorded, ToolStates, Over
  <2>6. AskType' /\ link' \in {"up", "gap", "down"} /\ observed' \in BOOLEAN
    BY <1>0, <2>3 DEF AskType, LinkType
  <2>7. PICK e : e = Happening(state, f.item.run, 0)
    OBVIOUS
  <2>8. e \in Items /\ (e.type \in Ends => run[e.run] = e.type)
    BY <2>4, <2>5, <2>7, ToolItem
  <2>9. CASE UNCHANGED <<stream, traced, watch>>
    <3>1. TraceType' /\ WatchType'
      BY <1>0, <2>3, <2>9 DEF TraceType, WatchType
    <3> QED BY <2>3, <2>6, <2>9, <3>1, StreamsStay, TakenKeeps
  <2>10. CASE /\ traced' = [traced EXCEPT ![f.item.run].tool = state] /\ ToStreams(e) /\ ToWatch(e)
    <3>1. TraceType'
      BY <1>0, <2>4, <2>5, <2>10 DEF TraceType, Traces
    <3>2. denied' \subseteq ToolRuns
      BY <1>0, <2>3 DEF WatchType
    <3>3. WatchType'
      BY <1>0, <2>8, <2>10, <3>2, ToWatchIs
    <3> QED BY <2>3, <2>6, <2>8, <2>10, <3>1, <3>3, ToStreamsIs, TakenKeeps
  <2> QED BY <2>3, <2>7, <2>9, <2>10
<1>4. CASE ApprovalFrame
  <2>1. PICK f : f = Head(wire)
    OBVIOUS
  <2>2. PICK pauses \in BOOLEAN : pauses = (traced[f.item.run].tool \notin Over \cup {"none"})
    OBVIOUS
  <2>3. /\ wire # <<>> /\ f.kind = "approval" /\ observed' = TRUE /\ Taken /\ UNCHANGED <<link, links, inbox, denied>>
        /\ \/ UNCHANGED <<stream, traced, watch>>
           \/ /\ traced' = [traced EXCEPT ![f.item.run].seen = TRUE, ![f.item.run].request = TRUE,
                              ![f.item.run].indexed = TRUE, ![f.item.run].tool = IF pauses THEN "waiting" ELSE @]
              /\ IF pauses THEN ToStreams(Happening("waiting", f.item.run, 0)) /\ ToWatch(Happening("waiting", f.item.run, 0))
                 ELSE UNCHANGED <<stream, watch>>
    BY <1>4, <2>1, <2>2 DEF ApprovalFrame, Event, Arrives
  <2>4. f.item.run \in Sends
    BY <2>1, <2>3, HeadIs DEF IsEvent
  <2>5. AskType' /\ link' \in {"up", "gap", "down"} /\ observed' \in BOOLEAN /\ denied' \subseteq ToolRuns
    BY <1>0, <2>3 DEF AskType, LinkType, WatchType
  <2>6. PICK state : state = "waiting"
    OBVIOUS
  <2>7. state \in ToolStates
    BY <2>6 DEF ToolStates
  <2>8. PICK e : e = Happening(state, f.item.run, 0)
    OBVIOUS
  <2>9. e \in Items /\ (e.type \in Ends => run[e.run] = e.type)
    BY <2>4, <2>7, <2>8, ToolItem
  <2>10. TraceType'
    <3>1. CASE UNCHANGED traced
      BY <1>0, <3>1 DEF TraceType
    <3>2. CASE traced' = [traced EXCEPT ![f.item.run].seen = TRUE, ![f.item.run].request = TRUE,
                            ![f.item.run].indexed = TRUE, ![f.item.run].tool = IF pauses THEN "waiting" ELSE @]
      <4>1. PICK t : t = f.item.run
        OBVIOUS
      <4>2. PICK x : x = [traced[t] EXCEPT !.seen = TRUE, !.request = TRUE, !.indexed = TRUE,
                                           !.tool = IF pauses THEN "waiting" ELSE @]
        OBVIOUS
      <4>3. t \in Sends /\ traced[t] \in Traces
        BY <1>0, <2>4, <4>1
      <4>4. x \in Traces
        BY <4>2, <4>3 DEF Traces, ToolStates
      <4>5. traced' = [traced EXCEPT ![t] = x]
        BY <1>0, <3>2, <4>1, <4>2, <4>3
      <4> QED BY <1>0, <4>3, <4>4, <4>5 DEF TraceType
    <3> QED BY <2>3, <3>1, <3>2
  <2>11. CASE UNCHANGED <<stream, watch>>
    <3>1. WatchType'
      BY <1>0, <2>3, <2>11 DEF WatchType
    <3> QED BY <2>3, <2>5, <2>10, <2>11, <3>1, StreamsStay, TakenKeeps
  <2>12. CASE ToStreams(e) /\ ToWatch(e)
    <3>1. WatchType'
      BY <1>0, <2>5, <2>9, <2>12, ToWatchIs
    <3> QED BY <2>3, <2>5, <2>9, <2>10, <2>12, <3>1, ToStreamsIs, TakenKeeps
  <2> QED BY <2>3, <2>6, <2>8, <2>11, <2>12
<1> QED BY <1>1, <1>2, <1>3, <1>4

LEMMA SupplyIs ==
  ASSUME StreamAssumption, Ending, NEW s \in Sends, NEW end \in Ends, Supplies(s, end),
         stream[s].recovery # "off", end # "aborted", end = "final" => run[s] \in Ends
  PROVE  /\ StreamType' /\ TraceType'
         /\ \A t \in Sends : /\ Shaped(stream'[t]) /\ Fits(stream'[t], t, run)
                             /\ (stream'[t].stage = "idle") = (stream[t].stage = "idle")
<1> DEFINE e == Happening(end, s, 0)
<1>1. e \in Items /\ e.type = end
  BY DEF StreamAssumption, Happening, Items
<1> HIDE DEF e
<1>2. stream[s] \in Streams /\ Shaped(stream[s]) /\ Fits(stream[s], s, run) /\ stream \in [Sends -> Streams]
  BY DEF Ending, StreamType
<1>3. stream[s].stage = "open"
  BY <1>2 DEF Shaped
<1>4. PICK st : st = stream[s]
  OBVIOUS
<1>5. stream' = [stream EXCEPT ![s] = Enqueued(st, s, e)] /\ traced' = [traced EXCEPT ![s] = Cleared(traced[s])]
  BY <1>4 DEF Supplies, e
<1>6. /\ Enqueued(st, s, e) \in Streams /\ Shaped(Enqueued(st, s, e)) /\ Fits(Enqueued(st, s, e), s, run)
      /\ (Enqueued(st, s, e).stage = "idle") = (st.stage = "idle")
  BY <1>1, <1>2, <1>3, <1>4, EnqueuedFits
<1>7. PICK q : q = Enqueued(st, s, e)
  OBVIOUS
<1>8. ASSUME NEW t \in Sends
      PROVE  /\ Shaped(stream'[t]) /\ Fits(stream'[t], t, run)
             /\ (stream'[t].stage = "idle") = (stream[t].stage = "idle")
  <2>1. CASE t = s
    BY <1>2, <1>4, <1>5, <1>6, <2>1
  <2>2. CASE t # s
    BY <1>2, <1>5, <2>2 DEF Ending
  <2> QED BY <2>1, <2>2
<1>9. TraceType'
  <2>1. Cleared(traced[s]) \in Traces
    BY ClearedIs DEF Ending
  <2> QED BY <1>5, <2>1 DEF Ending, TraceType
<1>10. StreamType'
  BY <1>2, <1>5, <1>6 DEF StreamType
<1> QED BY <1>8, <1>9, <1>10

\* One stream takes another form, the others stay.
LEMMA OneStream ==
  ASSUME Ending, NEW s \in Sends, NEW q \in Streams, Shaped(q), Fits(q, s, run), stream' = [stream EXCEPT ![s] = q],
         q.stage # "idle"
  PROVE  /\ StreamType'
         /\ \A t \in Sends : /\ Shaped(stream'[t]) /\ Fits(stream'[t], t, run)
                             /\ stream'[t].stage = "idle" => stream[t].stage = "idle"
<1>1. stream \in [Sends -> Streams]
  BY DEF Ending, StreamType
<1>2. ASSUME NEW t \in Sends
      PROVE  /\ Shaped(stream'[t]) /\ Fits(stream'[t], t, run)
             /\ stream'[t].stage = "idle" => stream[t].stage = "idle"
  <2>1. CASE t = s
    BY <1>1, <2>1
  <2>2. CASE t # s
    BY <1>1, <2>2 DEF Ending
  <2> QED BY <2>1, <2>2
<1>3. StreamType'
  BY <1>1 DEF StreamType
<1> QED BY <1>2, <1>3

\* A stream that ends in the client, or is yet to be opened.
LEMMA ClosedIs ==
  ASSUME NEW s, NEW r, NEW st \in Streams, Shaped(st), Fits(st, s, r), NEW stage \in Stages \ {"sent", "open", "idle"},
         st.stage \notin {"ended", "failed"},
         NEW q, q \in Streams, q.stage = stage, q.buffer = <<>>, q.recovery = "off", q.shown = st.shown, q.tool = st.tool
  PROVE  Shaped(q) /\ Fits(q, s, r)
<1>1. DOMAIN q.buffer = {}
  BY DEF Streams
<1>2. Shaped(q)
  BY DEF Shaped, Stages, Live
<1>3. Fits(q, s, r)
  BY <1>1 DEF Fits
<1> QED BY <1>2, <1>3

LEMMA AnswerEnding ==
  ASSUME StreamAssumption, Ending,
         Accepted \/ WaitAnswered \/ HistoryAnswered \/ Listed \/ Refused \/ Resolved
  PROVE  Ending'
<1>0. /\ AskType /\ TraceType /\ WatchType /\ LinkType /\ traced \in [Sends -> Traces] /\ stream \in [Sends -> Streams]
      /\ \A s \in Sends : stream[s] \in Streams /\ Shaped(stream[s]) /\ Fits(stream[s], s, run)
  BY DEF Ending, TraceType, StreamType
<1>a. wire # <<>> /\ Taken
  BY DEF Accepted, WaitAnswered, HistoryAnswered, Listed, Refused, Resolved, Arrives
<1>b. UNCHANGED <<linkVars, watch>> => links' = links /\ link' \in {"up", "gap", "down"} /\ observed' \in BOOLEAN
  BY <1>0 DEF linkVars, LinkType
<1>c. UNCHANGED <<watch, denied>> => WatchType'
  BY <1>0 DEF WatchType
<1>d. UNCHANGED inbox => AskType'
  BY <1>0 DEF AskType
<1>e. UNCHANGED traced => TraceType'
  BY <1>0 DEF TraceType
<1>1. CASE Accepted
  <2>1. PICK s : s = About
    OBVIOUS
  <2>2. s \in Sends
    BY <1>1, <1>a, <2>1, HeadIs DEF Accepted, Arrives, About, IsEvent
  <2>3. UNCHANGED <<linkVars, watch, denied>>
    BY <1>1 DEF Accepted
  <2>4. PICK st : st = stream[s]
    OBVIOUS
  <2>5. CASE /\ st.stage = "sent" /\ stream' = [stream EXCEPT ![s] = Opened(st, s)]
             /\ (Asks("wait", s) \/ UNCHANGED inbox)
             /\ traced' = IF Opened(st, s).stage = "ended" THEN [traced EXCEPT ![s] = Cleared(traced[s])] ELSE traced
    <3>1. Ready(st) /\ Fits(st, s, run)
      BY <1>0, <2>2, <2>4, <2>5 DEF Ready
    <3>2. PICK q : q = Opened(st, s)
      OBVIOUS
    <3>3. q \in Streams /\ Shaped(q) /\ Fits(q, s, run) /\ q.stage \in {"open", "ended"}
      BY <2>2, <3>1, <3>2, OpenedIs
    <3>4. /\ StreamType'
          /\ \A t \in Sends : /\ Shaped(stream'[t]) /\ Fits(stream'[t], t, run)
                              /\ stream'[t].stage = "idle" => stream[t].stage = "idle"
      BY <2>2, <2>5, <3>2, <3>3, OneStream
    <3>5. Cleared(traced[s]) \in Traces
      BY <1>0, <2>2, ClearedIs
    <3>6. TraceType'
      BY <1>0, <2>5, <3>5 DEF TraceType
    <3>7. PICK op \in {"send", "abort", "wait", "history", "list", "allow", "deny"} : op = "wait"
      OBVIOUS
    <3>8. AskType' /\ \A t \in Sends : [op |-> "send", run |-> t] \in inbox' => [op |-> "send", run |-> t] \in inbox
      <4>1. CASE Asks("wait", s)
        BY <1>0, <2>2, <3>7, <4>1, AsksIs
      <4>2. CASE UNCHANGED inbox
        BY <1>d, <4>2
      <4> QED BY <2>5, <4>1, <4>2
    <3> QED BY <1>a, <1>b, <1>c, <2>3, <3>4, <3>6, <3>8, TakenKeeps
  <2>6. CASE /\ st.stage = "cancelling" /\ stream' = [stream EXCEPT ![s].stage = "cancelled"]
             /\ (Asks("abort", s) \/ UNCHANGED inbox) /\ UNCHANGED traced
    <3>1. PICK q : q = [st EXCEPT !.stage = "cancelled"]
      OBVIOUS
    <3>2. /\ q \in Streams /\ q.stage = "cancelled" /\ q.shown = st.shown /\ q.tool = st.tool
          /\ q.buffer = <<>> /\ q.recovery = "off"
      BY <1>0, <2>2, <2>4, <2>6, <3>1 DEF Streams, Stages, Shaped
    <3>3. PICK stage \in Stages \ {"sent", "open", "idle"} : stage = "cancelled"
      BY DEF Stages
    <3>4. Shaped(q) /\ Fits(q, s, run)
      BY <1>0, <2>2, <2>4, <2>6, <3>2, <3>3, ClosedIs
    <3>5. stream' = [stream EXCEPT ![s] = q]
      BY <1>0, <2>2, <2>4, <2>6, <3>1
    <3>6. /\ StreamType'
          /\ \A t \in Sends : /\ Shaped(stream'[t]) /\ Fits(stream'[t], t, run)
                              /\ stream'[t].stage = "idle" => stream[t].stage = "idle"
      BY <2>2, <3>2, <3>4, <3>5, OneStream
    <3>7. PICK op \in {"send", "abort", "wait", "history", "list", "allow", "deny"} : op = "abort"
      OBVIOUS
    <3>8. AskType' /\ \A t \in Sends : [op |-> "send", run |-> t] \in inbox' => [op |-> "send", run |-> t] \in inbox
      <4>1. CASE Asks("abort", s)
        BY <1>0, <2>2, <3>7, <4>1, AsksIs
      <4>2. CASE UNCHANGED inbox
        BY <1>d, <4>2
      <4> QED BY <2>6, <4>1, <4>2
    <3> QED BY <1>a, <1>b, <1>c, <1>e, <2>3, <2>6, <3>6, <3>8, TakenKeeps
  <2>7. CASE UNCHANGED <<stream, inbox, traced>>
    BY <1>a, <1>b, <1>c, <1>d, <1>e, <2>3, <2>7, StreamsStay, TakenKeeps
  <2> QED BY <1>1, <2>1, <2>4, <2>5, <2>6, <2>7 DEF Accepted
<1>2. CASE WaitAnswered
  <2>1. PICK f : f = Head(wire)
    OBVIOUS
  <2>2. PICK s : s = f.run
    OBVIOUS
  <2>3. f.kind \in {"wait over", "wait failed"} /\ s \in Sends /\ run[s] \in Ends
    BY <1>2, <1>a, <2>1, <2>2, HeadIs DEF WaitAnswered, Arrives, IsEvent, Tells
  <2>4. UNCHANGED <<linkVars, traced, watch, denied>>
    BY <1>2 DEF WaitAnswered
  <2>5. CASE UNCHANGED <<stream, inbox>>
    BY <1>a, <1>b, <1>c, <1>d, <1>e, <2>4, <2>5, StreamsStay, TakenKeeps
  <2>6. PICK recovery \in {"history", "failed"} : recovery = (IF f.kind = "wait over" THEN "history" ELSE "failed")
    OBVIOUS
  <2>7. CASE /\ stream[s].recovery = "wait" /\ stream' = [stream EXCEPT ![s].recovery = recovery]
             /\ Asks("history", s)
    <3>1. PICK st : st = stream[s]
      OBVIOUS
    <3>2. PICK q : q = [st EXCEPT !.recovery = recovery]
      OBVIOUS
    <3>3. st \in Streams /\ Shaped(st) /\ Fits(st, s, run) /\ st.stage = "open"
      BY <1>0, <2>3, <2>7, <3>1 DEF Shaped
    <3>4. /\ q \in Streams /\ q.stage = "open" /\ q.buffer = st.buffer /\ q.shown = st.shown
      BY <3>2, <3>3 DEF Streams
    <3>5. Shaped(q)
      BY <3>3, <3>4 DEF Shaped
    <3>6. Fits(q, s, run)
      BY <2>3, <3>3, <3>4 DEF Fits
    <3>7. stream' = [stream EXCEPT ![s] = q]
      BY <1>0, <2>3, <2>7, <3>1, <3>2
    <3>8. /\ StreamType'
          /\ \A t \in Sends : /\ Shaped(stream'[t]) /\ Fits(stream'[t], t, run)
                              /\ stream'[t].stage = "idle" => stream[t].stage = "idle"
      BY <2>3, <3>4, <3>5, <3>6, <3>7, OneStream
    <3>9. PICK op \in {"send", "abort", "wait", "history", "list", "allow", "deny"} : op = "history"
      OBVIOUS
    <3>10. AskType' /\ \A t \in Sends : [op |-> "send", run |-> t] \in inbox' => [op |-> "send", run |-> t] \in inbox
      BY <1>0, <2>3, <2>7, <3>9, AsksIs
    <3> QED BY <1>a, <1>b, <1>c, <1>e, <2>4, <3>8, <3>10, TakenKeeps
  <2> QED BY <1>2, <2>1, <2>2, <2>5, <2>6, <2>7 DEF WaitAnswered, About
<1>3. CASE HistoryAnswered
  <2>1. PICK s : s = About
    OBVIOUS
  <2>2. s \in Sends
    BY <1>3, <1>a, <2>1, HeadIs DEF HistoryAnswered, Arrives, About, IsEvent
  <2>3. UNCHANGED <<linkVars, inbox, watch, denied>>
    BY <1>3 DEF HistoryAnswered
  <2>4. CASE UNCHANGED <<stream, traced>>
    BY <1>a, <1>b, <1>c, <1>d, <1>e, <2>3, <2>4, StreamsStay, TakenKeeps
  <2>5. CASE /\ stream[s].recovery \in {"history", "failed"}
             /\ Supplies(s, IF Head(wire).kind = "reply" THEN "final" ELSE "error")
    <3>1. PICK end \in Ends : end = (IF Head(wire).kind = "reply" THEN "final" ELSE "error")
      BY DEF Ends
    <3>2. run[s] \in Ends
      BY <1>0, <2>2, <2>5 DEF Fits
    <3>3. Supplies(s, end) /\ stream[s].recovery # "off" /\ end # "aborted"
      BY <2>5, <3>1
    <3>4. /\ StreamType' /\ TraceType'
          /\ \A t \in Sends : /\ Shaped(stream'[t]) /\ Fits(stream'[t], t, run)
                              /\ (stream'[t].stage = "idle") = (stream[t].stage = "idle")
      BY <2>2, <3>2, <3>3, SupplyIs
    <3> QED BY <1>a, <1>b, <1>c, <1>d, <2>3, <3>4, TakenKeeps
  <2> QED BY <1>3, <2>1, <2>4, <2>5 DEF HistoryAnswered
<1>4. CASE Listed
  <2>1. PICK s : s = About
    OBVIOUS
  <2>2. s \in Sends
    BY <1>4, <1>a, <2>1, HeadIs DEF Listed, Arrives, About, IsEvent
  <2>3. /\ UNCHANGED <<linkVars, inbox, stream, watch, denied>>
        /\ traced' = [traced EXCEPT ![s].request = TRUE, ![s].indexed = TRUE]
    BY <1>4, <2>1 DEF Listed
  <2>4. TraceType'
    BY <1>0, <2>2, <2>3 DEF TraceType, Traces
  <2> QED BY <1>a, <1>b, <1>c, <1>d, <2>3, <2>4, StreamsStay, TakenKeeps
<1>5. CASE Refused
  <2>1. UNCHANGED <<linkVars, inbox, clientVars>>
    BY <1>5 DEF Refused
  <2>2. UNCHANGED <<stream, traced, watch, denied>>
    BY <2>1 DEF clientVars
  <2> QED BY <1>a, <1>b, <1>c, <1>d, <1>e, <2>1, <2>2, StreamsStay, TakenKeeps
<1>6. CASE Resolved
  <2>1. PICK f : f = Head(wire)
    OBVIOUS
  <2>2. PICK s : s = f.run
    OBVIOUS
  <2>3. f.kind \in {"allow", "deny"} /\ s \in Sends
    BY <1>6, <1>a, <2>1, <2>2, HeadIs DEF Resolved, Arrives, IsEvent
  <2>4. PICK state : state = (IF f.kind = "deny" THEN "cancelled" ELSE "running")
    OBVIOUS
  <2>5. PICK tracked \in BOOLEAN : tracked = (traced[s].tool \notin Over \cup {"none"})
    OBVIOUS
  <2>6. /\ UNCHANGED <<linkVars, inbox>>
        /\ traced' = IF ~traced[s].request THEN traced
                     ELSE [traced EXCEPT ![s].request = FALSE, ![s].decision = f.kind,
                                         ![s].tool = IF tracked THEN state ELSE @]
        /\ \/ ToStreams(Happening(state, s, 0)) /\ ToWatch(Happening(state, s, 0))
           \/ UNCHANGED <<stream, watch>>
        /\ denied' = IF f.kind = "deny" /\ link = "up" THEN denied \cup {s} ELSE denied
    BY <1>6, <2>1, <2>2, <2>4, <2>5 DEF Resolved, About
  <2>7. state \in ToolStates
    BY <2>4 DEF ToolStates, Over
  <2>8. PICK e : e = Happening(state, s, 0)
    OBVIOUS
  <2>9. e \in Items /\ (e.type \in Ends => run[e.run] = e.type)
    BY <2>3, <2>7, <2>8, ToolItem
  <2>10. TraceType'
    <3>1. CASE traced' = traced
      BY <1>e, <3>1
    <3>2. CASE traced' = [traced EXCEPT ![s].request = FALSE, ![s].decision = f.kind,
                                         ![s].tool = IF tracked THEN state ELSE @]
      <4>1. PICK x : x = [traced[s] EXCEPT !.request = FALSE, !.decision = f.kind, !.tool = IF tracked THEN state ELSE @]
        OBVIOUS
      <4>2. x \in Traces
        BY <1>0, <2>3, <2>7, <4>1 DEF Traces
      <4>3. traced' = [traced EXCEPT ![s] = x]
        BY <1>0, <2>3, <3>2, <4>1
      <4> QED BY <1>0, <4>2, <4>3 DEF TraceType
    <3> QED BY <2>6, <3>1, <3>2
  <2>11. denied' \subseteq ToolRuns
    <3>1. s \in ToolRuns
      BY <1>a, <2>1, <2>2, <2>3, HeadIs DEF Tells
    <3> QED BY <1>0, <2>6, <3>1 DEF WatchType
  <2>12. CASE UNCHANGED <<stream, watch>>
    <3>1. WatchType'
      BY <1>0, <2>11, <2>12 DEF WatchType
    <3> QED BY <1>a, <1>b, <1>d, <1>0, <2>6, <2>10, <2>12, <3>1, StreamsStay, TakenKeeps DEF linkVars, LinkType
  <2>13. CASE ToStreams(e) /\ ToWatch(e)
    <3>1. WatchType'
      BY <1>0, <2>9, <2>11, <2>13, ToWatchIs
    <3> QED BY <1>a, <1>0, <1>d, <2>6, <2>9, <2>10, <2>13, <3>1, ToStreamsIs, TakenKeeps DEF linkVars, LinkType
  <2> QED BY <2>6, <2>8, <2>12, <2>13
<1> QED BY <1>1, <1>2, <1>3, <1>4, <1>5, <1>6

\* A step of the window: the wire and the link are as they were.
LEMMA WindowKeeps ==
  ASSUME StreamAssumption, Ending, UNCHANGED <<linkVars, wire, hole, gatewayVars>>, faults' \in 0 .. MaxFaults,
         AskType', TraceType', WatchType', StreamType',
         \A s \in Sends : /\ Shaped(stream'[s]) /\ Fits(stream'[s], s, run)
                          /\ stream'[s].stage = "idle" =>
                               /\ stream[s].stage = "idle"
                               /\ [op |-> "send", run |-> s] \in inbox' => [op |-> "send", run |-> s] \in inbox
  PROVE  Ending'
<1>1. LinkType' /\ WireType' /\ \A i \in DOMAIN wire' : \E j \in DOMAIN wire : wire'[i] = wire[j]
  BY DEF Ending, LinkType, linkVars, WireType
<1> QED BY <1>1, ClientKeeps

LEMMA WindowEnding ==
  ASSUME StreamAssumption, Ending, NEW s \in Sends, WindowNext(s)
  PROVE  Ending'
<1>0. /\ AskType /\ TraceType /\ WatchType /\ LinkType /\ traced \in [Sends -> Traces] /\ stream \in [Sends -> Streams]
      /\ stream[s] \in Streams /\ Shaped(stream[s]) /\ Fits(stream[s], s, run)
  BY DEF Ending, TraceType, StreamType
<1>a. UNCHANGED faults => faults' \in 0 .. MaxFaults
  BY <1>0 DEF LinkType
<1>b. Fault => faults' \in 0 .. MaxFaults
  BY <1>0, FaultIs
<1>c. UNCHANGED <<watch, denied>> => WatchType'
  BY <1>0 DEF WatchType
<1>d. UNCHANGED inbox => AskType'
  BY <1>0 DEF AskType
<1>e. UNCHANGED traced => TraceType'
  BY <1>0 DEF TraceType
<1>f. PICK st : st = stream[s]
  OBVIOUS
<1>1. CASE Send(s)
  <2>1. /\ st.stage = "idle" /\ UNCHANGED <<linkVars, wire, hole, gatewayVars, traced, watch, denied, faults>>
        /\ \/ stream' = [stream EXCEPT ![s].stage = "failed"] /\ UNCHANGED inbox
           \/ stream' = [stream EXCEPT ![s].stage = "sent"] /\ Asks("send", s)
    BY <1>1, <1>f DEF Send
  <2>2. PICK stage \in {"failed", "sent"} : stream' = [stream EXCEPT ![s].stage = stage]
    BY <2>1
  <2>3. PICK q : q = [st EXCEPT !.stage = stage]
    OBVIOUS
  <2>4. st = NoStream
    BY <1>0, <1>f, <2>1 DEF Shaped
  <2>5. q \in Streams /\ q.stage = stage /\ q.shown = <<>> /\ q.buffer = <<>> /\ q.tool = "none" /\ q.recovery = "off"
    <3>1. stage \in Stages /\ st \in Streams
      BY <1>0, <1>f DEF Stages, Live
    <3>2. q \in Streams /\ q.stage = stage /\ q.shown = st.shown /\ q.buffer = st.buffer /\ q.tool = st.tool /\ q.recovery = st.recovery
      BY <2>3, <3>1 DEF Streams
    <3> QED BY <2>4, <3>2 DEF NoStream
  <2>6. DOMAIN q.shown = {} /\ DOMAIN q.buffer = {}
    BY <2>5
  <2>7. Shaped(q) /\ Fits(q, s, run)
    BY <2>5, <2>6 DEF Shaped, Fits
  <2>8. stream' = [stream EXCEPT ![s] = q]
    BY <1>0, <1>f, <2>2, <2>3
  <2>9. /\ StreamType'
        /\ \A t \in Sends : /\ Shaped(stream'[t]) /\ Fits(stream'[t], t, run)
                            /\ stream'[t].stage = "idle" => stream[t].stage = "idle"
    BY <2>5, <2>7, <2>8, OneStream
  <2>10. AskType'
    <3>1. PICK op \in {"send", "abort", "wait", "history", "list", "allow", "deny"} : op = "send"
      OBVIOUS
    <3> QED BY <1>0, <1>d, <2>1, <3>1, AsksIs
  <2>11. ASSUME NEW t \in Sends, stream'[t].stage = "idle"
         PROVE  [op |-> "send", run |-> t] \in inbox' => [op |-> "send", run |-> t] \in inbox
    <3>1. t # s
      BY <1>0, <2>5, <2>8, <2>11
    <3> QED BY <2>1, <3>1 DEF Asks
  <2> QED BY <1>a, <1>c, <1>e, <2>1, <2>9, <2>10, <2>11, WindowKeeps
<1>2. CASE Cancel(s)
  <2>1. /\ st.stage \in Live /\ UNCHANGED <<linkVars, wire, hole, inbox, gatewayVars, watch, denied, faults>>
        /\ stream' = [stream EXCEPT ![s].stage = IF @ = "sent" THEN "cancelling" ELSE "cancelled",
                                    ![s].buffer = <<>>, ![s].recovery = "off"]
        /\ \/ traced' = [traced EXCEPT ![s] = Cleared(traced[s])]
           \/ traced' = traced
    BY <1>2, <1>f DEF Cancel
  <2>2. PICK stage \in Stages \ {"sent", "open", "idle"} : stage = (IF st.stage = "sent" THEN "cancelling" ELSE "cancelled")
    BY DEF Stages
  <2>3. PICK q : q = [st EXCEPT !.stage = stage, !.buffer = <<>>, !.recovery = "off"]
    OBVIOUS
  <2>4. stream' = [stream EXCEPT ![s] = q]
    BY <1>0, <1>f, <2>1, <2>2, <2>3
  <2>5. q \in Streams /\ q.stage = stage /\ q.shown = st.shown /\ q.buffer = <<>> /\ q.tool = st.tool /\ q.recovery = "off"
    <3>1. stage \in Stages /\ st \in Streams /\ <<>> \in Seq(Items)
      BY <1>0, <1>f
    <3> QED BY <2>3, <3>1 DEF Streams
  <2>6. Shaped(q) /\ Fits(q, s, run)
    BY <1>0, <1>f, <2>1, <2>5, ClosedIs DEF Live
  <2>7. /\ StreamType'
        /\ \A t \in Sends : /\ Shaped(stream'[t]) /\ Fits(stream'[t], t, run)
                            /\ stream'[t].stage = "idle" => stream[t].stage = "idle"
    BY <2>4, <2>5, <2>6, OneStream
  <2>8. TraceType'
    <3>1. Cleared(traced[s]) \in Traces
      BY <1>0, ClearedIs
    <3> QED BY <1>0, <2>1, <3>1 DEF TraceType
  <2> QED BY <1>a, <1>c, <1>d, <2>1, <2>7, <2>8, WindowKeeps
<1>3. CASE SendTimesOut(s)
  <2>1. /\ st.stage \in {"sent", "cancelling"} /\ Fault
        /\ UNCHANGED <<linkVars, wire, hole, inbox, gatewayVars, traced, watch, denied>>
        /\ stream' = [stream EXCEPT ![s].stage = IF @ = "sent" THEN "failed" ELSE "cancelled", ![s].buffer = <<>>]
    BY <1>3, <1>f DEF SendTimesOut
  <2>2. PICK stage \in Stages \ {"sent", "open", "idle"} : stage = (IF st.stage = "sent" THEN "failed" ELSE "cancelled")
    BY DEF Stages
  <2>3. PICK q : q = [st EXCEPT !.stage = stage, !.buffer = <<>>]
    OBVIOUS
  <2>4. stream' = [stream EXCEPT ![s] = q]
    BY <1>0, <1>f, <2>1, <2>2, <2>3
  <2>5. q \in Streams /\ q.stage = stage /\ q.shown = st.shown /\ q.buffer = <<>> /\ q.tool = st.tool /\ q.recovery = "off"
    BY <1>0, <1>f, <2>1, <2>3 DEF Streams, Shaped
  <2>6. Shaped(q) /\ Fits(q, s, run)
    BY <1>0, <1>f, <2>1, <2>5, ClosedIs
  <2>7. /\ StreamType'
        /\ \A t \in Sends : /\ Shaped(stream'[t]) /\ Fits(stream'[t], t, run)
                            /\ stream'[t].stage = "idle" => stream[t].stage = "idle"
    BY <2>4, <2>5, <2>6, OneStream
  <2> QED BY <1>b, <1>c, <1>d, <1>e, <2>1, <2>7, WindowKeeps
<1>4. CASE RecoveryFails(s)
  <2>1. /\ stream[s].recovery # "off" /\ Supplies(s, "error") /\ faults' \in 0 .. MaxFaults
        /\ UNCHANGED <<linkVars, wire, hole, inbox, gatewayVars, watch, denied>>
    BY <1>4, <1>a, <1>b DEF RecoveryFails
  <2>2. PICK end \in Ends : end = "error"
    BY DEF Ends
  <2>3. /\ StreamType' /\ TraceType'
        /\ \A t \in Sends : /\ Shaped(stream'[t]) /\ Fits(stream'[t], t, run)
                            /\ (stream'[t].stage = "idle") = (stream[t].stage = "idle")
    BY <2>1, <2>2, SupplyIs
  <2> QED BY <1>c, <1>d, <2>1, <2>3, WindowKeeps
<1>5. CASE Abort(s) \/ ListPending(s) \/ \E d \in {"allow", "deny"} : Resolve(s, d)
  <2>1. PICK op \in {"send", "abort", "wait", "history", "list", "allow", "deny"} :
          op # "send" /\ Asks(op, s) /\ UNCHANGED <<linkVars, wire, hole, gatewayVars, clientVars, faults>>
    BY <1>5 DEF Abort, ListPending, Resolve
  <2>2. AskType' /\ \A t \in Sends : [op |-> "send", run |-> t] \in inbox' => [op |-> "send", run |-> t] \in inbox
    BY <1>0, <2>1, AsksIs
  <2>3. UNCHANGED <<stream, traced, watch, denied>>
    BY <2>1 DEF clientVars
  <2> QED BY <1>a, <1>c, <1>e, <2>1, <2>2, <2>3, StreamsStay, WindowKeeps
<1> QED BY <1>1, <1>2, <1>3, <1>4, <1>5 DEF WindowNext

LEMMA FailedIs ==
  ASSUME StreamAssumption, NEW s \in Sends, NEW r, NEW st \in Streams, Shaped(st), Fits(st, s, r)
  PROVE  /\ Failed(st, s) \in Streams /\ Shaped(Failed(st, s)) /\ Fits(Failed(st, s), s, r)
         /\ (Failed(st, s).stage = "idle") = (st.stage = "idle")
<1> DEFINE q == Failed(st, s)
<1>1. CASE st.stage \in {"sent", "cancelling"}
  <2>1. PICK stage \in Stages \ {"sent", "open", "idle"} : stage = (IF st.stage = "sent" THEN "failed" ELSE "cancelled")
    BY DEF Stages
  <2>2. q \in Streams /\ q.stage = stage /\ q.shown = st.shown /\ q.buffer = <<>> /\ q.tool = st.tool /\ q.recovery = "off"
    BY <1>1, <2>1 DEF Failed, Streams, Shaped
  <2> HIDE DEF q
  <2>3. Shaped(q) /\ Fits(q, s, r)
    BY <1>1, <2>1, <2>2, ClosedIs
  <2> QED BY <1>1, <2>2, <2>3 DEF q
<1>2. CASE st.stage = "open"
  <2> DEFINE e == Happening("error", s, 0)
  <2>1. e \in Items /\ e.type = "error"
    BY DEF Items, Happening, Ends, StreamAssumption
  <2>2. q = [st EXCEPT !.stage = "failed", !.recovery = "off", !.shown = Append(st.shown, e)]
    BY <1>2 DEF Failed
  <2> HIDE DEF e, q
  <2>3. st.shown \in Seq(Items) /\ st.buffer = <<>>
    BY <1>2 DEF Streams, Shaped
  <2>4. q \in Streams /\ q.stage = "failed" /\ q.recovery = "off" /\ q.shown = Append(st.shown, e) /\ q.buffer = <<>>
    <3>1. "failed" \in Stages /\ Append(st.shown, e) \in Seq(Items)
      BY <2>1, <2>3 DEF Stages
    <3>2. PICK stage, shown : stage = "failed" /\ shown = Append(st.shown, e)
      OBVIOUS
    <3>3. q = [st EXCEPT !.stage = stage, !.recovery = "off", !.shown = shown] /\ stage \in Stages /\ shown \in Seq(Items)
      BY <2>2, <3>1, <3>2
    <3>4. q \in Streams /\ q.stage = stage /\ q.recovery = "off" /\ q.shown = shown /\ q.buffer = st.buffer
      BY <3>3 DEF Streams
    <3> QED BY <2>3, <3>2, <3>4
  <2>5. /\ \A i \in DOMAIN q.shown : (i \in DOMAIN st.shown /\ q.shown[i] = st.shown[i])
                                     \/ (i = Len(q.shown) /\ q.shown[i] = e)
        /\ DOMAIN q.buffer = {}
    BY <2>1, <2>3, <2>4
  <2>6. \A i \in DOMAIN st.shown : st.shown[i].type = "delta"
    BY <1>2 DEF Shaped
  <2>7. Shaped(q)
    BY <2>1, <2>4, <2>5, <2>6, ItemTypes DEF Shaped, Ends
  <2>8. Fits(q, s, r)
    BY <2>1, <2>4, <2>5, <2>6 DEF Fits
  <2> QED BY <1>2, <2>4, <2>7, <2>8 DEF q
<1>3. CASE st.stage \notin {"sent", "cancelling", "open"}
  BY <1>3 DEF Failed
<1> QED BY <1>1, <1>2, <1>3

LEMMA LinkEnding ==
  ASSUME StreamAssumption, Ending, SocketCloses \/ Reconnects
  PROVE  Ending'
<1>1. RouterCloses /\ link' \in {"up", "down"} /\ faults' \in 0 .. MaxFaults /\ links' \in 1 .. MaxLinks
  BY FaultIs DEF SocketCloses, Reconnects, Ending, LinkType, StreamAssumption
<1>2. TraceType'
  <2>1. Untraced \in Traces
    BY DEF Untraced, Traces, ToolStates
  <2> QED BY <2>1 DEF SocketCloses, Reconnects, Ending, TraceType
<1>3. /\ wire' = <<>> /\ hole' = FALSE /\ observed' = FALSE /\ inbox' = {} /\ denied' = {}
      /\ stream' = [s \in Sends |-> Failed(stream[s], s)] /\ watch' = [watch EXCEPT !.on = FALSE] /\ UNCHANGED gatewayVars
  BY <1>1 DEF RouterCloses
<1>4. LinkType' /\ WireType' /\ AskType' /\ WatchType' /\ DOMAIN wire' = {}
  <2>1. <<>> \in Seq(Frames) /\ Len(<<>>) = 0 /\ DOMAIN <<>> = {} /\ MaxWire \in Nat
    BY DEF StreamAssumption
  <2>2. WireType' /\ DOMAIN wire' = {}
    BY <1>3, <2>1 DEF WireType
  <2>3. WatchType'
    BY <1>3 DEF WatchType, Ending
  <2> QED BY <1>1, <1>3, <2>2, <2>3 DEF LinkType, AskType
<1>5. ASSUME NEW s \in Sends
      PROVE  /\ stream'[s] \in Streams /\ Shaped(stream'[s]) /\ Fits(stream'[s], s, run)
             /\ (stream'[s].stage = "idle") = (stream[s].stage = "idle")
  <2>1. stream[s] \in Streams /\ Shaped(stream[s]) /\ Fits(stream[s], s, run)
    BY DEF Ending, StreamType
  <2>2. PICK st : st = stream[s]
    OBVIOUS
  <2>3. stream'[s] = Failed(st, s)
    BY <1>3, <2>2
  <2> QED BY <2>1, <2>2, <2>3, FailedIs
<1>6. StreamType'
  BY <1>3, <1>5 DEF StreamType
<1>7. \A s \in Sends : [op |-> "send", run |-> s] \notin inbox'
  BY <1>3
<1> QED BY <1>2, <1>3, <1>4, <1>5, <1>6, <1>7, ClientKeeps

LEMMA EndingStep ==
  ASSUME StreamAssumption, Ending, [Next]_vars
  PROVE  Ending'
<1>1. CASE \E s \in Sends : GatewayNext(s) \/ WindowNext(s)
  BY <1>1, GatewayEnding, WindowEnding
<1>2. CASE Receive
  BY <1>2, EventEnding, AnswerEnding DEF Receive
<1>3. CASE WatchSwitched
  <2>1. /\ watch' = [on |-> ~watch.on, tool |-> [s \in Sends |-> "none"]]
        /\ UNCHANGED <<linkVars, wire, hole, inbox, gatewayVars, stream, traced, denied, faults>>
    BY <1>3 DEF WatchSwitched
  <2>2. AskType' /\ TraceType' /\ WatchType' /\ faults' \in 0 .. MaxFaults
    BY <2>1 DEF AskType, TraceType, WatchType, ToolStates, Ending, LinkType
  <2> QED BY <2>1, <2>2, StreamsStay, WindowKeeps
<1>4. CASE SocketCloses \/ Reconnects
  BY <1>4, LinkEnding
<1>5. CASE UNCHANGED vars
  <2>1. UNCHANGED <<linkVars, wire, hole, inbox, gatewayVars, stream, traced, watch, denied, faults>>
    BY <1>5 DEF vars, clientVars
  <2>2. AskType' /\ TraceType' /\ WatchType' /\ faults' \in 0 .. MaxFaults
    BY <2>1 DEF AskType, TraceType, WatchType, Ending, LinkType
  <2> QED BY <2>1, <2>2, StreamsStay, WindowKeeps
<1> QED BY <1>1, <1>2, <1>3, <1>4, <1>5 DEF Next

LEMMA EndingInit ==
  ASSUME StreamAssumption, Init
  PROVE  Ending
<1>1. LinkType /\ WireType /\ GateType /\ AskType /\ TraceType /\ WatchType /\ DOMAIN wire = {}
  <2>1. Untraced \in Traces
    BY DEF Untraced, Traces, ToolStates
  <2>2. {MaxDeltas, MaxFaults, MaxWire} \subseteq Nat /\ MaxLinks \in Nat \ {0} /\ <<>> \in Seq(Frames) /\ Len(<<>>) = 0 /\ DOMAIN <<>> = {}
    BY DEF StreamAssumption
  <2>3. WireType /\ DOMAIN wire = {} /\ AskType
    BY <2>2 DEF Init, WireType, AskType
  <2>4. LinkType
    <3>1. link \in {"up", "gap", "down"} /\ hole \in BOOLEAN /\ observed \in BOOLEAN
      BY DEF Init
    <3>2. links \in 1 .. MaxLinks
      <4>1. links = 1 /\ MaxLinks \in Nat \ {0}
        BY DEF Init, StreamAssumption
      <4> QED BY <4>1
    <3>3. faults \in 0 .. MaxFaults
      <4>1. faults = 0 /\ MaxFaults \in Nat
        BY DEF Init, StreamAssumption
      <4> QED BY <4>1
    <3> QED BY <3>1, <3>2, <3>3 DEF LinkType
  <2>5. GateType
    BY <2>2 DEF Init, GateType, Calls
  <2>6. TraceType /\ WatchType
    BY <2>1 DEF Init, TraceType, WatchType, ToolStates
  <2> QED BY <2>3, <2>4, <2>5, <2>6
<1>2. NoStream \in Streams /\ Shaped(NoStream) /\ \A s \in Sends : Fits(NoStream, s, run)
  <2>1. NoStream \in Streams
    BY DEF NoStream, Streams, Stages, ToolStates
  <2>2. NoStream.stage = "idle" /\ NoStream.buffer = <<>> /\ NoStream.recovery = "off" /\ NoStream.shown = <<>>
    BY DEF NoStream
  <2>3. DOMAIN NoStream.shown = {} /\ DOMAIN NoStream.buffer = {}
    BY <2>2
  <2> QED BY <2>1, <2>2, <2>3 DEF Shaped, Fits
<1>3. StreamType /\ \A s \in Sends : stream[s] = NoStream
  BY <1>2 DEF Init, StreamType
<1>4. FramesAreTrue
  BY <1>1 DEF FramesAreTrue
<1>5. \A s \in Sends : Unbegun(s)
  BY <1>1 DEF Init, Unbegun
<1> QED BY <1>1, <1>2, <1>3, <1>4, <1>5 DEF Ending

LEMMA StreamsTyped ==
  ASSUME Ending PROVE TypeOK
BY DEF Ending, LinkType, WireType, GateType, AskType, TraceType, WatchType, StreamType, TypeOK, Frames, Calls, Traces,
       Streams, Stages

(* Every variable keeps its type. *)
THEOREM StreamTypeCorrect == Spec => []TypeOK
<1>1. Init => Ending
  BY EndingInit, StreamAssumption
<1>2. Ending /\ [Next]_vars => Ending'
  BY EndingStep, StreamAssumption
<1>3. Ending => TypeOK
  BY StreamsTyped
<1> QED BY <1>1, <1>2, <1>3, PTL DEF Spec

(* A stream shows one end and nothing after it, and the end is so: whatever is emitted, supplied
   by a recovery or brought about by a closed connection, and in whatever order. *)
THEOREM EndIsAlwaysTrue == Spec => []EndIsTrue
<1>1. Init => Ending
  BY EndingInit, StreamAssumption
<1>2. Ending /\ [Next]_vars => Ending'
  BY EndingStep, StreamAssumption
<1>3. Ending => EndIsTrue
  BY DEF Ending, Shaped, Fits, EndIsTrue
<1> QED BY <1>1, <1>2, <1>3, PTL DEF Spec

-----------------------------------------------------------------------------
(* The text of a stream has no hole, unless the first event of a link can be lost.  The deltas a
   stream has taken are numbered from 1 on, and those on the wire go on from there up to the first
   gap: [h] and [w] count them. *)
Counts(before, e, s, after) ==
  IF e.run = s /\ e.type = "delta" THEN after = before + 1 /\ e.n = after ELSE after = before
Numbered(b, s, h) ==
  /\ h \in [0 .. Len(b) -> Nat] /\ h[0] = 0
  /\ \A i \in 1 .. Len(b) : Counts(h[i - 1], b[i], s, h[i])

\* The number of deltas a stream has.
HasTaken(st, s, c) ==
  /\ st.stage = "sent" => \E h : Numbered(st.buffer, s, h) /\ c = h[Len(st.buffer)]
  /\ st.stage = "open" => c = Len(st.shown)

FrameCounts(before, f, s, after) == IF f.kind = "chat" THEN Counts(before, f.item, s, after) ELSE after = before
Unbroken(wr, i) == \A j \in 1 .. i : IsEvent(wr[j]) => ~wr[j].gap
ToCome(wr, lost, n, s, c, w) ==
  /\ w \in [0 .. Len(wr) -> Nat] /\ w[0] = c
  /\ \A i \in 1 .. Len(wr) : Unbroken(wr, i) => FrameCounts(w[i - 1], wr[i], s, w[i])
  /\ ~lost /\ Unbroken(wr, Len(wr)) => w[Len(wr)] = n

NoHole(st, s) == \A i \in DOMAIN st.shown : st.shown[i].type = "delta" => st.shown[i] = Happening("delta", s, i)

TextKept(s) ==
  /\ NoHole(stream[s], s)
  /\ stream[s].stage = "sent" => \E h : Numbered(stream[s].buffer, s, h)
TextComes(s) ==
  link = "up" /\ stream[s].stage \in Live => \E c \in Nat : \E w : HasTaken(stream[s], s, c) /\ ToCome(wire, hole, emitted[s], s, c, w)

\* A gap is behind an event, which shows it.
GapsSeen ==
  link = "up" =>
    /\ hole => observed \/ \E i \in DOMAIN wire : IsEvent(wire[i])
    /\ \A i \in DOMAIN wire : IsEvent(wire[i]) /\ wire[i].gap => observed \/ \E j \in 1 .. i - 1 : IsEvent(wire[j])

Telling == Ending /\ GapsSeen /\ \A s \in Sends : TextKept(s) /\ TextComes(s)

-----------------------------------------------------------------------------
LEMMA NumberedAppend ==
  ASSUME NEW s, NEW b \in Seq(Items), NEW h, Numbered(b, s, h), NEW e \in Items,
         NEW c \in Nat, Counts(h[Len(b)], e, s, c)
  PROVE  \E hh : Numbered(Append(b, e), s, hh) /\ hh[Len(Append(b, e))] = c
<1> DEFINE hh == [i \in 0 .. Len(b) + 1 |-> IF i = Len(b) + 1 THEN c ELSE h[i]]
           bb == Append(b, e)
<1>1. /\ Len(bb) = Len(b) + 1 /\ bb[Len(b) + 1] = e /\ \A i \in 1 .. Len(b) : bb[i] = b[i]
      /\ Len(b) \in Nat
  OBVIOUS
<1> HIDE DEF bb
<1>2. h \in [0 .. Len(b) -> Nat] /\ h[0] = 0
  BY DEF Numbered
<1>3. hh \in [0 .. Len(bb) -> Nat] /\ hh[0] = 0 /\ hh[Len(bb)] = c
  BY <1>1, <1>2
<1>4. ASSUME NEW i \in 1 .. Len(bb) PROVE Counts(hh[i - 1], bb[i], s, hh[i])
  <2>1. CASE i = Len(b) + 1
    <3>1. hh[i] = c /\ hh[i - 1] = h[Len(b)] /\ bb[i] = e
      BY <1>1, <2>1
    <3> QED BY <3>1
  <2>2. CASE i \in 1 .. Len(b)
    <3>1. hh[i] = h[i] /\ hh[i - 1] = h[i - 1] /\ bb[i] = b[i]
      BY <1>1, <2>2
    <3> QED BY <2>2, <3>1 DEF Numbered
  <2> QED BY <1>1, <2>1, <2>2
<1> HIDE DEF hh
<1>5. Numbered(bb, s, hh)
  BY <1>3, <1>4 DEF Numbered
<1> QED BY <1>3, <1>5 DEF bb

\* A delta is what it is by its run and its number.
LEMMA DeltaIs ==
  ASSUME NEW e \in Items, e.type = "delta"
  PROVE  e = Happening("delta", e.run, e.n)
BY DEF Items, Happening

(* A stream takes what comes next. *)
LEMMA TakesText ==
  ASSUME NEW s, NEW st \in Streams, Shaped(st), st.stage \in Live, NEW e \in Items,
         NEW c \in Nat, NEW c1 \in Nat, HasTaken(st, s, c), Counts(c, e, s, c1), NoHole(st, s)
  PROVE  /\ NoHole(Enqueued(st, s, e), s)
         /\ HasTaken(Enqueued(st, s, e), s, c1)
<1> DEFINE q == Enqueued(st, s, e)
<1>1. CASE st.stage = "sent"
  <2>1. PICK h : Numbered(st.buffer, s, h) /\ c = h[Len(st.buffer)]
    BY <1>1 DEF HasTaken
  <2>2. st.buffer \in Seq(Items)
    BY DEF Streams
  <2>3. q.buffer = Append(st.buffer, e) /\ q.stage = "sent" /\ q.shown = <<>>
    BY <1>1, EnqueuedIs
  <2> HIDE DEF q
  <2>4. PICK b : b = st.buffer
    OBVIOUS
  <2>5. \E hh : Numbered(Append(b, e), s, hh) /\ hh[Len(Append(b, e))] = c1
    BY <2>1, <2>2, <2>4, NumberedAppend
  <2>6. DOMAIN q.shown = {}
    BY <2>3
  <2> QED BY <2>3, <2>4, <2>5, <2>6 DEF HasTaken, NoHole, q
<1>2. CASE st.stage = "open" /\ e.run = s
  <2>0. q = Pushed(st, e)
    BY <1>2 DEF Enqueued
  <2> HIDE DEF q
  <2>1. st.shown \in Seq(Items) /\ c = Len(st.shown)
    BY <1>2 DEF Streams, HasTaken
  <2>2. CASE e.type \in ToolStates
    <3>1. q.shown = st.shown /\ q.stage = "open"
      BY <1>2, <2>0, <2>2, PushedIs
    <3>2. c1 = c
      BY <2>2, ItemTypes DEF Counts
    <3> QED BY <2>1, <3>1, <3>2 DEF HasTaken, NoHole, q
  <2>3. CASE e.type \notin ToolStates
    <3>1. q.shown = Append(st.shown, e) /\ (e.type = "delta" \/ q.stage = "ended")
      BY <1>2, <2>0, <2>3, PushedIs DEF Items
    <3>2. Len(q.shown) = Len(st.shown) + 1
      BY <2>1, <3>1
    <3>3. HasTaken(q, s, c1)
      <4>1. CASE q.stage = "ended"
        BY <4>1 DEF HasTaken
      <4>2. CASE e.type = "delta"
        <5>1. c1 = c + 1 /\ q.stage = "open"
          BY <1>2, <2>0, <4>2, PushedIs DEF Counts
        <5> QED BY <2>1, <3>2, <5>1 DEF HasTaken
      <4> QED BY <3>1, <4>1, <4>2
    <3>4. \A i \in DOMAIN q.shown : (i \in DOMAIN st.shown /\ q.shown[i] = st.shown[i]) \/ (i = Len(st.shown) + 1 /\ q.shown[i] = e)
      BY <2>1, <3>1
    <3>5. e.type = "delta" => e = Happening("delta", s, Len(st.shown) + 1)
      BY <1>2, <2>1, DeltaIs DEF Counts
    <3>6. NoHole(q, s)
      BY <3>4, <3>5 DEF NoHole
    <3> QED BY <3>3, <3>6 DEF q
  <2> QED BY <2>2, <2>3
<1>3. CASE st.stage = "open" /\ e.run # s
  <2>1. q = st /\ c1 = c
    BY <1>3 DEF Enqueued, Counts
  <2> QED BY <2>1
<1> QED BY <1>1, <1>2, <1>3 DEF Live

\* Whatever is not a delta leaves the text, in whatever stage.
LEMMA KeepsText ==
  ASSUME NEW s, NEW st \in Streams, Shaped(st), NEW e \in Items, e.type # "delta", NoHole(st, s),
         st.stage = "sent" => \E h : Numbered(st.buffer, s, h)
  PROVE  /\ NoHole(Enqueued(st, s, e), s)
         /\ Enqueued(st, s, e).stage = "sent" => \E h : Numbered(Enqueued(st, s, e).buffer, s, h)
<1>1. CASE st.stage \in Live
  <2>1. PICK c \in Nat : HasTaken(st, s, c)
    <3>1. CASE st.stage = "sent"
      <4>1. PICK h : Numbered(st.buffer, s, h)
        BY <3>1
      <4>2. st.buffer \in Seq(Items)
        BY DEF Streams
      <4>3. h[Len(st.buffer)] \in Nat
        BY <4>1, <4>2 DEF Numbered
      <4> QED BY <3>1, <4>1, <4>3 DEF HasTaken
    <3>2. CASE st.stage = "open"
      <4>1. Len(st.shown) \in Nat
        BY DEF Streams
      <4> QED BY <3>2, <4>1 DEF HasTaken
    <3> QED BY <1>1, <3>1, <3>2 DEF Live
  <2>2. Counts(c, e, s, c)
    BY DEF Counts
  <2>3. NoHole(Enqueued(st, s, e), s) /\ HasTaken(Enqueued(st, s, e), s, c)
    BY <1>1, <2>1, <2>2, TakesText
  <2> QED BY <2>3 DEF HasTaken
<1>2. CASE st.stage \notin Live
  BY <1>2, EnqueuedIs DEF Live
<1> QED BY <1>1, <1>2

(* What was kept is shown when the stream opens. *)
TextUpTo(g, h, s, k) == NoHole(g[k], s) /\ (g[k].stage = "open" => Len(g[k].shown) = h[k])

LEMMA ReplayText ==
  ASSUME NEW s, NEW b, NEW recovery \in {"off", "wait"}, NEW g, Replaying(g, b, s, recovery),
         NEW h, Numbered(b, s, h)
  PROVE  \A k \in 0 .. Len(b) : TextUpTo(g, h, s, k)
<1> DEFINE P(k) == TextUpTo(g, h, s, k)
           S == {k \in 0 .. Len(b) : P(k)}
<1> HIDE DEF P, S
<1>0. Len(b) \in Nat /\ h \in [0 .. Len(b) -> Nat] /\ h[0] = 0
  BY DEF Replaying, Numbered
<1>1. 0 \in S
  <2>1. g[0].shown = <<>>
    BY DEF Replaying
  <2>2. DOMAIN g[0].shown = {} /\ Len(g[0].shown) = 0 /\ 0 \in 0 .. Len(b)
    BY <1>0, <2>1
  <2> QED BY <1>0, <2>2 DEF P, S, TextUpTo, NoHole
<1>2. ASSUME NEW k \in 0 .. Len(b) - 1, k \in S PROVE k + 1 \in S
  <2>1. /\ k \in 0 .. Len(b) /\ k + 1 \in 0 .. Len(b) /\ k + 1 \in 1 .. Len(b) /\ k + 1 - 1 = k
        /\ g[k + 1] = Enqueued(g[k], s, b[k + 1]) /\ b[k + 1] \in Items
    BY DEF Replaying
  <2>2. g[k] \in Streams /\ Shaped(g[k]) /\ g[k].stage \in {"open", "ended"}
    <3>1. \A kk \in 0 .. Len(b) : TakenUp(g, b, s, recovery, kk)
      BY ReplayShape
    <3> QED BY <2>1, <3>1 DEF TakenUp
  <2>3. NoHole(g[k], s) /\ (g[k].stage = "open" => Len(g[k].shown) = h[k])
    BY <1>2 DEF S, P, TextUpTo
  <2>4. Counts(h[k], b[k + 1], s, h[k + 1]) /\ h[k] \in Nat /\ h[k + 1] \in Nat
    BY <1>0, <2>1 DEF Numbered
  <2>5. PICK p : p = g[k]
    OBVIOUS
  <2>6. PICK e : e = b[k + 1]
    OBVIOUS
  <2>7. PICK c, c1 : c = h[k] /\ c1 = h[k + 1]
    OBVIOUS
  <2>8. CASE p.stage = "open"
    <3>1. HasTaken(p, s, c)
      BY <2>3, <2>5, <2>7, <2>8 DEF HasTaken
    <3>2. NoHole(Enqueued(p, s, e), s) /\ HasTaken(Enqueued(p, s, e), s, c1)
      BY <2>1, <2>2, <2>3, <2>4, <2>5, <2>6, <2>7, <2>8, <3>1, TakesText DEF Live
    <3>3. NoHole(g[k + 1], s) /\ HasTaken(g[k + 1], s, c1)
      BY <2>1, <2>5, <2>6, <3>2
    <3> QED BY <2>1, <2>7, <3>3 DEF P, S, TextUpTo, HasTaken
  <2>9. CASE p.stage = "ended"
    <3>1. g[k + 1] = p
      BY <2>1, <2>5, <2>9 DEF Enqueued
    <3> QED BY <2>1, <2>3, <2>5, <2>9, <3>1 DEF P, S, TextUpTo
  <2> QED BY <2>2, <2>5, <2>8, <2>9
<1>3. \A k \in 0 .. Len(b) : k \in S
  BY <1>0, <1>1, <1>2, UpTo
<1> QED BY <1>3 DEF S, P

LEMMA OpenedText ==
  ASSUME NEW s \in Sends, NEW st, Ready(st), NEW h, Numbered(st.buffer, s, h)
  PROVE  /\ NoHole(Opened(st, s), s)
         /\ Opened(st, s).stage \in {"open", "ended"}
         /\ HasTaken(Opened(st, s), s, h[Len(st.buffer)])
<1> DEFINE recovery == IF "bare" \in Troubles THEN "off" ELSE "wait"
<1>1. recovery \in {"off", "wait"} /\ Opened(st, s) = Replayed(st, s, recovery)
  BY DEF Opened
<1> HIDE DEF recovery
<1>2. st.buffer \in Seq(Items) /\ Len(st.buffer) \in Nat
  BY DEF Ready, Streams
<1>3. PICK g : Replays(g, Len(st.buffer), st, s, recovery) /\ Replayed(st, s, recovery) = g[Len(st.buffer)]
  BY <1>2, ReplayIs
<1>4. Replaying(g, st.buffer, s, recovery)
  BY <1>1, <1>3, ReplaySteps
<1>5. PICK b : b = st.buffer
  OBVIOUS
<1>6. Len(b) \in 0 .. Len(b) /\ Opened(st, s) = g[Len(b)]
  BY <1>1, <1>2, <1>3, <1>5
<1>7. \A k \in 0 .. Len(b) : TextUpTo(g, h, s, k)
  BY <1>1, <1>4, <1>5, ReplayText
<1>8. \A k \in 0 .. Len(b) : TakenUp(g, b, s, recovery, k)
  BY <1>1, <1>4, <1>5, ReplayShape
<1>9. g[Len(b)].stage \in {"open", "ended"}
  BY <1>6, <1>8 DEF TakenUp
<1> QED BY <1>5, <1>6, <1>7, <1>9 DEF HasTaken, TextUpTo

-----------------------------------------------------------------------------
(* What becomes of the deltas to come as the wire grows and shrinks. *)
\* A frame [f] goes onto a wire, at its end; [lost], [n]: the hole and the deltas emitted before, then after.
Extends(f, lost, lost1, s, n, n1) ==
  /\ IsEvent(f) => f.gap = lost
  /\ ~IsEvent(f) /\ ~lost1 => ~lost
  /\ FrameCounts(n, f, s, n1) /\ n1 \in Nat

LEMMA WireExtends ==
  ASSUME NEW wr \in Seq(Frames), NEW lost, NEW n, NEW s, NEW c \in Nat, NEW w, ToCome(wr, lost, n, s, c, w),
         NEW f \in Frames, NEW lost1, NEW n1, Extends(f, lost, lost1, s, n, n1)
  PROVE  \E ww : ToCome(Append(wr, f), lost1, n1, s, c, ww)
<1> DEFINE wr1 == Append(wr, f)
<1>1. /\ Len(wr1) = Len(wr) + 1 /\ wr1[Len(wr) + 1] = f
      /\ \A i \in 1 .. Len(wr) : wr1[i] = wr[i]
      /\ Len(wr) \in Nat
  OBVIOUS
<1> HIDE DEF wr1
<1>a. /\ IsEvent(f) => f.gap = lost
      /\ ~IsEvent(f) /\ ~lost1 => ~lost
      /\ FrameCounts(n, f, s, n1) /\ n1 \in Nat
  BY DEF Extends
<1>2. w \in [0 .. Len(wr) -> Nat] /\ w[0] = c
  BY DEF ToCome
<1> DEFINE last == IF IsEvent(f) THEN n1 ELSE w[Len(wr)]
           ww == [i \in 0 .. Len(wr) + 1 |-> IF i = Len(wr) + 1 THEN last ELSE w[i]]
<1>3. ww \in [0 .. Len(wr1) -> Nat] /\ ww[0] = c
  BY <1>a, <1>1, <1>2
<1>4. \A i \in 0 .. Len(wr) : ww[i] = w[i]
  BY <1>1, <1>2
<1>5. ww[Len(wr) + 1] = last
  BY <1>1
<1> HIDE DEF ww
<1>6. \A i \in 0 .. Len(wr) : Unbroken(wr1, i) => Unbroken(wr, i)
  BY <1>1 DEF Unbroken
<1>7. Unbroken(wr1, Len(wr) + 1) => Unbroken(wr, Len(wr)) /\ (IsEvent(f) => ~lost)
  <2>1. ASSUME Unbroken(wr1, Len(wr) + 1) PROVE IsEvent(f) => ~lost
    BY <1>a, <1>1, <2>1 DEF Unbroken
  <2>2. ASSUME Unbroken(wr1, Len(wr) + 1) PROVE Unbroken(wr1, Len(wr))
    BY <1>1, <2>2 DEF Unbroken
  <2>3. Unbroken(wr1, Len(wr)) => Unbroken(wr, Len(wr))
    BY <1>1, <1>6
  <2> QED BY <2>1, <2>2, <2>3
<1>8. ~IsEvent(f) => (\A x, y : FrameCounts(x, f, s, y) <=> y = x)
  BY DEF IsEvent, FrameCounts
<1>9. ~lost /\ Unbroken(wr, Len(wr)) => w[Len(wr)] = n
  BY DEF ToCome
<1>10. ASSUME NEW i \in 1 .. Len(wr1), Unbroken(wr1, i)
       PROVE  FrameCounts(ww[i - 1], wr1[i], s, ww[i])
  <2>1. CASE i \in 1 .. Len(wr)
    <3>1. ww[i - 1] = w[i - 1] /\ ww[i] = w[i] /\ wr1[i] = wr[i] /\ Unbroken(wr, i)
      BY <1>1, <1>4, <1>6, <1>10, <2>1
    <3> QED BY <2>1, <3>1 DEF ToCome
  <2>2. CASE i = Len(wr) + 1
    <3>1. /\ ww[i - 1] = w[Len(wr)] /\ ww[i] = last /\ wr1[i] = f
          /\ Unbroken(wr, Len(wr)) /\ (IsEvent(f) => ~lost)
      BY <1>1, <1>4, <1>5, <1>7, <1>10, <2>2
    <3>2. CASE IsEvent(f)
      BY <1>a, <1>9, <3>1, <3>2
    <3>3. CASE ~IsEvent(f)
      BY <1>8, <3>1, <3>3
    <3> QED BY <3>2, <3>3
  <2> QED BY <1>1, <2>1, <2>2
<1>11. ASSUME ~lost1, Unbroken(wr1, Len(wr1))
       PROVE  ww[Len(wr1)] = n1
  <2>1. CASE IsEvent(f)
    BY <1>1, <1>5, <2>1
  <2>2. CASE ~IsEvent(f)
    <3>1. n1 = n /\ ~lost /\ Unbroken(wr, Len(wr))
      BY <1>a, <1>1, <1>7, <1>8, <1>11, <2>2
    <3> QED BY <1>1, <1>5, <1>9, <2>2, <3>1
  <2> QED BY <2>1, <2>2
<1> HIDE DEF last
<1>12. ToCome(wr1, lost1, n1, s, c, ww)
  BY <1>3, <1>10, <1>11 DEF ToCome
<1> QED BY <1>12 DEF wr1

LEMMA WireShrinks ==
  ASSUME NEW wr \in Seq(Frames), wr # <<>>, NEW lost, NEW n, NEW s, NEW c \in Nat, NEW w, ToCome(wr, lost, n, s, c, w),
         IsEvent(Head(wr)) => ~Head(wr).gap
  PROVE  \E c1 \in Nat : \E ww : FrameCounts(c, Head(wr), s, c1) /\ ToCome(Tail(wr), lost, n, s, c1, ww)
<1> DEFINE wr1 == Tail(wr)
<1>1. /\ Len(wr1) = Len(wr) - 1 /\ Head(wr) = wr[1] /\ Len(wr) \in Nat /\ Len(wr) >= 1
      /\ \A i \in 1 .. Len(wr1) : i + 1 \in 1 .. Len(wr) /\ wr1[i] = wr[i + 1]
      /\ \A i \in 1 .. Len(wr) : i # 1 => i - 1 \in 1 .. Len(wr1) /\ wr1[i - 1] = wr[i]
  OBVIOUS
<1> HIDE DEF wr1
<1>2. w \in [0 .. Len(wr) -> Nat] /\ w[0] = c
  BY DEF ToCome
<1>3. Unbroken(wr, 1)
  BY <1>1 DEF Unbroken
<1>4. FrameCounts(c, Head(wr), s, w[1]) /\ w[1] \in Nat
  BY <1>1, <1>2, <1>3 DEF ToCome
<1> DEFINE ww == [i \in 0 .. Len(wr) - 1 |-> w[i + 1]]
<1>5. ww \in [0 .. Len(wr1) -> Nat] /\ ww[0] = w[1] /\ \A i \in 0 .. Len(wr) - 1 : ww[i] = w[i + 1]
  BY <1>1, <1>2
<1> HIDE DEF ww
<1>6. ASSUME NEW i \in 0 .. Len(wr1), Unbroken(wr1, i) PROVE Unbroken(wr, i + 1)
  <2>1. ASSUME NEW j \in 1 .. i + 1, IsEvent(wr[j]) PROVE ~wr[j].gap
    <3>1. CASE j = 1
      BY <1>1, <2>1, <3>1
    <3>2. CASE j # 1
      <4>1. j \in 1 .. Len(wr) /\ j - 1 \in 1 .. i
        BY <1>1, <3>2
      <4>2. wr1[j - 1] = wr[j]
        BY <1>1, <3>2, <4>1
      <4> QED BY <1>6, <2>1, <4>1, <4>2 DEF Unbroken
    <3> QED BY <3>1, <3>2
  <2> QED BY <2>1 DEF Unbroken
<1>7. ASSUME NEW i \in 1 .. Len(wr1), Unbroken(wr1, i)
      PROVE  FrameCounts(ww[i - 1], wr1[i], s, ww[i])
  <2>1. Unbroken(wr, i + 1) /\ i + 1 \in 1 .. Len(wr) /\ wr1[i] = wr[i + 1]
    BY <1>1, <1>6, <1>7
  <2>2. ww[i - 1] = w[i] /\ ww[i] = w[i + 1] /\ i + 1 - 1 = i
    BY <1>1, <1>5
  <2>3. FrameCounts(w[i + 1 - 1], wr[i + 1], s, w[i + 1])
    BY <2>1 DEF ToCome
  <2> QED BY <2>1, <2>2, <2>3
<1>8. ASSUME ~lost, Unbroken(wr1, Len(wr1))
      PROVE  ww[Len(wr1)] = n
  <2>1. Len(wr1) \in 0 .. Len(wr1) /\ Len(wr1) + 1 = Len(wr)
    BY <1>1
  <2>2. Unbroken(wr, Len(wr)) /\ ww[Len(wr1)] = w[Len(wr)]
    BY <1>1, <1>5, <1>6, <1>8, <2>1
  <2> QED BY <1>8, <2>2 DEF ToCome
<1>9. ToCome(wr1, lost, n, s, w[1], ww)
  BY <1>5, <1>7, <1>8 DEF ToCome
<1> QED BY <1>4, <1>9 DEF wr1

LEMMA WireLoses ==
  ASSUME NEW wr, NEW lost, NEW n, NEW s, NEW c, NEW w, ToCome(wr, lost, n, s, c, w), NEW n1
  PROVE  ToCome(wr, TRUE, n1, s, c, w)
BY DEF ToCome

-----------------------------------------------------------------------------
(* The text in the steps. *)
WireFlows(s) ==
  \A c \in Nat : \A w : ToCome(wire, hole, emitted[s], s, c, w) => \E ww : ToCome(wire', hole', emitted'[s], s, c, ww)

LEMMA TextStays ==
  ASSUME NEW s \in Sends, TextKept(s), TextComes(s), stream'[s].stage = stream[s].stage,
         stream'[s].buffer = stream[s].buffer, stream'[s].shown = stream[s].shown,
         link' = "up" => link = "up" /\ WireFlows(s)
  PROVE  TextKept(s)' /\ TextComes(s)'
<1>1. TextKept(s)'
  BY DEF TextKept, NoHole
<1>2. ASSUME link' = "up", stream[s].stage \in Live
      PROVE \E c \in Nat : \E w : HasTaken(stream'[s], s, c) /\ ToCome(wire', hole', emitted'[s], s, c, w)
  <2>1. PICK c, w : c \in Nat /\ HasTaken(stream[s], s, c) /\ ToCome(wire, hole, emitted[s], s, c, w)
    BY <1>2 DEF TextComes
  <2>2. PICK ww : ToCome(wire', hole', emitted'[s], s, c, ww)
    BY <1>2, <2>1 DEF WireFlows
  <2>3. HasTaken(stream'[s], s, c)
    BY <2>1 DEF HasTaken
  <2> QED BY <2>1, <2>2, <2>3
<1> QED BY <1>1, <1>2 DEF TextComes

LEMMA TextEnds ==
  ASSUME NEW s \in Sends, stream'[s].stage \notin Live, NoHole(stream'[s], s)
  PROVE  TextKept(s)' /\ TextComes(s)'
BY DEF TextKept, TextComes, Live

\* What the gateway does to the wire.
FrameSent == \E f \in Frames :
  /\ wire' = Append(wire, f)
  /\ IsEvent(f) => f.gap = hole /\ hole' = FALSE
  /\ ~IsEvent(f) => hole' = hole
  /\ \A s \in Sends : emitted'[s] \in Nat /\ FrameCounts(emitted[s], f, s, emitted'[s])
GatewayFlows ==
  \/ FrameSent
  \/ wire' = wire /\ hole' = TRUE /\ Losable
  \/ wire' = wire /\ hole' = hole /\ (link = "down" \/ emitted' = emitted)

LEMMA FlowsTell ==
  ASSUME "first" \notin Troubles, Telling, UNCHANGED <<link, observed, stream>>, GatewayFlows
  PROVE  GapsSeen' /\ \A s \in Sends : TextKept(s)' /\ TextComes(s)'
<1>0. wire \in Seq(Frames) /\ GapsSeen /\ \A s \in Sends : TextKept(s) /\ TextComes(s)
  BY DEF Telling, Ending, WireType
<1>1. CASE FrameSent
  <2>1. PICK f \in Frames :
          /\ wire' = Append(wire, f)
          /\ IsEvent(f) => f.gap = hole /\ hole' = FALSE
          /\ ~IsEvent(f) => hole' = hole
          /\ \A s \in Sends : emitted'[s] \in Nat /\ FrameCounts(emitted[s], f, s, emitted'[s])
    BY <1>1 DEF FrameSent
  <2>2. /\ DOMAIN wire = 1 .. Len(wire) /\ DOMAIN wire' = 1 .. Len(wire) + 1 /\ wire'[Len(wire) + 1] = f
        /\ \A i \in 1 .. Len(wire) : wire'[i] = wire[i]
        /\ Len(wire) \in Nat
    BY <1>0, <2>1
  <2>3. GapsSeen'
    <3>1. SUFFICES ASSUME link = "up" PROVE GapsSeen'
      BY DEF GapsSeen
    <3>2. /\ hole => observed \/ \E i \in DOMAIN wire : IsEvent(wire[i])
          /\ \A i \in DOMAIN wire : IsEvent(wire[i]) /\ wire[i].gap => observed \/ \E j \in 1 .. i - 1 : IsEvent(wire[j])
      BY <1>0, <3>1 DEF GapsSeen
    <3>3. hole' => observed' \/ \E i \in DOMAIN wire' : IsEvent(wire'[i])
      <4>1. CASE IsEvent(f)
        BY <2>2, <4>1
      <4>2. CASE ~IsEvent(f) /\ (\E i \in DOMAIN wire : IsEvent(wire[i]))
        BY <2>2, <4>2
      <4>3. CASE ~IsEvent(f) /\ observed
        BY <4>3
      <4> QED BY <2>1, <3>2, <4>1, <4>2, <4>3
    <3>4. ASSUME NEW i \in DOMAIN wire', IsEvent(wire'[i]), wire'[i].gap
          PROVE  observed' \/ \E j \in 1 .. i - 1 : IsEvent(wire'[j])
      <4>1. CASE i = Len(wire) + 1
        <5>1. observed \/ \E j \in 1 .. Len(wire) : IsEvent(wire[j])
          BY <2>1, <2>2, <3>2, <3>4, <4>1
        <5> QED BY <2>2, <4>1, <5>1
      <4>2. CASE i \in 1 .. Len(wire)
        <5>1. observed \/ \E j \in 1 .. i - 1 : IsEvent(wire[j])
          BY <2>2, <3>2, <3>4, <4>2
        <5> QED BY <2>2, <4>2, <5>1
      <4> QED BY <2>2, <4>1, <4>2
    <3> QED BY <3>3, <3>4 DEF GapsSeen
  <2>4. ASSUME NEW s \in Sends PROVE WireFlows(s)
    <3> SUFFICES ASSUME NEW c \in Nat, NEW w, ToCome(wire, hole, emitted[s], s, c, w)
        PROVE \E ww : ToCome(wire', hole', emitted'[s], s, c, ww)
      BY DEF WireFlows
    <3>1. PICK wr, lost, n, lost1, n1 : wr = wire /\ lost = hole /\ n = emitted[s] /\ lost1 = hole' /\ n1 = emitted'[s]
      OBVIOUS
    <3>2. wr \in Seq(Frames) /\ ToCome(wr, lost, n, s, c, w) /\ n1 \in Nat /\ FrameCounts(n, f, s, n1)
      BY <1>0, <2>1, <3>1
    <3>3. Extends(f, lost, lost1, s, n, n1)
      BY <2>1, <3>1, <3>2 DEF Extends
    <3>4. \E ww : ToCome(Append(wr, f), lost1, n1, s, c, ww)
      BY <3>2, <3>3, WireExtends
    <3> QED BY <2>1, <3>1, <3>4
  <2> QED BY <1>0, <2>3, <2>4, TextStays
<1>2. CASE wire' = wire /\ hole' = TRUE /\ Losable
  <2>1. GapsSeen'
    BY <1>0, <1>2 DEF GapsSeen, Losable
  <2>2. ASSUME NEW s \in Sends PROVE WireFlows(s)
    <3> SUFFICES ASSUME NEW c \in Nat, NEW w, ToCome(wire, hole, emitted[s], s, c, w)
        PROVE ToCome(wire', TRUE, emitted'[s], s, c, w)
      BY <1>2 DEF WireFlows
    <3>1. ToCome(wire, TRUE, emitted'[s], s, c, w)
      BY WireLoses
    <3> QED BY <1>2, <3>1
  <2> QED BY <1>0, <2>1, <2>2, TextStays
<1>3. CASE wire' = wire /\ hole' = hole /\ (link = "down" \/ emitted' = emitted)
  <2>1. GapsSeen'
    BY <1>0, <1>3 DEF GapsSeen
  <2>2. ASSUME NEW s \in Sends, link = "up" PROVE WireFlows(s)
    BY <1>3, <2>2 DEF WireFlows
  <2> QED BY <1>0, <2>1, <2>2, TextStays
<1> QED BY <1>1, <1>2, <1>3 DEF GatewayFlows

LEMMA EmitsFlows ==
  ASSUME Telling, NEW kind \in {"chat", "tool", "approval"}, NEW item \in Items, Emits(kind, item),
         \A s \in Sends : emitted'[s] \in Nat,
         kind = "chat" => \A s \in Sends : Counts(emitted[s], item, s, emitted'[s]),
         kind # "chat" => emitted' = emitted
  PROVE  GatewayFlows
<1> DEFINE f == [kind |-> kind, item |-> item, gap |-> hole]
<1>1. f \in Frames /\ IsEvent(f) /\ f.gap = hole /\ f.kind = kind /\ f.item = item
  BY DEF Frames, EventFrames, IsEvent, Telling, Ending, LinkType
<1>2. \/ wire' = Append(wire, f) /\ hole' = FALSE
      \/ Losable /\ hole' = TRUE /\ wire' = wire
      \/ link = "down" /\ UNCHANGED <<wire, hole>>
  BY DEF Emits
<1> HIDE DEF f
<1>3. ASSUME NEW s \in Sends PROVE emitted'[s] \in Nat /\ FrameCounts(emitted[s], f, s, emitted'[s])
  BY <1>1 DEF FrameCounts
<1> QED BY <1>1, <1>2, <1>3 DEF GatewayFlows, FrameSent

LEMMA AnswersFlows ==
  ASSUME Telling, NEW s \in Sends, NEW op, NEW kind, [kind |-> kind, run |-> s] \in AnswerFrames, Answers(op, s, kind)
  PROVE  GatewayFlows /\ UNCHANGED <<link, observed, stream>>
<1> DEFINE f == [kind |-> kind, run |-> s]
<1>1. f \in Frames /\ ~IsEvent(f)
  BY DEF Frames, AnswerFrames, IsEvent
<1>2. wire' = Append(wire, f) /\ hole' = hole /\ emitted' = emitted /\ UNCHANGED <<link, observed, stream>>
  BY DEF Answers, linkVars, clientVars
<1> HIDE DEF f
<1>3. \A t \in Sends : emitted'[t] \in Nat /\ FrameCounts(emitted[t], f, t, emitted'[t])
  BY <1>1, <1>2 DEF FrameCounts, IsEvent, Telling, Ending, GateType
<1> QED BY <1>1, <1>2, <1>3 DEF GatewayFlows, FrameSent

LEMMA GatewayTelling ==
  ASSUME StreamAssumption, "first" \notin Troubles, Telling, NEW s \in Sends, GatewayNext(s)
  PROVE  GapsSeen' /\ \A t \in Sends : TextKept(t)' /\ TextComes(t)'
<1> USE DEF Happening
<1>0. emitted \in [Sends -> 0 .. MaxDeltas] /\ MaxDeltas \in Nat /\ \A t \in Sends : emitted[t] \in Nat
  BY DEF Telling, Ending, GateType, StreamAssumption
<1>a. SUFFICES GatewayFlows /\ UNCHANGED <<link, observed, stream>>
  BY FlowsTell
<1>b. ASSUME NEW kind, NEW item, Emits(kind, item) PROVE UNCHANGED <<link, observed, stream>>
  BY <1>b DEF Emits, linkVars, clientVars
<1>1. CASE RunStarts(s)
  BY <1>1 DEF RunStarts, GatewayFlows, linkVars, clientVars
<1>2. CASE EmitDelta(s)
  <2>1. /\ emitted[s] < MaxDeltas /\ emitted' = [emitted EXCEPT ![s] = emitted[s] + 1]
        /\ Emits("chat", Happening("delta", s, emitted'[s]))
    BY <1>2 DEF EmitDelta
  <2>2. PICK item : item = Happening("delta", s, emitted'[s])
    OBVIOUS
  <2>3. emitted'[s] = emitted[s] + 1 /\ emitted'[s] \in 0 .. MaxDeltas /\ \A t \in Sends : emitted'[t] \in Nat
    BY <1>0, <2>1
  <2>4. item \in Items /\ item.run = s /\ item.type = "delta" /\ item.n = emitted'[s]
    BY <2>2, <2>3 DEF Items
  <2>5. PICK kind \in {"chat", "tool", "approval"} : kind = "chat"
    OBVIOUS
  <2>6. \A t \in Sends : Counts(emitted[t], item, t, emitted'[t])
    <3>1. \A t \in Sends : t # s => emitted'[t] = emitted[t]
      BY <1>0, <2>1
    <3> QED BY <2>3, <2>4, <3>1 DEF Counts
  <2> QED BY <1>b, <2>1, <2>2, <2>3, <2>4, <2>5, <2>6, EmitsFlows
<1>3. CASE \E end \in Ends : EmitEnd(s, end)
  <2>1. PICK end \in Ends : EmitEnd(s, end)
    BY <1>3
  <2>2. emitted' = emitted /\ Emits("chat", Happening(end, s, 0))
    BY <2>1 DEF EmitEnd
  <2>3. PICK item : item = Happening(end, s, 0)
    OBVIOUS
  <2>4. item \in Items /\ item.type = end
    BY <1>0, <2>3 DEF Items
  <2>5. PICK kind \in {"chat", "tool", "approval"} : kind = "chat"
    OBVIOUS
  <2>6. \A t \in Sends : Counts(emitted[t], item, t, emitted'[t])
    BY <2>2, <2>4, ItemTypes DEF Counts
  <2> QED BY <1>0, <1>b, <2>2, <2>3, <2>4, <2>5, <2>6, EmitsFlows
<1>4. CASE ToolStarts(s) \/ ApprovalAsked(s) \/ ToolFinishes(s)
  <2>1. PICK kind \in {"tool", "approval"}, type \in {"running", "done", "waiting"} :
          emitted' = emitted /\ Emits(kind, Happening(type, s, 0))
    BY <1>4 DEF ToolStarts, ApprovalAsked, ToolFinishes
  <2>2. PICK item : item = Happening(type, s, 0)
    OBVIOUS
  <2>3. item \in Items
    BY <1>0, <2>2 DEF Items, ToolStates, Over
  <2> QED BY <1>0, <1>b, <2>1, <2>2, <2>3, EmitsFlows
<1>5. CASE AnswerSend(s) \/ AnswerWait(s) \/ AnswerList(s)
           \/ (\E kind \in {"reply", "no reply"} : AnswerHistory(s, kind)) \/ \E d \in {"allow", "deny"} : AnswerResolve(s, d)
  <2>1. PICK op \in {"send", "wait", "list", "history", "allow", "deny"},
             kind \in {"accepted", "wait over", "wait failed", "reply", "no reply", "pending", "refused", "allow", "deny"} :
          Answers(op, s, kind)
    <3>1. CASE AnswerSend(s)
      BY <3>1 DEF AnswerSend
    <3>2. CASE AnswerWait(s)
      <4>1. CASE run[s] = "final"
        BY <3>2, <4>1 DEF AnswerWait
      <4>2. CASE run[s] # "final"
        BY <3>2, <4>2 DEF AnswerWait
      <4> QED BY <4>1, <4>2
    <3>3. CASE AnswerList(s)
      <4>1. CASE Asked(s)
        BY <3>3, <4>1 DEF AnswerList
      <4>2. CASE ~Asked(s)
        BY <3>3, <4>2 DEF AnswerList
      <4> QED BY <4>1, <4>2
    <3>4. CASE \E kind \in {"reply", "no reply"} : AnswerHistory(s, kind)
      BY <3>4 DEF AnswerHistory
    <3>5. CASE \E d \in {"allow", "deny"} : AnswerResolve(s, d)
      <4>1. PICK d \in {"allow", "deny"} : AnswerResolve(s, d)
        BY <3>5
      <4>2. CASE Asked(s)
        BY <4>1, <4>2 DEF AnswerResolve
      <4>3. CASE ~Asked(s)
        BY <4>1, <4>3 DEF AnswerResolve
      <4> QED BY <4>2, <4>3
    <3> QED BY <1>5, <3>1, <3>2, <3>3, <3>4, <3>5
  <2>2. [kind |-> kind, run |-> s] \in AnswerFrames
    BY DEF AnswerFrames
  <2> QED BY <2>1, <2>2, AnswersFlows
<1> QED BY <1>1, <1>2, <1>3, <1>4, <1>5 DEF GatewayNext

\* A frame is taken that tells nothing of a text.
LEMMA AnswerTaken ==
  ASSUME Telling, NEW s \in Sends, wire # <<>>, ~IsEvent(Head(wire)), wire' = Tail(wire), hole' = hole, emitted' = emitted
  PROVE  WireFlows(s)
<1> SUFFICES ASSUME NEW c \in Nat, NEW w, ToCome(wire, hole, emitted[s], s, c, w)
    PROVE \E ww : ToCome(wire', hole', emitted'[s], s, c, ww)
  BY DEF WireFlows
<1>1. PICK wr, lost, n : wr = wire /\ lost = hole /\ n = emitted[s]
  OBVIOUS
<1>2. wr \in Seq(Frames) /\ wr # <<>> /\ ToCome(wr, lost, n, s, c, w) /\ ~IsEvent(Head(wr))
  BY <1>1 DEF Telling, Ending, WireType
<1>3. PICK c1, ww : c1 \in Nat /\ FrameCounts(c, Head(wr), s, c1) /\ ToCome(Tail(wr), lost, n, s, c1, ww)
  BY <1>2, WireShrinks
<1>4. c1 = c
  BY <1>2, <1>3 DEF FrameCounts, IsEvent
<1> QED BY <1>1, <1>3, <1>4

\* A frame is taken that tells something of it.
LEMMA EventTells ==
  ASSUME Telling, NEW s \in Sends, wire # <<>>, wire' = Tail(wire), hole' = hole, emitted' = emitted, link' = link,
         IsEvent(Head(wire)) => ~Head(wire).gap, NEW e \in Items,
         \A c, c1 : FrameCounts(c, Head(wire), s, c1) => Counts(c, e, s, c1),
         link # "up" => e.type # "delta", stream'[s] = Enqueued(stream[s], s, e)
  PROVE  TextKept(s)' /\ TextComes(s)'
<1>0. /\ stream[s] \in Streams /\ Shaped(stream[s]) /\ TextKept(s) /\ TextComes(s) /\ wire \in Seq(Frames)
  BY DEF Telling, Ending, StreamType, WireType
<1>1. PICK st : st = stream[s]
  OBVIOUS
<1>2. st \in Streams /\ Shaped(st) /\ NoHole(st, s) /\ (st.stage = "sent" => \E h : Numbered(st.buffer, s, h))
  BY <1>0, <1>1 DEF TextKept
<1>3. CASE st.stage \notin Live
  <2>1. stream'[s] = st
    BY <1>1, <1>3 DEF Enqueued, Live
  <2> QED BY <1>2, <1>3, <2>1, TextEnds
<1>4. CASE st.stage \in Live /\ link = "up"
  <2>1. PICK c, w : c \in Nat /\ HasTaken(st, s, c) /\ ToCome(wire, hole, emitted[s], s, c, w)
    BY <1>0, <1>1, <1>4 DEF TextComes
  <2>2. PICK wr, lost, n : wr = wire /\ lost = hole /\ n = emitted[s]
    OBVIOUS
  <2>3. PICK c1, ww : c1 \in Nat /\ FrameCounts(c, Head(wr), s, c1) /\ ToCome(Tail(wr), lost, n, s, c1, ww)
    BY <1>0, <2>1, <2>2, WireShrinks
  <2>4. Counts(c, e, s, c1)
    BY <2>2, <2>3
  <2>5. NoHole(Enqueued(st, s, e), s) /\ HasTaken(Enqueued(st, s, e), s, c1)
    BY <1>2, <1>4, <2>1, <2>3, <2>4, TakesText
  <2>6. ToCome(wire', hole', emitted'[s], s, c1, ww)
    BY <2>2, <2>3
  <2>7. NoHole(stream'[s], s) /\ HasTaken(stream'[s], s, c1)
    BY <1>1, <2>5
  <2>8. TextKept(s)'
    BY <2>7 DEF TextKept, HasTaken
  <2> QED BY <2>3, <2>6, <2>7, <2>8 DEF TextComes
<1>5. CASE st.stage \in Live /\ link # "up"
  <2>1. /\ NoHole(Enqueued(st, s, e), s)
        /\ Enqueued(st, s, e).stage = "sent" => \E h : Numbered(Enqueued(st, s, e).buffer, s, h)
    BY <1>2, <1>5, KeepsText
  <2> QED BY <1>1, <1>5, <2>1 DEF TextKept, TextComes
<1> QED BY <1>3, <1>4, <1>5

LEMMA EventTelling ==
  ASSUME StreamAssumption, Telling, EventDropped \/ ChatFrame \/ ToolFrame \/ ApprovalFrame
  PROVE  GapsSeen' /\ \A s \in Sends : TextKept(s)' /\ TextComes(s)'
<1>0. Ending /\ GapsSeen /\ \A s \in Sends : TextKept(s) /\ TextComes(s)
  BY DEF Telling
<1>1. CASE EventDropped
  <2>1. link' = "gap" /\ UNCHANGED stream
    BY <1>1 DEF EventDropped
  <2> QED BY <1>0, <2>1, TextStays DEF GapsSeen
<1>2. CASE ChatFrame \/ ToolFrame \/ ApprovalFrame
  <2>1. PICK f : f = Head(wire)
    OBVIOUS
  <2>2. /\ wire # <<>> /\ link = "up" /\ link' = link /\ ~(f.gap /\ observed) /\ observed' = TRUE /\ IsEvent(f)
        /\ wire' = Tail(wire) /\ hole' = hole /\ emitted' = emitted
    BY <1>2, <2>1 DEF ChatFrame, ToolFrame, ApprovalFrame, Event, Arrives, GapSeen, Taken, gatewayVars, IsEvent
  <2>3. ~f.gap
    <3>1. f = wire[1] /\ 1 \in DOMAIN wire /\ 1 .. 1 - 1 = {}
      BY <1>0, <2>1, <2>2 DEF Ending, WireType
    <3> QED BY <1>0, <2>2, <3>1 DEF GapsSeen
  <2>4. GapsSeen'
    BY <2>2 DEF GapsSeen
  <2>5. f.item \in Items /\ f.item.run \in Sends /\ Tells(f, run)
    BY <1>0, <2>1, <2>2, HeadIs
  <2>6. CASE UNCHANGED stream /\ f.kind # "chat"
    <3>1. ASSUME NEW s \in Sends PROVE WireFlows(s)
      <4> SUFFICES ASSUME NEW c \in Nat, NEW w, ToCome(wire, hole, emitted[s], s, c, w)
          PROVE \E ww : ToCome(wire', hole', emitted'[s], s, c, ww)
        BY DEF WireFlows
      <4>1. PICK wr, lost, n : wr = wire /\ lost = hole /\ n = emitted[s]
        OBVIOUS
      <4>2. wr \in Seq(Frames) /\ wr # <<>> /\ ToCome(wr, lost, n, s, c, w) /\ (IsEvent(Head(wr)) => ~Head(wr).gap)
        BY <1>0, <2>1, <2>2, <2>3, <4>1 DEF Ending, WireType
      <4>3. PICK c1, ww : c1 \in Nat /\ FrameCounts(c, Head(wr), s, c1) /\ ToCome(Tail(wr), lost, n, s, c1, ww)
        BY <4>2, WireShrinks
      <4>4. c1 = c
        BY <2>1, <2>6, <4>1, <4>3 DEF FrameCounts
      <4> QED BY <2>2, <4>1, <4>3, <4>4
    <3> QED BY <1>0, <2>2, <2>4, <2>6, <3>1, TextStays
  <2>7. ASSUME NEW e \in Items, ToStreams(e), \A s \in Sends : \A c, c1 : FrameCounts(c, f, s, c1) => Counts(c, e, s, c1)
        PROVE  \A s \in Sends : TextKept(s)' /\ TextComes(s)'
    <3>1. \A s \in Sends : stream'[s] = Enqueued(stream[s], s, e)
      BY <2>7 DEF ToStreams
    <3> QED BY <2>1, <2>2, <2>3, <2>7, <3>1, EventTells
  <2>8. CASE ChatFrame
    <3>1. PICK e : e = f.item
      OBVIOUS
    <3>2. ToStreams(e) /\ f.kind = "chat"
      BY <2>1, <2>8, <3>1 DEF ChatFrame, Event, Arrives
    <3>3. \A s \in Sends : \A c, c1 : FrameCounts(c, f, s, c1) => Counts(c, e, s, c1)
      BY <3>1, <3>2 DEF FrameCounts
    <3> QED BY <2>4, <2>5, <2>7, <3>1, <3>2, <3>3
  <2>9. CASE ToolFrame \/ ApprovalFrame
    <3>1. f.kind # "chat"
      BY <2>1, <2>9 DEF ToolFrame, ApprovalFrame, Event, Arrives
    <3>2. UNCHANGED stream \/ \E state \in ToolStates : ToStreams(Happening(state, f.item.run, 0))
      <4>1. CASE ToolFrame
        <5>1. PICK state : state = Recorded(traced[f.item.run], f.item.type)
          OBVIOUS
        <5>2. UNCHANGED stream \/ ToStreams(Happening(state, f.item.run, 0))
          BY <2>1, <4>1, <5>1 DEF ToolFrame
        <5>3. f.item.type \in {"running", "done"}
          BY <2>1, <2>5, <4>1 DEF Tells, ToolFrame, Event, Arrives
        <5>4. state \in ToolStates
          BY <5>1, <5>3 DEF Recorded, ToolStates, Over
        <5> QED BY <5>2, <5>4
      <4>2. CASE ApprovalFrame
        <5>1. UNCHANGED stream \/ ToStreams(Happening("waiting", f.item.run, 0))
          BY <2>1, <4>2 DEF ApprovalFrame
        <5>2. "waiting" \in ToolStates
          BY DEF ToolStates
        <5> QED BY <5>1, <5>2
      <4> QED BY <2>9, <4>1, <4>2
    <3>3. CASE UNCHANGED stream
      BY <2>4, <2>6, <3>1, <3>3
    <3>4. CASE \E state \in ToolStates : ToStreams(Happening(state, f.item.run, 0))
      <4>1. PICK state \in ToolStates : ToStreams(Happening(state, f.item.run, 0))
        BY <3>4
      <4>2. PICK e : e = Happening(state, f.item.run, 0)
        OBVIOUS
      <4>3. e \in Items /\ e.type # "delta"
        BY <2>5, <4>2, ToolItem, ItemTypes
      <4>4. \A s \in Sends : \A c, c1 : FrameCounts(c, f, s, c1) => Counts(c, e, s, c1)
        BY <3>1, <4>3 DEF FrameCounts, Counts
      <4> QED BY <2>4, <2>7, <4>1, <4>2, <4>3, <4>4
    <3> QED BY <3>2, <3>3, <3>4
  <2> QED BY <1>2, <2>8, <2>9
<1> QED BY <1>1, <1>2

\* A stream that ends by a supplied end.
LEMMA SupplyTells ==
  ASSUME StreamAssumption, Telling, NEW s \in Sends, NEW end \in Ends, Supplies(s, end), stream[s].recovery # "off"
  PROVE  /\ TextKept(s)' /\ TextComes(s)'
         /\ \A t \in Sends : t # s => stream'[t] = stream[t]
<1> DEFINE e == Happening(end, s, 0)
<1>1. e \in Items /\ e.type = end /\ e.run = s /\ e.type # "delta"
  BY ItemTypes DEF StreamAssumption, Happening, Items
<1> HIDE DEF e
<1>2. stream[s] \in Streams /\ Shaped(stream[s]) /\ TextKept(s) /\ stream \in [Sends -> Streams]
  BY DEF Telling, Ending, StreamType
<1>3. PICK st : st = stream[s]
  OBVIOUS
<1>4. st.stage = "open" /\ st \in Streams /\ Shaped(st) /\ NoHole(st, s)
  BY <1>2, <1>3 DEF Shaped, TextKept
<1>5. stream' = [stream EXCEPT ![s] = Enqueued(st, s, e)]
  BY <1>3 DEF Supplies, e
<1>6. Enqueued(st, s, e) = Pushed(st, e)
  BY <1>1, <1>4 DEF Enqueued
<1>7. Pushed(st, e).stage = "ended"
  BY <1>1, <1>4, PushedIs
<1>8. NoHole(Enqueued(st, s, e), s)
  BY <1>1, <1>4, KeepsText
<1>9. stream'[s] = Enqueued(st, s, e) /\ \A t \in Sends : t # s => stream'[t] = stream[t]
  BY <1>2, <1>5
<1>10. stream'[s].stage \notin Live /\ NoHole(stream'[s], s)
  BY <1>6, <1>7, <1>8, <1>9 DEF Live
<1> QED BY <1>9, <1>10, TextEnds

LEMMA AnswerTelling ==
  ASSUME StreamAssumption, Telling,
         Accepted \/ WaitAnswered \/ HistoryAnswered \/ Listed \/ Refused \/ Resolved
  PROVE  GapsSeen' /\ \A s \in Sends : TextKept(s)' /\ TextComes(s)'
<1>0. /\ Ending /\ GapsSeen /\ stream \in [Sends -> Streams] /\ wire \in Seq(Frames)
      /\ \A s \in Sends : TextKept(s) /\ TextComes(s) /\ stream[s] \in Streams /\ Shaped(stream[s])
  BY DEF Telling, Ending, StreamType, WireType
<1>1. PICK f : f = Head(wire)
  OBVIOUS
<1>2. /\ wire # <<>> /\ wire' = Tail(wire) /\ hole' = hole /\ emitted' = emitted /\ link' = link /\ observed' = observed
      /\ ~IsEvent(f)
  BY <1>1 DEF Accepted, WaitAnswered, HistoryAnswered, Listed, Refused, Resolved, Arrives, Taken, linkVars, gatewayVars, IsEvent
<1>4. f.run \in Sends
  BY <1>0, <1>1, <1>2, HeadIs
<1>5. ASSUME NEW s \in Sends PROVE WireFlows(s)
  BY <1>1, <1>2, AnswerTaken
<1>6. GapsSeen'
  <2>1. /\ DOMAIN wire = 1 .. Len(wire) /\ DOMAIN wire' = 1 .. Len(wire) - 1 /\ Head(wire) = wire[1] /\ Len(wire) \in Nat
        /\ \A i \in 1 .. Len(wire) - 1 : i + 1 \in 1 .. Len(wire) /\ wire'[i] = wire[i + 1]
        /\ \A i \in 1 .. Len(wire) : i # 1 => i - 1 \in 1 .. Len(wire) - 1 /\ wire'[i - 1] = wire[i]
    BY <1>0, <1>2
  <2>2. SUFFICES ASSUME link = "up" PROVE GapsSeen'
    BY <1>2 DEF GapsSeen
  <2>3. /\ hole => observed \/ \E i \in DOMAIN wire : IsEvent(wire[i])
        /\ \A i \in DOMAIN wire : IsEvent(wire[i]) /\ wire[i].gap => observed \/ \E j \in 1 .. i - 1 : IsEvent(wire[j])
    BY <1>0, <2>2 DEF GapsSeen
  <2>4. ASSUME NEW i \in DOMAIN wire, IsEvent(wire[i])
        PROVE  i - 1 \in DOMAIN wire' /\ IsEvent(wire'[i - 1])
    <3>1. i # 1
      BY <1>1, <1>2, <2>1, <2>4
    <3> QED BY <2>1, <2>4, <3>1
  <2>5. hole' => observed' \/ \E i \in DOMAIN wire' : IsEvent(wire'[i])
    <3>1. CASE \E i \in DOMAIN wire : IsEvent(wire[i])
      BY <2>4, <3>1
    <3> QED BY <1>2, <2>3, <3>1
  <2>6. ASSUME NEW i \in DOMAIN wire', IsEvent(wire'[i]), wire'[i].gap
        PROVE  observed' \/ \E j \in 1 .. i - 1 : IsEvent(wire'[j])
    <3>1. i + 1 \in DOMAIN wire /\ wire[i + 1] = wire'[i] /\ i + 1 - 1 = i
      BY <2>1
    <3>2. observed \/ \E j \in 1 .. i : IsEvent(wire[j])
      <4>1. PICK k \in DOMAIN wire : k = i + 1
        BY <3>1
      <4>2. IsEvent(wire[k]) /\ wire[k].gap
        BY <2>6, <3>1, <4>1
      <4>3. observed \/ \E j \in 1 .. k - 1 : IsEvent(wire[j])
        BY <2>3, <4>2
      <4>4. k - 1 = i
        BY <2>1, <4>1
      <4> QED BY <4>3, <4>4
    <3>3. ASSUME NEW j \in 1 .. i, IsEvent(wire[j]) PROVE j - 1 \in 1 .. i - 1 /\ IsEvent(wire'[j - 1])
      <4>1. j \in DOMAIN wire
        BY <2>1
      <4>2. j - 1 \in DOMAIN wire' /\ IsEvent(wire'[j - 1])
        BY <2>4, <3>3, <4>1
      <4> QED BY <2>1, <4>2
    <3> QED BY <1>2, <3>2, <3>3
  <2> QED BY <2>5, <2>6 DEF GapsSeen
<1>a. ASSUME NEW s \in Sends, stream'[s].stage = stream[s].stage,
             stream'[s].buffer = stream[s].buffer, stream'[s].shown = stream[s].shown
      PROVE  TextKept(s)' /\ TextComes(s)'
  BY <1>0, <1>2, <1>5, <1>a, TextStays
<1>7. CASE Accepted
  <2>1. PICK s \in Sends : s = f.run
    BY <1>4
  <2>2. PICK st : st = stream[s]
    OBVIOUS
  <2>3. \/ st.stage = "sent" /\ stream' = [stream EXCEPT ![s] = Opened(st, s)]
        \/ st.stage = "cancelling" /\ stream' = [stream EXCEPT ![s].stage = "cancelled"]
        \/ UNCHANGED stream
    BY <1>1, <1>7, <2>1, <2>2 DEF Accepted, About
  <2>4. CASE st.stage = "sent" /\ stream' = [stream EXCEPT ![s] = Opened(st, s)]
    <3>1. stream'[s] = Opened(st, s) /\ \A t \in Sends : t # s => stream'[t] = stream[t]
      BY <1>0, <2>4
    <3>2. Ready(st)
      BY <1>0, <2>2, <2>4 DEF Ready
    <3>3. PICK h : Numbered(st.buffer, s, h)
      BY <1>0, <2>2, <2>4 DEF TextKept
    <3>4. NoHole(Opened(st, s), s) /\ Opened(st, s).stage \in {"open", "ended"}
      BY <3>2, <3>3, OpenedText
    <3>5. TextKept(s)'
      BY <3>1, <3>4 DEF TextKept
    <3>6. ASSUME link' = "up"
          PROVE  \E c \in Nat : \E w : HasTaken(stream'[s], s, c) /\ ToCome(wire', hole', emitted'[s], s, c, w)
      <4>1. PICK c, w : c \in Nat /\ HasTaken(st, s, c) /\ ToCome(wire, hole, emitted[s], s, c, w)
        BY <1>0, <1>2, <2>2, <2>4, <3>6 DEF TextComes, Live
      <4>2. PICK hh : Numbered(st.buffer, s, hh) /\ c = hh[Len(st.buffer)]
        BY <2>4, <4>1 DEF HasTaken
      <4>3. HasTaken(Opened(st, s), s, hh[Len(st.buffer)])
        BY <3>2, <4>2, OpenedText
      <4>4. HasTaken(stream'[s], s, c)
        BY <3>1, <4>2, <4>3
      <4>5. \E ww : ToCome(wire', hole', emitted'[s], s, c, ww)
        BY <1>5, <4>1 DEF WireFlows
      <4> QED BY <4>1, <4>4, <4>5
    <3>7. TextComes(s)'
      BY <3>6 DEF TextComes
    <3>8. ASSUME NEW t \in Sends PROVE TextKept(t)' /\ TextComes(t)'
      BY <1>a, <3>1, <3>5, <3>7
    <3> QED BY <1>6, <3>8
  <2>5. CASE st.stage = "cancelling" /\ stream' = [stream EXCEPT ![s].stage = "cancelled"]
    <3>1. /\ stream'[s].stage = "cancelled" /\ stream'[s].shown = st.shown
          /\ \A t \in Sends : t # s => stream'[t] = stream[t]
      BY <1>0, <2>2, <2>5 DEF Streams
    <3>2. stream'[s].stage \notin Live /\ NoHole(stream'[s], s)
      BY <1>0, <2>2, <3>1 DEF Live, TextKept, NoHole
    <3>3. TextKept(s)' /\ TextComes(s)'
      BY <3>2, TextEnds
    <3>4. ASSUME NEW t \in Sends PROVE TextKept(t)' /\ TextComes(t)'
      BY <1>a, <3>1, <3>3
    <3> QED BY <1>6, <3>4
  <2>6. CASE UNCHANGED stream
    BY <1>6, <1>a, <2>6
  <2> QED BY <2>3, <2>4, <2>5, <2>6
<1>8. CASE WaitAnswered
  <2>1. PICK s \in Sends : s = f.run
    BY <1>4
  <2>2. UNCHANGED stream \/ \E r : stream' = [stream EXCEPT ![s].recovery = r]
    BY <1>1, <1>8, <2>1 DEF WaitAnswered, About
  <2>3. ASSUME NEW t \in Sends
        PROVE  /\ stream'[t].stage = stream[t].stage /\ stream'[t].buffer = stream[t].buffer
               /\ stream'[t].shown = stream[t].shown
    <3>1. CASE UNCHANGED stream
      BY <3>1
    <3>2. CASE \E r : stream' = [stream EXCEPT ![s].recovery = r]
      <4>1. PICK r : stream' = [stream EXCEPT ![s].recovery = r]
        BY <3>2
      <4>2. stream[t] \in Streams
        BY <1>0
      <4> QED BY <1>0, <4>1, <4>2 DEF Streams
    <3> QED BY <2>2, <3>1, <3>2
  <2> QED BY <1>6, <1>a, <2>3
<1>9. CASE HistoryAnswered
  <2>1. PICK s \in Sends : s = f.run
    BY <1>4
  <2>2. \/ UNCHANGED stream
        \/ stream[s].recovery # "off" /\ \E end \in Ends : Supplies(s, end)
    <3>1. "final" \in Ends /\ "error" \in Ends
      BY DEF Ends
    <3> QED BY <1>1, <1>9, <2>1, <3>1 DEF HistoryAnswered, About
  <2>3. CASE UNCHANGED stream
    BY <1>6, <1>a, <2>3
  <2>4. CASE stream[s].recovery # "off" /\ \E end \in Ends : Supplies(s, end)
    <3>1. TextKept(s)' /\ TextComes(s)' /\ \A t \in Sends : t # s => stream'[t] = stream[t]
      BY <2>4, SupplyTells
    <3>2. ASSUME NEW t \in Sends PROVE TextKept(t)' /\ TextComes(t)'
      BY <1>a, <3>1
    <3> QED BY <1>6, <3>2
  <2> QED BY <2>2, <2>3, <2>4
<1>10. CASE Listed \/ Refused
  <2>1. UNCHANGED stream
    BY <1>10 DEF Listed, Refused, clientVars
  <2> QED BY <1>6, <1>a, <2>1
<1>11. CASE Resolved
  <2>1. PICK state \in ToolStates : UNCHANGED stream \/ ToStreams(Happening(state, f.run, 0))
    <3>1. "cancelled" \in ToolStates /\ "running" \in ToolStates
      BY DEF ToolStates, Over
    <3>2. UNCHANGED stream \/ ToStreams(Happening(IF f.kind = "deny" THEN "cancelled" ELSE "running", f.run, 0))
      BY <1>1, <1>11 DEF Resolved, About
    <3> QED BY <3>1, <3>2
  <2>2. CASE UNCHANGED stream
    BY <1>6, <1>a, <2>2
  <2>3. CASE ToStreams(Happening(state, f.run, 0))
    <3>1. PICK e : e = Happening(state, f.run, 0)
      OBVIOUS
    <3>2. e \in Items /\ e.type # "delta"
      BY <1>4, <3>1, ToolItem, ItemTypes
    <3>3. \A s \in Sends : stream'[s] = Enqueued(stream[s], s, e)
      BY <2>3, <3>1 DEF ToStreams
    <3>4. ASSUME NEW s \in Sends PROVE TextKept(s)' /\ TextComes(s)'
      <4>1. \A c, c1 : FrameCounts(c, Head(wire), s, c1) => Counts(c, e, s, c1)
        BY <1>1, <1>2, <3>2 DEF FrameCounts, Counts, IsEvent
      <4> QED BY <1>1, <1>2, <3>2, <3>3, <4>1, EventTells
    <3> QED BY <1>6, <3>4
  <2> QED BY <2>1, <2>2, <2>3
<1> QED BY <1>7, <1>8, <1>9, <1>10, <1>11

LEMMA WindowTelling ==
  ASSUME StreamAssumption, Telling, NEW s \in Sends, WindowNext(s)
  PROVE  GapsSeen' /\ \A t \in Sends : TextKept(t)' /\ TextComes(t)'
<1>0. /\ Ending /\ GapsSeen /\ stream \in [Sends -> Streams] /\ wire \in Seq(Frames)
      /\ \A t \in Sends : TextKept(t) /\ TextComes(t) /\ stream[t] \in Streams /\ Shaped(stream[t])
  BY DEF Telling, Ending, StreamType, WireType
<1>1. wire' = wire /\ hole' = hole /\ emitted' = emitted /\ link' = link /\ observed' = observed
  BY DEF WindowNext, Send, Cancel, Abort, SendTimesOut, RecoveryFails, ListPending, Resolve, linkVars, gatewayVars
<1>2. GapsSeen'
  BY <1>0, <1>1 DEF GapsSeen
<1>3. ASSUME NEW t \in Sends, stream'[t] = stream[t] PROVE TextKept(t)' /\ TextComes(t)'
  <2>1. WireFlows(t)
    BY <1>1 DEF WireFlows
  <2> QED BY <1>0, <1>1, <1>3, <2>1, TextStays
<1>4. ASSUME TextKept(s)' /\ TextComes(s)', \A t \in Sends : t # s => stream'[t] = stream[t]
      PROVE  GapsSeen' /\ \A t \in Sends : TextKept(t)' /\ TextComes(t)'
  BY <1>2, <1>3, <1>4
<1>5. PICK st : st = stream[s]
  OBVIOUS
<1>6. CASE Send(s)
  <2>1. PICK stage \in {"failed", "sent"} : stream' = [stream EXCEPT ![s].stage = stage]
    BY <1>6 DEF Send
  <2>2. st.stage = "idle" /\ st = NoStream
    BY <1>0, <1>5, <1>6 DEF Send, Shaped
  <2>3. /\ stream'[s].stage = stage /\ stream'[s].shown = st.shown /\ stream'[s].buffer = st.buffer
        /\ \A t \in Sends : t # s => stream'[t] = stream[t]
    BY <1>0, <1>5, <2>1 DEF Streams
  <2>4. stream'[s].shown = <<>> /\ stream'[s].buffer = <<>>
    BY <2>2, <2>3 DEF NoStream
  <2>5. DOMAIN stream'[s].shown = {} /\ Len(stream'[s].buffer) = 0
    BY <2>4
  <2>6. NoHole(stream'[s], s)
    BY <2>5 DEF NoHole
  <2> DEFINE h == [i \in 0 .. 0 |-> 0]
  <2>7. Numbered(stream'[s].buffer, s, h) /\ h[Len(stream'[s].buffer)] = 0
    BY <2>5 DEF Numbered
  <2> HIDE DEF h
  <2>8. HasTaken(stream'[s], s, 0)
    BY <2>3, <2>7 DEF HasTaken
  <2> DEFINE w == [i \in 0 .. Len(wire) |-> 0]
  <2>9. ToCome(wire, hole, emitted[s], s, 0, w)
    <3>1. /\ emitted[s] = 0
          /\ \A i \in DOMAIN wire : IsEvent(wire[i]) => wire[i].item.run # s
      BY <1>0, <1>5, <2>2 DEF Ending, Unbegun
    <3>2. Len(wire) \in Nat /\ DOMAIN wire = 1 .. Len(wire)
      BY <1>0
    <3>3. w \in [0 .. Len(wire) -> Nat] /\ w[0] = 0 /\ w[Len(wire)] = 0 /\ \A i \in 1 .. Len(wire) : w[i] = 0 /\ w[i - 1] = 0
      BY <3>2
    <3> HIDE DEF w
    <3>4. ASSUME NEW i \in 1 .. Len(wire) PROVE FrameCounts(w[i - 1], wire[i], s, w[i])
      BY <3>1, <3>2, <3>3 DEF FrameCounts, Counts, IsEvent
    <3> QED BY <3>1, <3>3, <3>4 DEF ToCome
  <2> HIDE DEF w
  <2>10. TextKept(s)' /\ TextComes(s)'
    <3>1. TextKept(s)'
      BY <2>6, <2>7 DEF TextKept
    <3>2. ToCome(wire', hole', emitted'[s], s, 0, w)
      BY <1>1, <2>9
    <3>3. \E c \in Nat : \E ww : HasTaken(stream'[s], s, c) /\ ToCome(wire', hole', emitted'[s], s, c, ww)
      BY <2>8, <3>2
    <3> QED BY <3>1, <3>3 DEF TextComes
  <2> QED BY <1>4, <2>3, <2>10
<1>7. CASE Cancel(s) \/ SendTimesOut(s)
  <2>1. /\ stream'[s].stage \in {"cancelling", "cancelled", "failed"} /\ stream'[s].shown = st.shown
        /\ \A t \in Sends : t # s => stream'[t] = stream[t]
    <3>1. CASE Cancel(s)
      <4>1. PICK stage \in {"cancelling", "cancelled"} : stream' = [stream EXCEPT ![s] = [st EXCEPT !.stage = stage, !.buffer = <<>>, !.recovery = "off"]]
        BY <1>0, <1>5, <3>1 DEF Cancel
      <4> QED BY <1>0, <1>5, <4>1 DEF Streams
    <3>2. CASE SendTimesOut(s)
      <4>1. PICK stage \in {"failed", "cancelled"} : stream' = [stream EXCEPT ![s] = [st EXCEPT !.stage = stage, !.buffer = <<>>]]
        BY <1>0, <1>5, <3>2 DEF SendTimesOut
      <4> QED BY <1>0, <1>5, <4>1 DEF Streams
    <3> QED BY <1>7, <3>1, <3>2
  <2>2. stream'[s].stage \notin Live /\ NoHole(stream'[s], s)
    BY <1>0, <1>5, <2>1 DEF Live, TextKept, NoHole
  <2>3. TextKept(s)' /\ TextComes(s)'
    BY <2>2, TextEnds
  <2> QED BY <1>4, <2>1, <2>3
<1>8. CASE RecoveryFails(s)
  <2>1. PICK end \in Ends : end = "error"
    BY DEF Ends
  <2>2. stream[s].recovery # "off" /\ Supplies(s, end)
    BY <1>8, <2>1 DEF RecoveryFails
  <2>3. TextKept(s)' /\ TextComes(s)' /\ \A t \in Sends : t # s => stream'[t] = stream[t]
    BY <2>2, SupplyTells
  <2> QED BY <1>4, <2>3
<1>9. CASE Abort(s) \/ ListPending(s) \/ \E d \in {"allow", "deny"} : Resolve(s, d)
  <2>1. stream' = stream
    BY <1>9 DEF Abort, ListPending, Resolve, clientVars
  <2> QED BY <1>2, <1>3, <2>1
<1> QED BY <1>6, <1>7, <1>8, <1>9 DEF WindowNext

LEMMA LinkTelling ==
  ASSUME StreamAssumption, Telling, SocketCloses \/ Reconnects
  PROVE  GapsSeen' /\ \A s \in Sends : TextKept(s)' /\ TextComes(s)'
<1>1. wire' = <<>> /\ hole' = FALSE /\ stream' = [s \in Sends |-> Failed(stream[s], s)]
  BY DEF SocketCloses, Reconnects, RouterCloses
<1>2. GapsSeen'
  BY <1>1 DEF GapsSeen
<1>3. ASSUME NEW s \in Sends PROVE TextKept(s)' /\ TextComes(s)'
  <2>1. stream[s] \in Streams /\ NoHole(stream[s], s)
    BY DEF Telling, Ending, StreamType, TextKept
  <2>2. PICK st : st = stream[s]
    OBVIOUS
  <2>3. stream'[s] = Failed(st, s)
    BY <1>1, <2>2
  <2>4. Failed(st, s).stage \notin Live
    BY <2>1, <2>2 DEF Failed, Streams, Live
  <2>5. NoHole(Failed(st, s), s)
    <3>1. CASE st.stage = "open"
      <4>1. PICK e : e = Happening("error", s, 0)
        OBVIOUS
      <4>2. Failed(st, s).shown = Append(st.shown, e) /\ st.shown \in Seq(Items)
        BY <2>1, <2>2, <3>1, <4>1 DEF Failed, Streams
      <4>3. e \in Items /\ e.type # "delta"
        BY <4>1 DEF Happening, Items, Ends, StreamAssumption
      <4>4. PICK shown : shown = Failed(st, s).shown
        OBVIOUS
      <4>5. \A i \in DOMAIN shown : (i \in DOMAIN st.shown /\ shown[i] = st.shown[i]) \/ shown[i] = e
        BY <4>2, <4>3, <4>4
      <4> QED BY <2>1, <2>2, <4>3, <4>4, <4>5 DEF NoHole
    <3>2. CASE st.stage # "open"
      <4>1. Failed(st, s).shown = st.shown
        BY <2>1, <2>2, <3>2 DEF Failed, Streams
      <4> QED BY <2>1, <2>2, <4>1 DEF NoHole
    <3> QED BY <3>1, <3>2
  <2>6. stream'[s].stage \notin Live /\ NoHole(stream'[s], s)
    BY <2>3, <2>4, <2>5
  <2> QED BY <2>6, TextEnds
<1> QED BY <1>2, <1>3

LEMMA TellingStep ==
  ASSUME StreamAssumption, "first" \notin Troubles, Telling, [Next]_vars
  PROVE  Telling'
<1>1. Ending'
  BY EndingStep DEF Telling
<1>2. SUFFICES GapsSeen' /\ \A s \in Sends : TextKept(s)' /\ TextComes(s)'
  BY <1>1 DEF Telling
<1>3. CASE \E s \in Sends : GatewayNext(s) \/ WindowNext(s)
  BY <1>3, GatewayTelling, WindowTelling
<1>4. CASE Receive
  BY <1>4, EventTelling, AnswerTelling DEF Receive
<1>5. CASE WatchSwitched \/ UNCHANGED vars
  <2>1. UNCHANGED <<link, observed, wire, hole, stream, emitted>>
    BY <1>5 DEF WatchSwitched, vars, clientVars, linkVars, gatewayVars
  <2>2. GapsSeen'
    BY <2>1 DEF GapsSeen, Telling
  <2>3. ASSUME NEW s \in Sends PROVE WireFlows(s)
    BY <2>1 DEF WireFlows
  <2> QED BY <2>1, <2>2, <2>3, TextStays DEF Telling
<1>6. CASE SocketCloses \/ Reconnects
  BY <1>6, LinkTelling
<1> QED BY <1>3, <1>4, <1>5, <1>6 DEF Next

LEMMA TellingInit ==
  ASSUME StreamAssumption, Init
  PROVE  Telling
<1>1. Ending /\ wire = <<>> /\ hole = FALSE /\ \A s \in Sends : stream[s] = NoStream
  BY EndingInit DEF Init
<1>2. GapsSeen
  BY <1>1 DEF GapsSeen
<1>3. ASSUME NEW s \in Sends PROVE TextKept(s) /\ TextComes(s)
  <2>1. stream[s].stage = "idle" /\ stream[s].shown = <<>>
    BY <1>1 DEF NoStream
  <2>2. DOMAIN stream[s].shown = {}
    BY <2>1
  <2> QED BY <2>1, <2>2 DEF TextKept, TextComes, NoHole, Live
<1> QED BY <1>1, <1>2, <1>3 DEF Telling

(* What a stream shows of a text has no hole: what comes before the acceptance is taken up in its
   order, and nothing is shown after a lost event; unless it was the first of its link, which leaves
   no gap: the trouble "first", with which TLC finds a hole. *)
THEOREM TextNeverHasAHole ==
  ASSUME "first" \notin Troubles
  PROVE  Spec => []TextHasNoHole
<1>1. Init => Telling
  BY TellingInit, StreamAssumption
<1>2. Telling /\ [Next]_vars => Telling'
  BY TellingStep, StreamAssumption
<1>3. Telling => TextHasNoHole
  BY DEF Telling, TextKept, NoHole, TextHasNoHole
<1> QED BY <1>1, <1>2, <1>3, PTL DEF Spec

-----------------------------------------------------------------------------
(* A denial stays, in every order in which the start of a tool, its approval, the decision, a list
   and the end of the run come. *)
ToolFrameOf(f, s) == f.kind = "tool" /\ f.item.run = s
ApprovalOf(f, s) == f.kind = "approval" /\ f.item.run = s
DecisionOf(f, s) == f.kind \in {"allow", "deny"} /\ f.run = s
EndFrameOf(f, s) == f.kind = "chat" /\ EndOf(f.item, s)

\* The order of the frames about a tool: [g] after [f].
MayFollow(g, f, s) ==
  /\ ToolFrameOf(f, s) /\ ToolFrameOf(g, s) => g.item.type = "done"
  /\ DecisionOf(f, s) => ~ApprovalOf(g, s) /\ ~DecisionOf(g, s)
  /\ EndFrameOf(f, s) => ~DecisionOf(g, s)
InOrder(wr, s) == \A i, j \in DOMAIN wr : i < j => MayFollow(wr[j], wr[i], s)

\* What a frame says of the tool call [c] has been.
Caused(f, c, s) ==
  /\ ToolFrameOf(f, s) => c.started
  /\ ApprovalOf(f, s) => c.approval # "none"
  /\ DecisionOf(f, s) => c.approval = f.kind

\* A decision is asked for once, while there is something to decide.
Asking(box, c, s) ==
  /\ \A d \in {"allow", "deny"} : [op |-> d, run |-> s] \in box => c.approval = "open"
  /\ [op |-> "allow", run |-> s] \notin box \/ [op |-> "deny", run |-> s] \notin box

StartAhead(wr, c, s) == ~c.started \/ \E i \in DOMAIN wr : ToolFrameOf(wr[i], s) /\ wr[i].item.type = "running"
DenialAhead(wr, box, s) ==
  [op |-> "deny", run |-> s] \in box \/ \E i \in DOMAIN wr : DecisionOf(wr[i], s) /\ wr[i].kind = "deny"

Decided(b, wr, s) == (\E i \in DOMAIN b : EndOf(b[i], s)) => \A j \in DOMAIN wr : ~DecisionOf(wr[j], s)

Courses(s) ==
  /\ InOrder(wire, s) /\ \A i \in DOMAIN wire : Caused(wire[i], called[s], s)
  /\ Asking(inbox, called[s], s) /\ Decided(stream[s].buffer, wire, s)
  /\ traced[s].request => traced[s].indexed
  /\ StartAhead(wire, called[s], s) => traced[s].tool = "none"

\* What is buffered of a tool.
ToolItemOf(e, s) == e.run = s /\ e.type \in ToolStates
NoEnd(b, k, s) == \A i \in 1 .. k : ~EndOf(b[i], s)

\* The last state buffered is the one the client has.
LastTool(b, tool, s) ==
  \/ tool = "none" /\ \A i \in DOMAIN b : ~ToolItemOf(b[i], s)
  \/ /\ tool # "none"
     /\ \E i \in DOMAIN b : /\ ToolItemOf(b[i], s) /\ b[i].type = tool
                            /\ \A j \in DOMAIN b : i < j => ~ToolItemOf(b[j], s)
Followed(st, tool, s) == st.stage = "sent" /\ NoEnd(st.buffer, Len(st.buffer), s) => LastTool(st.buffer, tool, s)

\* Taken up, the buffer leaves the tool over, or as it is.
Settles(b, s) ==
  \A i \in DOMAIN b : ToolItemOf(b[i], s) /\ b[i].type \notin Over =>
    \/ ~NoEnd(b, i - 1, s)
    \/ \E j \in DOMAIN b : i < j /\ ToolItemOf(b[j], s) /\ b[j].type \in Over /\ NoEnd(b, j - 1, s)

\* A denial on its way finds the request it answers, or a tool that is over or forgotten.
Expected(tr, ahead) == tr.request \/ (tr.tool \in Over \cup {"none"} /\ ~ahead)
\* A start to come finds the denial.
Kept(tr, ahead) == tr.tool \in Over \cup {"none"} /\ (ahead => tr.indexed /\ tr.decision = "deny")

Denials(s) ==
  /\ DenialAhead(wire, inbox, s) => Expected(traced[s], StartAhead(wire, called[s], s))
  /\ Followed(stream[s], traced[s].tool, s)
  /\ s \in denied =>
       /\ Kept(traced[s], StartAhead(wire, called[s], s)) /\ Settles(stream[s].buffer, s)
       /\ called[s].approval = "deny"
       /\ \A i \in DOMAIN wire : ~ApprovalOf(wire[i], s) /\ ~DecisionOf(wire[i], s)

Denying == /\ Ending /\ \A s \in Sends : Courses(s)
           /\ IF link = "up" THEN \A s \in Sends : Denials(s) ELSE denied = {}

-----------------------------------------------------------------------------
(* Buffers. *)
LEMMA BufferAppended ==
  ASSUME NEW b \in Seq(Items), NEW e \in Items
  PROVE  /\ Len(b) \in Nat /\ DOMAIN b = 1 .. Len(b) /\ DOMAIN Append(b, e) = 1 .. Len(b) + 1
         /\ Len(Append(b, e)) = Len(b) + 1 /\ Append(b, e)[Len(b) + 1] = e
         /\ \A i \in 1 .. Len(b) : Append(b, e)[i] = b[i]
OBVIOUS

LEMMA FollowedOn ==
  ASSUME NEW s, NEW st \in Streams, Shaped(st), NEW e \in Items, NEW tool, NEW tool1, Followed(st, tool, s),
         st.stage = "sent" =>
           /\ ToolItemOf(e, s) => tool1 = e.type /\ e.type # "none"
           /\ ~ToolItemOf(e, s) /\ ~EndOf(e, s) => tool1 = tool
  PROVE  Followed(Enqueued(st, s, e), tool1, s)
<1>1. CASE st.stage # "sent"
  <2>1. Enqueued(st, s, e).stage # "sent"
    <3>1. CASE st.stage = "open" /\ e.run = s
      <4>1. Enqueued(st, s, e) = Pushed(st, e)
        BY <3>1 DEF Enqueued
      <4>2. e.type \in Ends \cup ToolStates \cup {"delta"}
        BY DEF Items
      <4>3. Pushed(st, e).stage \in {"open", "ended"}
        BY <3>1, <4>2, PushedIs
      <4> QED BY <4>1, <4>3
    <3>2. CASE ~(st.stage = "open" /\ e.run = s)
      <4>1. Enqueued(st, s, e) = st
        BY <1>1, <3>2 DEF Enqueued
      <4> QED BY <1>1, <4>1
    <3> QED BY <3>1, <3>2
  <2> QED BY <2>1 DEF Followed
<1>2. CASE st.stage = "sent"
  <2>1. PICK b, bb : b = st.buffer /\ bb = Append(b, e)
    OBVIOUS
  <2>2. b \in Seq(Items) /\ Enqueued(st, s, e).buffer = bb
    BY <1>2, <2>1, EnqueuedIs DEF Streams
  <2>3. /\ Len(b) \in Nat /\ DOMAIN b = 1 .. Len(b) /\ DOMAIN bb = 1 .. Len(b) + 1
        /\ Len(bb) = Len(b) + 1 /\ bb[Len(b) + 1] = e /\ \A i \in 1 .. Len(b) : bb[i] = b[i]
    BY <2>1, <2>2, BufferAppended
  <2>4. SUFFICES ASSUME NoEnd(bb, Len(bb), s) PROVE LastTool(bb, tool1, s)
    BY <2>2 DEF Followed
  <2>5. NoEnd(b, Len(b), s) /\ ~EndOf(e, s)
    BY <2>3, <2>4 DEF NoEnd
  <2>6. LastTool(b, tool, s)
    BY <1>2, <2>1, <2>5 DEF Followed
  <2>7. CASE ToolItemOf(e, s)
    <3>1. tool1 # "none" /\ Len(b) + 1 \in DOMAIN bb /\ ToolItemOf(bb[Len(b) + 1], s) /\ bb[Len(b) + 1].type = tool1
      BY <1>2, <2>3, <2>7
    <3>2. \A j \in DOMAIN bb : ~(Len(b) + 1 < j)
      BY <2>3
    <3> QED BY <3>1, <3>2 DEF LastTool
  <2>8. CASE ~ToolItemOf(e, s)
    <3>1. tool1 = tool
      BY <1>2, <2>5, <2>8
    <3>2. CASE tool = "none"
      <4>1. \A i \in DOMAIN b : ~ToolItemOf(b[i], s)
        BY <2>6, <3>2 DEF LastTool
      <4>2. \A i \in DOMAIN bb : ~ToolItemOf(bb[i], s)
        BY <2>3, <2>8, <4>1
      <4> QED BY <3>1, <3>2, <4>2 DEF LastTool
    <3>3. CASE tool # "none"
      <4>1. PICK i \in DOMAIN b : /\ ToolItemOf(b[i], s) /\ b[i].type = tool
                                  /\ \A j \in DOMAIN b : i < j => ~ToolItemOf(b[j], s)
        BY <2>6, <3>3 DEF LastTool
      <4>2. \A j \in DOMAIN bb : i < j => ~ToolItemOf(bb[j], s)
        BY <2>3, <2>8, <4>1
      <4>3. i \in DOMAIN bb /\ bb[i] = b[i]
        BY <2>3
      <4> QED BY <3>1, <3>3, <4>1, <4>2, <4>3 DEF LastTool
    <3> QED BY <3>2, <3>3
  <2> QED BY <2>7, <2>8
<1> QED BY <1>1, <1>2

LEMMA SettlesOn ==
  ASSUME NEW s, NEW b \in Seq(Items), NEW e \in Items, ToolItemOf(e, s) => e.type \in Over,
         Settles(b, s) \/ (NoEnd(b, Len(b), s) /\ ToolItemOf(e, s))
  PROVE  Settles(Append(b, e), s)
<1> DEFINE bb == Append(b, e)
<1>1. /\ Len(b) \in Nat /\ DOMAIN b = 1 .. Len(b) /\ DOMAIN bb = 1 .. Len(b) + 1
      /\ Len(bb) = Len(b) + 1 /\ bb[Len(b) + 1] = e /\ \A i \in 1 .. Len(b) : bb[i] = b[i]
  BY BufferAppended
<1> HIDE DEF bb
<1>2. SUFFICES ASSUME NEW i \in DOMAIN bb, ToolItemOf(bb[i], s), bb[i].type \notin Over
      PROVE \/ ~NoEnd(bb, i - 1, s)
            \/ \E j \in DOMAIN bb : i < j /\ ToolItemOf(bb[j], s) /\ bb[j].type \in Over /\ NoEnd(bb, j - 1, s)
  BY DEF Settles, bb
<1>3. i \in 1 .. Len(b) /\ bb[i] = b[i] /\ i \in DOMAIN b
  BY <1>1, <1>2
<1>4. \A k \in 1 .. Len(b) + 1 : NoEnd(bb, k - 1, s) <=> NoEnd(b, k - 1, s)
  BY <1>1 DEF NoEnd
<1>5. CASE Settles(b, s)
  <2>1. \/ ~NoEnd(b, i - 1, s)
        \/ \E j \in DOMAIN b : i < j /\ ToolItemOf(b[j], s) /\ b[j].type \in Over /\ NoEnd(b, j - 1, s)
    BY <1>2, <1>3, <1>5 DEF Settles
  <2>2. CASE ~NoEnd(b, i - 1, s)
    BY <1>1, <1>3, <1>4, <2>2
  <2>3. ASSUME NEW j \in DOMAIN b, i < j, ToolItemOf(b[j], s), b[j].type \in Over, NoEnd(b, j - 1, s)
        PROVE  j \in DOMAIN bb /\ i < j /\ ToolItemOf(bb[j], s) /\ bb[j].type \in Over /\ NoEnd(bb, j - 1, s)
    BY <1>1, <1>4, <2>3
  <2> QED BY <2>1, <2>2, <2>3
<1>6. CASE NoEnd(b, Len(b), s) /\ ToolItemOf(e, s)
  <2>1. PICK j \in DOMAIN bb : j = Len(b) + 1
    BY <1>1
  <2>2. i < j /\ ToolItemOf(bb[j], s) /\ bb[j].type \in Over
    BY <1>1, <1>3, <1>6, <2>1
  <2>3. NoEnd(bb, j - 1, s)
    BY <1>1, <1>6, <2>1 DEF NoEnd
  <2> QED BY <2>1, <2>2, <2>3
<1> QED BY <1>5, <1>6

\* What a stream that takes [e] has buffered still settles.
LEMMA EnqueuedSettles ==
  ASSUME NEW s, NEW st \in Streams, Shaped(st), NEW e \in Items, ToolItemOf(e, s) => e.type \in Over, Settles(st.buffer, s)
  PROVE  Settles(Enqueued(st, s, e).buffer, s)
<1>1. CASE st.stage = "sent"
  <2>1. Enqueued(st, s, e).buffer = Append(st.buffer, e) /\ st.buffer \in Seq(Items)
    BY <1>1, EnqueuedIs DEF Streams
  <2> QED BY <2>1, SettlesOn
<1>2. CASE st.stage # "sent"
  <2>1. Enqueued(st, s, e).buffer = <<>>
    <3>1. st.buffer = <<>>
      BY <1>2 DEF Shaped
    <3>2. CASE st.stage = "open" /\ e.run = s
      BY <3>2, EnqueuedIs, PushedIs
    <3>3. CASE ~(st.stage = "open" /\ e.run = s)
      BY <1>2, <3>1, <3>3 DEF Enqueued
    <3> QED BY <3>2, <3>3
  <2> QED BY <2>1 DEF Settles
<1> QED BY <1>1, <1>2

\* When the decision arrives the last state buffered settles what was before it.
LEMMA LastSettles ==
  ASSUME NEW s, NEW b \in Seq(Items), NEW tool \in Over \cup {"none"}, NoEnd(b, Len(b), s), LastTool(b, tool, s)
  PROVE  Settles(b, s)
<1>1. Len(b) \in Nat /\ DOMAIN b = 1 .. Len(b)
  OBVIOUS
<1>2. CASE tool = "none"
  BY <1>2 DEF LastTool, Settles
<1>3. CASE tool # "none"
  <2>1. PICK i \in DOMAIN b : /\ ToolItemOf(b[i], s) /\ b[i].type = tool
                              /\ \A j \in DOMAIN b : i < j => ~ToolItemOf(b[j], s)
    BY <1>3 DEF LastTool
  <2>2. tool \in Over /\ NoEnd(b, i - 1, s)
    BY <1>1, <1>3 DEF NoEnd
  <2>3. \A k \in DOMAIN b : ToolItemOf(b[k], s) /\ b[k].type \notin Over => k < i
    BY <1>1, <2>1, <2>2
  <2> QED BY <2>1, <2>2, <2>3 DEF Settles
<1> QED BY <1>2, <1>3

LEMMA EnqueuedTool ==
  ASSUME NEW s, NEW st \in Streams, Shaped(st), NEW e \in Items
  PROVE  Enqueued(st, s, e).tool = IF st.stage = "open" /\ ToolItemOf(e, s) THEN e.type ELSE st.tool
<1>1. CASE st.stage = "sent"
  <2>1. PICK b : b = Append(st.buffer, e)
    OBVIOUS
  <2>2. Enqueued(st, s, e) = [st EXCEPT !.buffer = b]
    BY <1>1, <2>1 DEF Enqueued
  <2>3. Enqueued(st, s, e).tool = st.tool
    BY <2>2 DEF Streams
  <2> QED BY <1>1, <2>3
<1>2. CASE st.stage = "open" /\ e.run = s
  <2>1. Enqueued(st, s, e) = Pushed(st, e)
    BY <1>2 DEF Enqueued
  <2>2. /\ e.type \in ToolStates => Pushed(st, e).tool = e.type
        /\ e.type \notin ToolStates => Pushed(st, e).tool = st.tool
    BY <1>2, PushedIs
  <2> QED BY <1>2, <2>1, <2>2 DEF ToolItemOf
<1>3. CASE st.stage # "sent" /\ ~(st.stage = "open" /\ e.run = s)
  <2>1. Enqueued(st, s, e) = st
    BY <1>3 DEF Enqueued
  <2> QED BY <1>3, <2>1 DEF ToolItemOf
<1> QED BY <1>1, <1>2, <1>3

(* The buffer taken up. *)
ToolUpTo(g, b, s, k) ==
  \/ g[k].tool \in Over \cup {"none"}
  \/ \E i \in 1 .. k : /\ ToolItemOf(b[i], s) /\ b[i].type \notin Over /\ NoEnd(b, i - 1, s)
                       /\ \A j \in i + 1 .. k : ToolItemOf(b[j], s) /\ b[j].type \in Over => ~NoEnd(b, j - 1, s)

LEMMA ReplayTool ==
  ASSUME NEW s, NEW b, NEW recovery \in {"off", "wait"}, NEW g, Replaying(g, b, s, recovery)
  PROVE  \A k \in 0 .. Len(b) : ToolUpTo(g, b, s, k)
<1> DEFINE S == {k \in 0 .. Len(b) : ToolUpTo(g, b, s, k)}
<1>0. Len(b) \in Nat
  BY DEF Replaying
<1>1. 0 \in S
  BY <1>0 DEF Replaying, ToolUpTo
<1>2. ASSUME NEW k \in 0 .. Len(b) - 1, k \in S PROVE k + 1 \in S
  <2>1. /\ k \in 0 .. Len(b) /\ k + 1 \in 1 .. Len(b) /\ k + 1 \in 0 .. Len(b) /\ b[k + 1] \in Items
        /\ g[k + 1] = Enqueued(g[k], s, b[k + 1]) /\ ToolUpTo(g, b, s, k)
    BY <1>0, <1>2 DEF Replaying
  <2>2. TakenUp(g, b, s, recovery, k)
    BY <2>1, ReplayShape
  <2>3. PICK st, e, k1 : st = g[k] /\ e = b[k + 1] /\ k1 = k + 1
    OBVIOUS
  <2>4. /\ st \in Streams /\ Shaped(st) /\ st.stage \in {"open", "ended"} /\ e \in Items
        /\ st.stage = "open" => NoEnd(b, k, s)
        /\ st.stage = "ended" => ~NoEnd(b, k, s)
    BY <2>1, <2>2, <2>3 DEF TakenUp, NoEnd
  <2>5. CASE st.stage = "open" /\ ToolItemOf(e, s)
    <3>1. g[k1].tool = e.type
      BY <2>1, <2>3, <2>4, <2>5, EnqueuedTool
    <3>2. CASE e.type \in Over
      BY <2>1, <2>3, <3>1, <3>2 DEF ToolUpTo
    <3>3. CASE e.type \notin Over
      <4>1. k1 \in 1 .. k1 /\ k1 - 1 = k /\ k1 + 1 .. k1 = {}
        BY <2>1, <2>3
      <4>2. ToolUpTo(g, b, s, k1)
        BY <2>3, <2>4, <2>5, <3>3, <4>1 DEF ToolUpTo
      <4> QED BY <2>1, <2>3, <4>2
    <3> QED BY <3>2, <3>3
  <2>6. CASE ~(st.stage = "open" /\ ToolItemOf(e, s))
    <3>1. g[k1].tool = st.tool
      BY <2>1, <2>3, <2>4, <2>6, EnqueuedTool
    <3>2. CASE st.tool \in Over \cup {"none"}
      BY <2>1, <2>3, <3>1, <3>2 DEF ToolUpTo
    <3>3. CASE st.tool \notin Over \cup {"none"}
      <4>1. PICK i \in 1 .. k : /\ ToolItemOf(b[i], s) /\ b[i].type \notin Over /\ NoEnd(b, i - 1, s)
                                /\ \A j \in i + 1 .. k : ToolItemOf(b[j], s) /\ b[j].type \in Over => ~NoEnd(b, j - 1, s)
        BY <2>1, <2>3, <3>3 DEF ToolUpTo
      <4>2. ASSUME NEW j \in i + 1 .. k1, ToolItemOf(b[j], s), b[j].type \in Over PROVE ~NoEnd(b, j - 1, s)
        <5>1. CASE j = k1
          <6>1. j - 1 = k /\ st.stage = "ended"
            BY <2>1, <2>3, <2>4, <2>6, <4>2, <5>1
          <6> QED BY <2>4, <6>1
        <5>2. CASE j # k1
          <6>1. j \in i + 1 .. k
            BY <2>1, <2>3, <5>2
          <6> QED BY <4>1, <4>2, <6>1
        <5> QED BY <5>1, <5>2
      <4>3. i \in 1 .. k1
        BY <2>1, <2>3
      <4>4. ToolUpTo(g, b, s, k1)
        BY <4>1, <4>2, <4>3 DEF ToolUpTo
      <4> QED BY <2>1, <2>3, <4>4
    <3> QED BY <3>2, <3>3
  <2> QED BY <2>5, <2>6
<1> HIDE DEF S
<1>3. \A k \in 0 .. Len(b) : k \in S
  BY <1>0, <1>1, <1>2, UpTo
<1> QED BY <1>3 DEF S

LEMMA OpenedTool ==
  ASSUME NEW s \in Sends, NEW st, Ready(st), Settles(st.buffer, s)
  PROVE  Opened(st, s).tool \in Over \cup {"none"}
<1>1. PICK recovery, b : b = st.buffer /\ recovery = IF "bare" \in Troubles THEN "off" ELSE "wait"
  OBVIOUS
<1>2. recovery \in {"off", "wait"} /\ b \in Seq(Items) /\ Len(b) \in Nat /\ DOMAIN b = 1 .. Len(b)
  BY <1>1 DEF Ready, Streams
<1>3. PICK g : Replays(g, Len(b), st, s, recovery) /\ Replayed(st, s, recovery) = g[Len(b)]
  BY <1>1, <1>2, ReplayIs
<1>4. Replaying(g, b, s, recovery)
  BY <1>1, <1>2, <1>3, ReplaySteps
<1>5. ToolUpTo(g, b, s, Len(b))
  BY <1>2, <1>4, ReplayTool
<1>6. ASSUME NEW i \in 1 .. Len(b), ToolItemOf(b[i], s), b[i].type \notin Over, NoEnd(b, i - 1, s),
             \A j \in i + 1 .. Len(b) : ToolItemOf(b[j], s) /\ b[j].type \in Over => ~NoEnd(b, j - 1, s)
      PROVE  FALSE
  <2>1. PICK j \in DOMAIN b : i < j /\ ToolItemOf(b[j], s) /\ b[j].type \in Over /\ NoEnd(b, j - 1, s)
    BY <1>1, <1>2, <1>6 DEF Settles
  <2>2. j \in i + 1 .. Len(b)
    BY <1>2, <2>1
  <2> QED BY <1>6, <2>1, <2>2
<1>7. g[Len(b)].tool \in Over \cup {"none"}
  BY <1>5, <1>6 DEF ToolUpTo
<1> QED BY <1>1, <1>3, <1>7 DEF Opened

-----------------------------------------------------------------------------
(* The wire: what is about a tool keeps its order. *)
LEMMA OrderAppended ==
  ASSUME NEW s, NEW wr \in Seq(Frames), NEW f \in Frames, InOrder(wr, s), \A i \in DOMAIN wr : MayFollow(f, wr[i], s)
  PROVE  InOrder(Append(wr, f), s)
<1> DEFINE ww == Append(wr, f)
<1>1. /\ Len(wr) \in Nat /\ DOMAIN wr = 1 .. Len(wr) /\ DOMAIN ww = 1 .. Len(wr) + 1
      /\ ww[Len(wr) + 1] = f /\ \A i \in 1 .. Len(wr) : ww[i] = wr[i]
  OBVIOUS
<1> HIDE DEF ww
<1>2. ASSUME NEW i \in DOMAIN ww, NEW j \in DOMAIN ww, i < j PROVE MayFollow(ww[j], ww[i], s)
  <2>1. i \in 1 .. Len(wr) /\ ww[i] = wr[i]
    BY <1>1, <1>2
  <2>2. CASE j \in 1 .. Len(wr)
    BY <1>1, <1>2, <2>1, <2>2 DEF InOrder
  <2>3. CASE j = Len(wr) + 1
    BY <1>1, <2>1, <2>3
  <2> QED BY <1>1, <2>2, <2>3
<1> QED BY <1>2 DEF InOrder, ww

LEMMA OrderTaken ==
  ASSUME NEW s, NEW wr \in Seq(Frames), wr # <<>>, InOrder(wr, s)
  PROVE  /\ InOrder(Tail(wr), s) /\ Head(wr) = wr[1] /\ 1 \in DOMAIN wr
         /\ \A i \in DOMAIN Tail(wr) : /\ MayFollow(Tail(wr)[i], Head(wr), s)
                                       /\ i + 1 \in DOMAIN wr /\ Tail(wr)[i] = wr[i + 1]
<1> DEFINE ww == Tail(wr)
<1>1. /\ Len(wr) \in Nat /\ DOMAIN wr = 1 .. Len(wr) /\ DOMAIN ww = 1 .. Len(wr) - 1
      /\ Head(wr) = wr[1] /\ 1 \in DOMAIN wr
      /\ \A i \in 1 .. Len(wr) - 1 : i + 1 \in 1 .. Len(wr) /\ ww[i] = wr[i + 1]
  OBVIOUS
<1> HIDE DEF ww
<1>2. ASSUME NEW i \in DOMAIN ww, NEW j \in DOMAIN ww, i < j PROVE MayFollow(ww[j], ww[i], s)
  <2>1. PICK k, l : k = i + 1 /\ l = j + 1
    OBVIOUS
  <2>2. k \in DOMAIN wr /\ l \in DOMAIN wr /\ k < l /\ ww[i] = wr[k] /\ ww[j] = wr[l]
    BY <1>1, <1>2, <2>1
  <2> QED BY <2>2 DEF InOrder
<1>3. ASSUME NEW i \in DOMAIN ww PROVE MayFollow(ww[i], wr[1], s)
  <2>1. PICK k : k = i + 1
    OBVIOUS
  <2>2. k \in DOMAIN wr /\ 1 < k /\ ww[i] = wr[k]
    BY <1>1, <2>1
  <2> QED BY <1>1, <2>2 DEF InOrder
<1> QED BY <1>1, <1>2, <1>3 DEF InOrder, ww

\* A step of the client takes a frame or none.
Taking == wire' = wire \/ (wire # <<>> /\ wire' = Tail(wire))

LEMMA TakingIs ==
  ASSUME Ending, NEW s \in Sends, InOrder(wire, s), Taking
  PROVE  /\ InOrder(wire', s) /\ \A i \in DOMAIN wire' : \E j \in DOMAIN wire : wire'[i] = wire[j]
         /\ StartAhead(wire', called[s], s) => StartAhead(wire, called[s], s)
         /\ \A box : DenialAhead(wire', box, s) => DenialAhead(wire, box, s)
<1>1. PICK wr : wr = wire
  OBVIOUS
<1>2. wr \in Seq(Frames) /\ InOrder(wr, s)
  BY <1>1 DEF Ending, WireType
<1>3. InOrder(wire', s) /\ \A i \in DOMAIN wire' : \E j \in DOMAIN wire : wire'[i] = wire[j]
  <2>1. CASE wire' = wire
    BY <2>1
  <2>2. CASE wire # <<>> /\ wire' = Tail(wire)
    <3>1. /\ InOrder(Tail(wr), s)
          /\ \A i \in DOMAIN Tail(wr) : i + 1 \in DOMAIN wr /\ Tail(wr)[i] = wr[i + 1]
      BY <1>1, <1>2, <2>2, OrderTaken
    <3> QED BY <1>1, <2>2, <3>1
  <2> QED BY <2>1, <2>2 DEF Taking
<1> QED BY <1>3 DEF StartAhead, DenialAhead

LEMMA CourseKept ==
  ASSUME Ending, NEW s \in Sends, Courses(s), called' = called, Taking, Asking(inbox', called[s], s),
         Decided(stream'[s].buffer, wire', s), traced'[s].request => traced'[s].indexed,
         StartAhead(wire', called[s], s) => traced'[s].tool = "none"
  PROVE  Courses(s)'
<1>1. /\ InOrder(wire', s) /\ \A i \in DOMAIN wire' : \E j \in DOMAIN wire : wire'[i] = wire[j]
  BY TakingIs DEF Courses
<1>2. \A i \in DOMAIN wire' : Caused(wire'[i], called[s], s)
  BY <1>1 DEF Courses
<1> QED BY <1>1, <1>2 DEF Courses

LEMMA DenialsKept ==
  ASSUME Ending, NEW s \in Sends, Courses(s), Denials(s), called' = called, Taking, s \in denied' => s \in denied,
         DenialAhead(wire', inbox', s) => Expected(traced'[s], StartAhead(wire', called[s], s)),
         Followed(stream'[s], traced'[s].tool, s),
         s \in denied => Kept(traced'[s], StartAhead(wire', called[s], s)) /\ Settles(stream'[s].buffer, s)
  PROVE  Denials(s)'
<1>1. \A i \in DOMAIN wire' : \E j \in DOMAIN wire : wire'[i] = wire[j]
  BY TakingIs DEF Courses
<1>2. s \in denied => \A i \in DOMAIN wire' : ~ApprovalOf(wire'[i], s) /\ ~DecisionOf(wire'[i], s)
  BY <1>1 DEF Denials
<1>3. s \in denied => called[s].approval = "deny"
  BY DEF Denials
<1> QED BY <1>2, <1>3 DEF Denials

(* The client's record of a tool. *)
TraceKept(tr, tr1, ahead, ahead1) ==
  /\ tr1.request => tr1.indexed
  /\ ahead1 => tr1.tool = "none"
  /\ Expected(tr, ahead) => Expected(tr1, ahead1)
  /\ Kept(tr, ahead) => Kept(tr1, ahead1)

\* The request of a tool is noted, or nothing is.
Noted(tr, tr1) == tr1.tool = tr.tool /\ tr1.decision = tr.decision /\ tr1.request /\ tr1.indexed

LEMMA TraceStays ==
  ASSUME NEW tr \in Traces, NEW ahead \in BOOLEAN, NEW ahead1 \in BOOLEAN, ahead1 => ahead,
         tr.request => tr.indexed, ahead => tr.tool = "none",
         NEW tr1, tr1 \in {tr, Cleared(tr)} \/ Noted(tr, tr1)
  PROVE  TraceKept(tr, tr1, ahead, ahead1)
<1>1. CASE tr1 = tr
  BY <1>1 DEF TraceKept, Expected, Kept
<1>2. CASE tr1 = Cleared(tr)
  <2>1. CASE tr.tool = "none"
    BY <1>2, <2>1 DEF TraceKept, Expected, Kept, Cleared
  <2>2. CASE tr.tool # "none"
    <3>1. ~ahead /\ ~ahead1
      BY <2>2
    <3>2. tr1.tool = "none" /\ (tr1.request => tr1.indexed)
      <4>1. CASE tr.indexed
        BY <1>2, <2>2, <4>1 DEF Cleared, Untraced
      <4>2. CASE ~tr.indexed
        BY <1>2, <2>2, <4>2 DEF Cleared, Traces
      <4> QED BY <4>1, <4>2
    <3> QED BY <3>1, <3>2 DEF TraceKept, Expected, Kept
  <2> QED BY <2>1, <2>2
<1>3. CASE Noted(tr, tr1)
  BY <1>3 DEF Noted, TraceKept, Expected, Kept
<1> QED BY <1>1, <1>2, <1>3

LEMMA TraceTool ==
  ASSUME NEW tr \in Traces, NEW ahead \in BOOLEAN, NEW type, type = "done" \/ (type = "running" /\ ahead),
         tr.request => tr.indexed, NEW tr1, tr1 = [tr EXCEPT !.tool = Recorded(tr, type)]
  PROVE  /\ TraceKept(tr, tr1, ahead, FALSE) /\ tr1.tool = Recorded(tr, type)
         /\ Recorded(tr, type) \in {"running", "done", "cancelled"}
<1>1. /\ tr1.tool = Recorded(tr, type) /\ tr1.request = tr.request /\ tr1.indexed = tr.indexed
      /\ tr1.decision = tr.decision
  BY DEF Traces
<1>2. CASE type = "done"
  <2>1. Recorded(tr, type) = "done"
    BY <1>2 DEF Recorded
  <2> QED BY <1>1, <2>1 DEF TraceKept, Expected, Kept, Over
<1>3. CASE type = "running" /\ ahead
  <2>1. Recorded(tr, type) = IF tr.indexed /\ tr.decision = "deny" THEN "cancelled" ELSE "running"
    BY <1>3 DEF Recorded
  <2> QED BY <1>1, <1>3, <2>1 DEF TraceKept, Expected, Kept, Over
<1> QED BY <1>2, <1>3

-----------------------------------------------------------------------------
(* A step that does nothing to the tool of [s]: its stream stays or is over, its record is cleared,
   or its request is noted. *)
Quiet(s) ==
  /\ \/ stream'[s].stage = stream[s].stage /\ stream'[s].buffer = stream[s].buffer
     \/ stream'[s].stage # "sent" /\ stream'[s].buffer = <<>>
  /\ traced'[s] \in {traced[s], Cleared(traced[s])} \/ Noted(traced[s], traced'[s])
  /\ traced'[s].tool = traced[s].tool \/ stream'[s].stage # "sent"
  /\ \A d \in {"allow", "deny"} : [op |-> d, run |-> s] \in inbox' => [op |-> d, run |-> s] \in inbox
  /\ s \in denied' => s \in denied

LEMMA QuietKeeps ==
  ASSUME Denying, NEW s \in Sends, called' = called, Taking, link' = link, Quiet(s)
  PROVE  Courses(s)' /\ (link' = "up" => Denials(s)')
<1>0. Ending /\ Courses(s) /\ traced[s] \in Traces /\ (link = "up" => Denials(s))
  BY DEF Denying, Ending, TraceType
<1>1. /\ InOrder(wire', s) /\ \A i \in DOMAIN wire' : \E j \in DOMAIN wire : wire'[i] = wire[j]
      /\ StartAhead(wire', called[s], s) => StartAhead(wire, called[s], s)
      /\ \A box : DenialAhead(wire', box, s) => DenialAhead(wire, box, s)
  BY <1>0, TakingIs DEF Courses
<1>2. PICK ahead, ahead1 : ahead = StartAhead(wire, called[s], s) /\ ahead1 = StartAhead(wire', called[s], s)
  OBVIOUS
<1>3. PICK tr, tr1 : tr = traced[s] /\ tr1 = traced'[s]
  OBVIOUS
<1>4. ahead \in BOOLEAN /\ ahead1 \in BOOLEAN /\ (ahead1 => ahead)
  BY <1>1, <1>2 DEF StartAhead
<1>5. tr \in Traces /\ (tr.request => tr.indexed) /\ (ahead => tr.tool = "none")
  BY <1>0, <1>2, <1>3 DEF Courses
<1>6. tr1 \in {tr, Cleared(tr)} \/ Noted(tr, tr1)
  BY <1>3 DEF Quiet
<1>7. TraceKept(tr, tr1, ahead, ahead1)
  BY <1>4, <1>5, <1>6, TraceStays
<1>8. Asking(inbox', called[s], s)
  BY <1>0 DEF Quiet, Courses, Asking
<1>9. Decided(stream'[s].buffer, wire', s)
  <2>1. CASE stream'[s].buffer = stream[s].buffer
    BY <1>0, <1>1, <2>1 DEF Courses, Decided
  <2>2. CASE stream'[s].buffer = <<>>
    BY <2>2 DEF Decided
  <2> QED BY <2>1, <2>2 DEF Quiet
<1>10. Courses(s)'
  BY <1>0, <1>2, <1>3, <1>7, <1>8, <1>9, CourseKept DEF TraceKept
<1>11. ASSUME link = "up" PROVE Denials(s)'
  <2>1. Denials(s)
    BY <1>0, <1>11
  <2>2. DenialAhead(wire', inbox', s) => DenialAhead(wire, inbox, s)
    <3>1. DenialAhead(wire', inbox', s) => DenialAhead(wire', inbox, s)
      BY DEF Quiet, DenialAhead
    <3> QED BY <1>1, <3>1
  <2>3. DenialAhead(wire', inbox', s) => Expected(tr1, ahead1)
    BY <1>2, <1>3, <1>7, <2>1, <2>2 DEF Denials, TraceKept
  <2>4. Followed(stream'[s], traced'[s].tool, s)
    BY <2>1 DEF Quiet, Denials, Followed
  <2>5. s \in denied => Kept(tr1, ahead1) /\ Settles(stream'[s].buffer, s)
    <3>1. Settles(<<>>, s)
      BY DEF Settles
    <3> QED BY <1>2, <1>3, <1>7, <2>1, <3>1 DEF Denials, TraceKept, Quiet
  <2>6. s \in denied' => s \in denied
    BY DEF Quiet
  <2> QED BY <1>0, <1>2, <1>3, <2>1, <2>3, <2>4, <2>5, <2>6, DenialsKept
<1> QED BY <1>10, <1>11

-----------------------------------------------------------------------------
(* The gateway. *)
SentOf(f, s) ==
  /\ ToolFrameOf(f, s) => called'[s].started /\ (f.item.type = "done" \/ ~called[s].started)
  /\ ApprovalOf(f, s) => called[s].approval = "none" /\ called'[s].approval # "none"
  /\ DecisionOf(f, s) => /\ called[s].approval = "open" /\ called'[s].approval = f.kind /\ run[s] = "running"
                         /\ [op |-> f.kind, run |-> s] \in inbox
CallGoesOn(s) ==
  /\ called[s].started => called'[s].started
  /\ called[s].approval \in {"allow", "deny"} => called'[s].approval = called[s].approval
  /\ called[s].approval # "none" => called'[s].approval # "none"
  /\ Asking(inbox', called'[s], s)
GatewayTells ==
  /\ UNCHANGED <<link, clientVars>> /\ inbox' \subseteq inbox
  /\ \A s \in Sends : CallGoesOn(s)
  /\ wire' = wire \/ \E f \in Frames : wire' = Append(wire, f) /\ \A s \in Sends : SentOf(f, s)

LEMMA SentFollows ==
  ASSUME Ending, NEW s \in Sends, Courses(s), NEW f \in Frames, SentOf(f, s), NEW i \in DOMAIN wire
  PROVE  MayFollow(f, wire[i], s)
<1>1. Caused(wire[i], called[s], s) /\ Tells(wire[i], run)
  BY DEF Courses, Ending, FramesAreTrue
<1>2. ToolFrameOf(wire[i], s) /\ ToolFrameOf(f, s) => f.item.type = "done"
  BY <1>1 DEF Caused, SentOf
<1>3. DecisionOf(wire[i], s) => called[s].approval \in {"allow", "deny"}
  BY <1>1 DEF Caused, DecisionOf
<1>4. DecisionOf(wire[i], s) => ~ApprovalOf(f, s) /\ ~DecisionOf(f, s)
  BY <1>3 DEF SentOf
<1>5. EndFrameOf(wire[i], s) => run[s] \in Ends
  BY <1>1 DEF EndFrameOf, EndOf, Tells
<1>6. EndFrameOf(wire[i], s) => ~DecisionOf(f, s)
  BY <1>5 DEF SentOf, Ends
<1> QED BY <1>2, <1>4, <1>6 DEF MayFollow

LEMMA GatewayDenies ==
  ASSUME Denying, GatewayTells, NEW s \in Sends
  PROVE  Courses(s)' /\ (link' = "up" => Denials(s)')
<1>0. /\ Ending /\ Courses(s) /\ (link = "up" => Denials(s)) /\ wire \in Seq(Frames) /\ CallGoesOn(s)
      /\ UNCHANGED <<link, stream, traced, denied>> /\ inbox' \subseteq inbox
  BY DEF Denying, Ending, WireType, GatewayTells, clientVars
<1>a. \A d : [op |-> d, run |-> s] \in inbox' => [op |-> d, run |-> s] \in inbox
  BY <1>0
<1>1. ASSUME NEW f, Caused(f, called[s], s) PROVE Caused(f, called'[s], s)
  <2>1. DecisionOf(f, s) => called[s].approval \in {"allow", "deny"} /\ called'[s].approval = called[s].approval
    BY <1>0, <1>1 DEF Caused, DecisionOf, CallGoesOn
  <2> QED BY <1>0, <1>1, <2>1 DEF Caused, CallGoesOn
<1>2. CASE wire' = wire
  <2>1. \A i \in DOMAIN wire' : Caused(wire'[i], called'[s], s)
    BY <1>0, <1>1, <1>2 DEF Courses
  <2>2. StartAhead(wire', called'[s], s) => StartAhead(wire, called[s], s)
    BY <1>0, <1>2 DEF StartAhead, CallGoesOn
  <2>3. Courses(s)'
    BY <1>0, <1>2, <2>1, <2>2 DEF Courses, CallGoesOn
  <2>4. DenialAhead(wire', inbox', s) => DenialAhead(wire, inbox, s)
    BY <1>2, <1>a DEF DenialAhead
  <2>5. ASSUME link = "up" PROVE Denials(s)'
    <3>1. Expected(traced[s], StartAhead(wire, called[s], s)) => Expected(traced[s], StartAhead(wire', called'[s], s))
      BY <2>2 DEF Expected
    <3>2. Kept(traced[s], StartAhead(wire, called[s], s)) => Kept(traced[s], StartAhead(wire', called'[s], s))
      BY <2>2 DEF Kept
    <3>3. s \in denied => called'[s].approval = "deny"
      BY <1>0, <2>5 DEF Denials, CallGoesOn
    <3> QED BY <1>0, <1>2, <2>4, <2>5, <3>1, <3>2, <3>3 DEF Denials
  <2> QED BY <1>0, <2>3, <2>5
<1>3. ASSUME NEW f \in Frames, wire' = Append(wire, f), SentOf(f, s)
      PROVE  Courses(s)' /\ (link' = "up" => Denials(s)')
  <2>0. /\ DOMAIN wire = 1 .. Len(wire) /\ DOMAIN wire' = 1 .. Len(wire) + 1 /\ wire'[Len(wire) + 1] = f
        /\ \A i \in 1 .. Len(wire) : wire'[i] = wire[i]
        /\ Len(wire) \in Nat
    BY <1>0, <1>3
  <2>1. InOrder(wire', s)
    <3>1. PICK wr : wr = wire
      OBVIOUS
    <3>2. wr \in Seq(Frames) /\ InOrder(wr, s) /\ \A i \in DOMAIN wr : MayFollow(f, wr[i], s)
      BY <1>0, <1>3, <3>1, SentFollows DEF Courses
    <3>3. InOrder(Append(wr, f), s)
      BY <3>2, OrderAppended
    <3> QED BY <1>3, <3>1, <3>3
  <2>2. \A i \in DOMAIN wire' : Caused(wire'[i], called'[s], s)
    <3>1. Caused(f, called'[s], s)
      BY <1>3 DEF Caused, SentOf
    <3>2. \A i \in DOMAIN wire : Caused(wire[i], called[s], s)
      BY <1>0 DEF Courses
    <3> QED BY <1>1, <2>0, <3>1, <3>2
  <2>3. StartAhead(wire', called'[s], s) => StartAhead(wire, called[s], s)
    <3>1. ToolFrameOf(f, s) /\ f.item.type = "running" => ~called[s].started
      BY <1>3 DEF SentOf
    <3> QED BY <1>0, <2>0, <3>1 DEF StartAhead, CallGoesOn
  <2>4. Decided(stream[s].buffer, wire', s)
    <3>1. SUFFICES ASSUME NEW i \in DOMAIN stream[s].buffer, EndOf(stream[s].buffer[i], s)
          PROVE \A j \in DOMAIN wire' : ~DecisionOf(wire'[j], s)
      BY DEF Decided
    <3>2. run[s] \in Ends
      BY <1>0, <3>1 DEF Ending, Fits, EndOf
    <3>3. ~DecisionOf(f, s)
      BY <1>3, <3>2 DEF SentOf, Ends
    <3>4. \A j \in DOMAIN wire : ~DecisionOf(wire[j], s)
      BY <1>0, <3>1 DEF Courses, Decided
    <3> QED BY <2>0, <3>3, <3>4
  <2>5. Courses(s)'
    BY <1>0, <2>1, <2>2, <2>3, <2>4 DEF Courses, CallGoesOn
  <2>6. DenialAhead(wire', inbox', s) => DenialAhead(wire, inbox, s)
    <3>1. DecisionOf(f, s) /\ f.kind = "deny" => [op |-> "deny", run |-> s] \in inbox
      BY <1>3 DEF SentOf
    <3> QED BY <1>a, <2>0, <3>1 DEF DenialAhead
  <2>7. ASSUME link = "up" PROVE Denials(s)'
    <3>1. Expected(traced[s], StartAhead(wire, called[s], s)) => Expected(traced[s], StartAhead(wire', called'[s], s))
      BY <2>3 DEF Expected
    <3>2. Kept(traced[s], StartAhead(wire, called[s], s)) => Kept(traced[s], StartAhead(wire', called'[s], s))
      BY <2>3 DEF Kept
    <3>3. s \in denied => /\ called'[s].approval = "deny"
                          /\ \A i \in DOMAIN wire' : ~ApprovalOf(wire'[i], s) /\ ~DecisionOf(wire'[i], s)
      <4>1. SUFFICES ASSUME s \in denied
            PROVE /\ called'[s].approval = "deny"
                  /\ \A i \in DOMAIN wire' : ~ApprovalOf(wire'[i], s) /\ ~DecisionOf(wire'[i], s)
        OBVIOUS
      <4>2. /\ called[s].approval = "deny"
            /\ \A i \in DOMAIN wire : ~ApprovalOf(wire[i], s) /\ ~DecisionOf(wire[i], s)
        BY <1>0, <2>7, <4>1 DEF Denials
      <4>3. ~ApprovalOf(f, s) /\ ~DecisionOf(f, s)
        BY <1>3, <4>2 DEF SentOf
      <4> QED BY <1>0, <2>0, <4>2, <4>3 DEF CallGoesOn
    <3> QED BY <1>0, <2>6, <2>7, <3>1, <3>2, <3>3 DEF Denials
  <2> QED BY <1>0, <2>5, <2>7
<1> QED BY <1>2, <1>3 DEF GatewayTells

\* The calls as they were.
LEMMA CallsStay ==
  ASSUME Denying, called' = called, inbox' \subseteq inbox
  PROVE  \A s \in Sends : CallGoesOn(s)
<1>1. ASSUME NEW s \in Sends PROVE Asking(inbox', called[s], s)
  <2>1. Asking(inbox, called[s], s)
    BY DEF Denying, Courses
  <2> QED BY <2>1 DEF Asking
<1> QED BY <1>1 DEF CallGoesOn

LEMMA EmitsTells ==
  ASSUME Denying, NEW kind \in {"chat", "tool", "approval"}, NEW item \in Items, Emits(kind, item),
         \A s \in Sends : CallGoesOn(s), inbox' \subseteq inbox,
         kind = "tool" => called'[item.run].started /\ (item.type = "done" \/ ~called[item.run].started),
         kind = "approval" => called[item.run].approval = "none" /\ called'[item.run].approval # "none"
  PROVE  GatewayTells
<1> DEFINE f == [kind |-> kind, item |-> item, gap |-> hole]
<1>1. f \in Frames /\ f.kind = kind /\ f.item = item
  BY DEF Frames, EventFrames, Denying, Ending, LinkType
<1>2. wire' = Append(wire, f) \/ wire' = wire
  BY DEF Emits
<1> HIDE DEF f
<1>3. ASSUME NEW s \in Sends PROVE SentOf(f, s)
  BY <1>1 DEF SentOf, ToolFrameOf, ApprovalOf, DecisionOf
<1>4. UNCHANGED <<link, clientVars>>
  BY DEF Emits, linkVars
<1> QED BY <1>1, <1>2, <1>3, <1>4 DEF GatewayTells

LEMMA AnswersTell ==
  ASSUME Denying, NEW s \in Sends, NEW op, NEW kind, [kind |-> kind, run |-> s] \in AnswerFrames, Answers(op, s, kind),
         \A t \in Sends : CallGoesOn(t),
         kind \in {"allow", "deny"} => /\ called[s].approval = "open" /\ called'[s].approval = kind /\ run[s] = "running"
                                       /\ kind = op
  PROVE  GatewayTells
<1> DEFINE f == [kind |-> kind, run |-> s]
<1>1. f \in Frames /\ f.kind = kind /\ f.run = s /\ f.kind \notin {"chat", "tool", "approval"}
  BY DEF Frames, AnswerFrames
<1>2. wire' = Append(wire, f) /\ UNCHANGED <<link, clientVars>> /\ inbox' \subseteq inbox /\ [op |-> op, run |-> s] \in inbox
  BY DEF Answers, linkVars
<1> HIDE DEF f
<1>3. ASSUME NEW t \in Sends PROVE SentOf(f, t)
  BY <1>1, <1>2 DEF SentOf, ToolFrameOf, ApprovalOf, DecisionOf
<1> QED BY <1>1, <1>2, <1>3 DEF GatewayTells

LEMMA GatewayStepTells ==
  ASSUME StreamAssumption, Denying, NEW s \in Sends, GatewayNext(s)
  PROVE  GatewayTells
<1>0. /\ called \in [Sends -> Calls] /\ Ending /\ \A t \in Sends : Asking(inbox, called[t], t) /\ called[t] \in Calls
      /\ MaxDeltas \in Nat /\ emitted \in [Sends -> 0 .. MaxDeltas]
  BY DEF Denying, Ending, GateType, Courses, StreamAssumption
<1> USE DEF Happening
<1>1. CASE RunStarts(s)
  <2>1. UNCHANGED <<link, clientVars, wire, inbox, called>>
    BY <1>1 DEF RunStarts, linkVars
  <2> QED BY <2>1, CallsStay DEF GatewayTells
<1>2. CASE EmitDelta(s)
  <2>1. PICK item : item = Happening("delta", s, emitted'[s])
    OBVIOUS
  <2>2. emitted'[s] \in 0 .. MaxDeltas
    BY <1>0, <1>2 DEF EmitDelta
  <2>3. item \in Items /\ Emits("chat", item) /\ UNCHANGED <<inbox, called>>
    BY <1>2, <2>1, <2>2 DEF EmitDelta, Items
  <2>4. PICK kind \in {"chat", "tool", "approval"} : kind = "chat"
    OBVIOUS
  <2> QED BY <2>3, <2>4, CallsStay, EmitsTells
<1>3. CASE \E end \in Ends : EmitEnd(s, end)
  <2>1. PICK end \in Ends : EmitEnd(s, end)
    BY <1>3
  <2>2. PICK item : item = Happening(end, s, 0)
    OBVIOUS
  <2>3. item \in Items /\ Emits("chat", item) /\ called' = called /\ inbox' \subseteq inbox
    BY <1>0, <2>1, <2>2 DEF EmitEnd, Items
  <2>4. PICK kind \in {"chat", "tool", "approval"} : kind = "chat"
    OBVIOUS
  <2> QED BY <2>3, <2>4, CallsStay, EmitsTells
<1>4. CASE ToolStarts(s)
  <2>1. PICK item : item = Happening("running", s, 0)
    OBVIOUS
  <2>2. item \in Items /\ item.run = s
    BY <2>1, ToolItem DEF ToolStates
  <2>3. /\ Emits("tool", item) /\ inbox' = inbox /\ ~called[s].started
        /\ called' = [called EXCEPT ![s].started = TRUE]
    BY <1>4, <2>1 DEF ToolStarts
  <2>4. /\ called'[s].started /\ called'[s].approval = called[s].approval
        /\ \A t \in Sends : t # s => called'[t] = called[t]
    BY <1>0, <2>3 DEF Calls
  <2>5. ASSUME NEW t \in Sends PROVE CallGoesOn(t)
    BY <1>0, <2>3, <2>4 DEF CallGoesOn, Asking
  <2>6. PICK kind \in {"chat", "tool", "approval"} : kind = "tool"
    OBVIOUS
  <2> QED BY <2>2, <2>3, <2>4, <2>5, <2>6, EmitsTells
<1>5. CASE ApprovalAsked(s)
  <2>1. PICK item : item = Happening("waiting", s, 0)
    OBVIOUS
  <2>2. item \in Items /\ item.run = s
    BY <2>1, ToolItem DEF ToolStates
  <2>3. /\ Emits("approval", item) /\ inbox' = inbox /\ called[s].approval = "none"
        /\ called' = [called EXCEPT ![s].approval = "open"]
    BY <1>5, <2>1 DEF ApprovalAsked
  <2>4. /\ called'[s].started = called[s].started /\ called'[s].approval = "open"
        /\ \A t \in Sends : t # s => called'[t] = called[t]
    BY <1>0, <2>3 DEF Calls
  <2>5. ASSUME NEW t \in Sends PROVE CallGoesOn(t)
    BY <1>0, <2>3, <2>4 DEF CallGoesOn, Asking
  <2>6. PICK kind \in {"chat", "tool", "approval"} : kind = "approval"
    OBVIOUS
  <2> QED BY <2>2, <2>3, <2>4, <2>5, <2>6, EmitsTells
<1>6. CASE ToolFinishes(s)
  <2>1. PICK item : item = Happening("done", s, 0)
    OBVIOUS
  <2>2. item \in Items /\ item.run = s /\ item.type = "done"
    BY <2>1, ToolItem DEF ToolStates, Over
  <2>3. /\ Emits("tool", item) /\ inbox' = inbox /\ called[s].started
        /\ called' = [called EXCEPT ![s].finished = TRUE]
    BY <1>6, <2>1 DEF ToolFinishes
  <2>4. /\ called'[s].started = called[s].started /\ called'[s].approval = called[s].approval
        /\ \A t \in Sends : t # s => called'[t] = called[t]
    BY <1>0, <2>3 DEF Calls
  <2>5. ASSUME NEW t \in Sends PROVE CallGoesOn(t)
    BY <1>0, <2>3, <2>4 DEF CallGoesOn, Asking
  <2>6. PICK kind \in {"chat", "tool", "approval"} : kind = "tool"
    OBVIOUS
  <2> QED BY <2>2, <2>3, <2>4, <2>5, <2>6, EmitsTells
<1>7. ASSUME NEW op, NEW kind \in {"accepted", "wait over", "wait failed", "reply", "no reply", "pending", "refused"},
             Answers(op, s, kind), called' = called
      PROVE  GatewayTells
  <2>1. [kind |-> kind, run |-> s] \in AnswerFrames
    BY DEF AnswerFrames
  <2>2. inbox' \subseteq inbox
    BY <1>7 DEF Answers
  <2> QED BY <1>7, <2>1, <2>2, CallsStay, AnswersTell
<1>8. CASE AnswerSend(s) \/ AnswerWait(s) \/ AnswerList(s) \/ \E kind \in {"reply", "no reply"} : AnswerHistory(s, kind)
  <2>1. \E op : \E kind \in {"accepted", "wait over", "wait failed", "reply", "no reply", "pending", "refused"} :
          Answers(op, s, kind) /\ called' = called
    BY <1>8 DEF AnswerSend, AnswerWait, AnswerList, AnswerHistory
  <2> QED BY <1>7, <2>1
<1>9. CASE \E d \in {"allow", "deny"} : AnswerResolve(s, d)
  <2>1. PICK d \in {"allow", "deny"} : AnswerResolve(s, d)
    BY <1>9
  <2>2. CASE ~Asked(s)
    <3>1. Answers(d, s, "refused") /\ called' = called
      BY <2>1, <2>2 DEF AnswerResolve
    <3> QED BY <1>7, <3>1
  <2>3. CASE Asked(s)
    <3>1. /\ Answers(d, s, d) /\ called' = [called EXCEPT ![s].approval = d] /\ called[s].approval = "open"
          /\ run[s] = "running"
      BY <2>1, <2>3 DEF AnswerResolve, Asked
    <3>2. /\ called'[s].started = called[s].started /\ called'[s].approval = d
          /\ \A t \in Sends : t # s => called'[t] = called[t]
      BY <1>0, <3>1 DEF Calls
    <3>3. inbox' = inbox \ {[op |-> d, run |-> s]} /\ [op |-> d, run |-> s] \in inbox
      BY <3>1 DEF Answers
    <3>4. ASSUME NEW e \in {"allow", "deny"} PROVE [op |-> e, run |-> s] \notin inbox'
      <4>1. CASE e = d
        BY <3>3, <4>1
      <4>2. CASE e # d
        <5>1. [op |-> e, run |-> s] \notin inbox
          BY <1>0, <3>3, <4>2 DEF Asking
        <5> QED BY <3>3, <5>1
      <4> QED BY <4>1, <4>2
    <3>5. ASSUME NEW t \in Sends PROVE CallGoesOn(t)
      <4>1. CASE t = s
        <5>1. Asking(inbox', called'[s], s)
          BY <3>4 DEF Asking
        <5> QED BY <3>1, <3>2, <4>1, <5>1 DEF CallGoesOn
      <4>2. CASE t # s
        <5>1. Asking(inbox', called[t], t)
          BY <1>0, <3>3 DEF Asking
        <5> QED BY <3>2, <4>2, <5>1 DEF CallGoesOn
      <4> QED BY <4>1, <4>2
    <3>6. [kind |-> d, run |-> s] \in AnswerFrames
      BY DEF AnswerFrames
    <3> QED BY <3>1, <3>2, <3>5, <3>6, AnswersTell
  <2> QED BY <2>2, <2>3
<1> QED BY <1>1, <1>2, <1>3, <1>4, <1>5, <1>6, <1>8, <1>9 DEF GatewayNext

-----------------------------------------------------------------------------
(* A frame is taken, and what it makes of the tool goes to the streams. *)
TakesOn(e, s) ==
  /\ called' = called /\ wire # <<>> /\ wire' = Tail(wire) /\ inbox' = inbox /\ ToStreams(e)
  /\ EndOf(e, s) => EndFrameOf(Head(wire), s)
  /\ traced'[s].request => traced'[s].indexed
  /\ StartAhead(wire', called[s], s) => traced'[s].tool = "none"
  /\ ToolItemOf(e, s) => traced'[s].tool = e.type /\ e.type # "none"
  /\ ~ToolItemOf(e, s) /\ ~EndOf(e, s) => traced'[s].tool = traced[s].tool

\* What follows the frame that is taken.
LEMMA HeadLeads ==
  ASSUME Denying, NEW s \in Sends, wire # <<>>, wire' = Tail(wire)
  PROVE  /\ Taking /\ Caused(Head(wire), called[s], s) /\ 1 \in DOMAIN wire /\ Head(wire) = wire[1]
         /\ \A i \in DOMAIN wire' : MayFollow(wire'[i], Head(wire), s) /\ \E j \in DOMAIN wire : wire'[i] = wire[j]
<1>1. PICK wr : wr = wire
  OBVIOUS
<1>2. wr \in Seq(Frames) /\ InOrder(wr, s) /\ wr # <<>>
  BY <1>1 DEF Denying, Ending, WireType, Courses
<1>3. /\ Head(wr) = wr[1] /\ 1 \in DOMAIN wr
      /\ \A i \in DOMAIN Tail(wr) : /\ MayFollow(Tail(wr)[i], Head(wr), s)
                                    /\ i + 1 \in DOMAIN wr /\ Tail(wr)[i] = wr[i + 1]
  BY <1>2, OrderTaken
<1>4. Caused(wire[1], called[s], s)
  BY <1>1, <1>3 DEF Denying, Courses
<1> QED BY <1>1, <1>3, <1>4 DEF Taking

\* What was buffered stays, has one more item, or is gone.
LEMMA BufferIs ==
  ASSUME NEW s, NEW st \in Streams, Shaped(st), NEW e \in Items
  PROVE  \/ st.stage = "sent" /\ Enqueued(st, s, e).buffer = Append(st.buffer, e)
         \/ st.stage # "sent" /\ Enqueued(st, s, e).buffer = <<>>
<1>1. CASE st.stage = "sent"
  BY <1>1, EnqueuedIs
<1>2. CASE st.stage = "open" /\ e.run = s
  <2>1. Enqueued(st, s, e) = Pushed(st, e)
    BY <1>2 DEF Enqueued
  <2> QED BY <1>2, <2>1, PushedIs
<1>3. CASE st.stage # "sent" /\ ~(st.stage = "open" /\ e.run = s)
  BY <1>3 DEF Enqueued, Shaped
<1> QED BY <1>1, <1>2, <1>3

LEMMA TakesCourse ==
  ASSUME Denying, NEW s \in Sends, NEW e \in Items, TakesOn(e, s)
  PROVE  Courses(s)' /\ (link = "up" => Followed(stream'[s], traced'[s].tool, s))
<1>0. /\ Ending /\ Courses(s) /\ (link = "up" => Denials(s)) /\ stream[s] \in Streams /\ Shaped(stream[s])
      /\ stream'[s] = Enqueued(stream[s], s, e)
  BY DEF Denying, Ending, StreamType, TakesOn, ToStreams
<1>1. /\ Taking /\ \A i \in DOMAIN wire' : MayFollow(wire'[i], Head(wire), s) /\ \E j \in DOMAIN wire : wire'[i] = wire[j]
  BY HeadLeads DEF TakesOn
<1>2. PICK st, b : st = stream[s] /\ b = stream[s].buffer
  OBVIOUS
<1>3. Decided(stream'[s].buffer, wire', s)
  <2>1. Decided(b, wire', s)
    BY <1>0, <1>1, <1>2 DEF Courses, Decided
  <2>2. EndOf(e, s) => \A j \in DOMAIN wire' : ~DecisionOf(wire'[j], s)
    BY <1>1 DEF TakesOn, MayFollow
  <2>3. CASE stream'[s].buffer = Append(b, e)
    <3>1. b \in Seq(Items)
      BY <1>0, <1>2 DEF Streams
    <3>2. \A i \in DOMAIN Append(b, e) : Append(b, e)[i] = e \/ (i \in DOMAIN b /\ Append(b, e)[i] = b[i])
      BY <3>1, BufferAppended
    <3> QED BY <2>1, <2>2, <2>3, <3>2 DEF Decided
  <2>4. CASE stream'[s].buffer = <<>>
    BY <2>4 DEF Decided
  <2>5. stream'[s].buffer = Append(b, e) \/ stream'[s].buffer = <<>>
    BY <1>0, <1>2, BufferIs
  <2> QED BY <2>3, <2>4, <2>5
<1>4. Courses(s)'
  <2>1. Asking(inbox', called[s], s)
    BY <1>0 DEF Courses, TakesOn
  <2> QED BY <1>0, <1>1, <1>3, <2>1, CourseKept DEF TakesOn
<1>5. ASSUME link = "up" PROVE Followed(stream'[s], traced'[s].tool, s)
  <2>1. PICK tool, tool1 : tool = traced[s].tool /\ tool1 = traced'[s].tool
    OBVIOUS
  <2>2. Followed(st, tool, s)
    BY <1>0, <1>2, <1>5, <2>1 DEF Denials
  <2>3. /\ ToolItemOf(e, s) => tool1 = e.type /\ e.type # "none"
        /\ ~ToolItemOf(e, s) /\ ~EndOf(e, s) => tool1 = tool
    BY <2>1 DEF TakesOn
  <2>4. Followed(Enqueued(st, s, e), tool1, s)
    BY <1>0, <1>2, <2>2, <2>3, FollowedOn
  <2> QED BY <1>0, <1>2, <2>1, <2>4
<1> QED BY <1>4, <1>5

LEMMA TakesDenial ==
  ASSUME Denying, NEW s \in Sends, NEW e \in Items, TakesOn(e, s), link = "up", s \in denied' => s \in denied,
         DenialAhead(wire, inbox, s) => Expected(traced'[s], StartAhead(wire', called[s], s)),
         s \in denied => Kept(traced'[s], StartAhead(wire', called[s], s)) /\ (ToolItemOf(e, s) => e.type \in Over)
  PROVE  Denials(s)'
<1>0. /\ Ending /\ Courses(s) /\ Denials(s) /\ stream[s] \in Streams /\ Shaped(stream[s])
      /\ stream'[s] = Enqueued(stream[s], s, e) /\ called' = called /\ inbox' = inbox
  BY DEF Denying, Ending, StreamType, TakesOn, ToStreams
<1>1. Taking
  BY HeadLeads DEF TakesOn
<1>2. DenialAhead(wire', inbox', s) => DenialAhead(wire, inbox, s)
  BY <1>0, <1>1, TakingIs DEF Courses
<1>3. Followed(stream'[s], traced'[s].tool, s)
  BY TakesCourse
<1>4. s \in denied => Settles(stream'[s].buffer, s)
  <2>1. PICK st : st = stream[s]
    OBVIOUS
  <2>2. s \in denied => Settles(Enqueued(st, s, e).buffer, s)
    BY <1>0, <2>1, EnqueuedSettles DEF Denials
  <2> QED BY <1>0, <2>1, <2>2
<1> QED BY <1>0, <1>1, <1>2, <1>3, <1>4, DenialsKept

-----------------------------------------------------------------------------
(* The client's steps. *)
LEMMA ChatDenies ==
  ASSUME StreamAssumption, Denying, ChatFrame, NEW s \in Sends
  PROVE  Courses(s)' /\ (link' = "up" => Denials(s)')
<1>1. PICK e : e = Head(wire).item
  OBVIOUS
<1>2. /\ wire # <<>> /\ Head(wire).kind = "chat" /\ ToStreams(e) /\ wire' = Tail(wire) /\ called' = called
      /\ UNCHANGED <<link, inbox, denied>> /\ link = "up"
      /\ traced' = IF e.type \in Ends /\ Listening THEN [traced EXCEPT ![e.run] = Cleared(traced[e.run])] ELSE traced
  BY <1>1 DEF ChatFrame, Event, Arrives, Taken, gatewayVars
<1>3. /\ Ending /\ Courses(s) /\ Denials(s) /\ traced \in [Sends -> Traces] /\ traced[s] \in Traces
  BY <1>2 DEF Denying, Ending, TraceType
<1>4. e \in Items /\ e.run \in Sends /\ e.type \in Ends \cup {"delta"}
  BY <1>1, <1>2, <1>3, HeadIs DEF IsEvent, Tells
<1>5. ~ToolItemOf(e, s)
  BY <1>4, ItemTypes DEF ToolItemOf
<1>6. traced'[s] \in {traced[s], Cleared(traced[s])} /\ (~EndOf(e, s) => traced'[s] = traced[s])
  BY <1>2, <1>3, <1>4 DEF EndOf
<1>7. PICK ahead, ahead1 : ahead = StartAhead(wire, called[s], s) /\ ahead1 = StartAhead(wire', called[s], s)
  OBVIOUS
<1>8. PICK tr, tr1 : tr = traced[s] /\ tr1 = traced'[s]
  OBVIOUS
<1>9. Taking /\ ahead \in BOOLEAN /\ ahead1 \in BOOLEAN /\ (ahead1 => ahead)
  <2>1. Taking
    BY <1>2, HeadLeads
  <2> QED BY <1>3, <1>7, <2>1, TakingIs DEF StartAhead, Courses
<1>10. tr.request => tr.indexed /\ (ahead => tr.tool = "none")
  BY <1>3, <1>7, <1>8 DEF Courses
<1>11. TraceKept(tr, tr1, ahead, ahead1)
  <2>1. tr \in Traces /\ (tr.request => tr.indexed) /\ (ahead => tr.tool = "none") /\ tr1 \in {tr, Cleared(tr)}
    BY <1>3, <1>6, <1>7, <1>8 DEF Courses
  <2> QED BY <1>9, <2>1, TraceStays
<1>12. EndOf(e, s) => EndFrameOf(Head(wire), s)
  BY <1>1, <1>2 DEF EndFrameOf
<1>13. TakesOn(e, s)
  BY <1>2, <1>5, <1>6, <1>7, <1>8, <1>11, <1>12 DEF TakesOn, TraceKept
<1>14. /\ DenialAhead(wire, inbox, s) => Expected(tr1, ahead1)
       /\ s \in denied => Kept(tr1, ahead1)
  BY <1>3, <1>7, <1>8, <1>11 DEF Denials, TraceKept
<1> QED BY <1>2, <1>4, <1>5, <1>7, <1>8, <1>13, <1>14, TakesCourse, TakesDenial

\* The start of a tool, once taken, is not ahead.
LEMMA StartTaken ==
  ASSUME Denying, NEW s \in Sends, wire # <<>>, wire' = Tail(wire), ToolFrameOf(Head(wire), s)
  PROVE  ~StartAhead(wire', called[s], s)
<1>1. /\ Caused(Head(wire), called[s], s) /\ \A i \in DOMAIN wire' : MayFollow(wire'[i], Head(wire), s)
  BY HeadLeads
<1>2. called[s].started
  BY <1>1 DEF Caused
<1>3. \A i \in DOMAIN wire' : ToolFrameOf(wire'[i], s) => wire'[i].item.type = "done"
  BY <1>1 DEF MayFollow
<1> QED BY <1>2, <1>3 DEF StartAhead

LEMMA ToolDenies ==
  ASSUME StreamAssumption, Denying, ToolFrame, NEW s \in Sends
  PROVE  Courses(s)' /\ (link' = "up" => Denials(s)')
<1>1. PICK f, t, tr : f = Head(wire) /\ t = f.item.run /\ tr = traced[t]
  OBVIOUS
<1>2. PICK state : state = Recorded(tr, f.item.type)
  OBVIOUS
<1>3. /\ wire # <<>> /\ f.kind = "tool" /\ wire' = Tail(wire) /\ called' = called
      /\ UNCHANGED <<link, inbox, denied>> /\ link = "up"
      /\ \/ UNCHANGED <<stream, traced>>
         \/ traced' = [traced EXCEPT ![t].tool = state] /\ ToStreams(Happening(state, t, 0))
  BY <1>1, <1>2 DEF ToolFrame, Event, Arrives, Taken, gatewayVars
<1>4. /\ Ending /\ Courses(s) /\ Denials(s) /\ traced \in [Sends -> Traces] /\ Taking
  BY <1>3, HeadLeads DEF Denying, Ending, TraceType
<1>5. t \in Sends /\ f.item.type \in {"running", "done"} /\ tr \in Traces
  BY <1>1, <1>3, <1>4, HeadIs DEF IsEvent, Tells
<1>6. CASE UNCHANGED <<stream, traced>>
  <2>1. Quiet(s)
    BY <1>3, <1>6 DEF Quiet
  <2> QED BY <1>3, <1>4, <2>1, QuietKeeps
<1>7. CASE traced' = [traced EXCEPT ![t].tool = state] /\ ToStreams(Happening(state, t, 0))
  <2>1. state \in {"running", "done", "cancelled"} /\ state \in ToolStates
    BY <1>2, <1>5 DEF Recorded, ToolStates, Over
  <2>2. PICK e : e = Happening(state, t, 0)
    OBVIOUS
  <2>3. e \in Items /\ e.type = state /\ e.run = t /\ e.type \notin Ends
    BY <1>5, <2>1, <2>2, ToolItem
  <2>4. ~EndOf(e, s)
    BY <2>3 DEF EndOf
  <2>5. PICK ahead, ahead1 : ahead = StartAhead(wire, called[s], s) /\ ahead1 = StartAhead(wire', called[s], s)
    OBVIOUS
  <2>6. ahead \in BOOLEAN /\ ahead1 \in BOOLEAN /\ (ahead1 => ahead)
    BY <1>4, <2>5, TakingIs DEF StartAhead, Courses
  <2>7. CASE t = s
    <3>1. ToolFrameOf(f, s)
      BY <1>1, <1>3, <2>7 DEF ToolFrameOf
    <3>2. ~ahead1
      BY <1>1, <1>3, <2>5, <3>1, StartTaken
    <3>3. f.item.type = "done" \/ (f.item.type = "running" /\ ahead)
      <4>1. f = wire[1] /\ 1 \in DOMAIN wire
        BY <1>1, <1>3, HeadLeads
      <4> QED BY <1>5, <2>5, <3>1, <4>1 DEF StartAhead
    <3>4. PICK tr1 : tr1 = [tr EXCEPT !.tool = state]
      OBVIOUS
    <3>5. traced'[s] = tr1 /\ tr = traced[s]
      BY <1>1, <1>4, <1>7, <2>7, <3>4
    <3>6. tr.request => tr.indexed
      BY <1>4, <3>5 DEF Courses
    <3>7. TraceKept(tr, tr1, ahead, FALSE) /\ tr1.tool = state
      BY <1>2, <1>5, <2>6, <3>3, <3>4, <3>6, TraceTool
    <3>8. TakesOn(e, s)
      BY <1>3, <1>7, <2>1, <2>2, <2>3, <2>4, <2>5, <2>7, <3>2, <3>5, <3>7 DEF TakesOn, TraceKept, ToolItemOf
    <3>9. /\ DenialAhead(wire, inbox, s) => Expected(tr1, FALSE)
          /\ s \in denied => Kept(tr1, FALSE)
      BY <1>4, <2>5, <3>5, <3>7 DEF Denials, TraceKept
    <3>10. s \in denied => e.type \in Over
      BY <2>1, <2>3, <3>7, <3>9 DEF Kept
    <3>11. ahead1 = FALSE
      BY <2>6, <3>2
    <3> QED BY <1>3, <2>3, <2>5, <3>5, <3>8, <3>9, <3>10, <3>11, TakesCourse, TakesDenial
  <2>8. CASE t # s
    <3>1. traced'[s] = traced[s] /\ ~ToolItemOf(e, s)
      BY <1>4, <1>5, <1>7, <2>3, <2>8 DEF ToolItemOf
    <3>2. TakesOn(e, s)
      BY <1>3, <1>4, <1>7, <2>2, <2>4, <2>5, <2>6, <3>1 DEF TakesOn, Courses
    <3>3. /\ DenialAhead(wire, inbox, s) => Expected(traced'[s], ahead1)
          /\ s \in denied => Kept(traced'[s], ahead1)
      BY <1>4, <2>5, <2>6, <3>1 DEF Denials, Expected, Kept
    <3> QED BY <1>3, <2>3, <2>5, <3>1, <3>2, <3>3, TakesCourse, TakesDenial
  <2> QED BY <2>7, <2>8
<1> QED BY <1>3, <1>6, <1>7

LEMMA ApprovalDenies ==
  ASSUME StreamAssumption, Denying, ApprovalFrame, NEW s \in Sends
  PROVE  Courses(s)' /\ (link' = "up" => Denials(s)')
<1>1. PICK f, t, tr : f = Head(wire) /\ t = f.item.run /\ tr = traced[t]
  OBVIOUS
<1>2. PICK pauses \in BOOLEAN : pauses = (tr.tool \notin Over \cup {"none"})
  OBVIOUS
<1>3. /\ wire # <<>> /\ f.kind = "approval" /\ wire' = Tail(wire) /\ called' = called
      /\ UNCHANGED <<link, inbox, denied>> /\ link = "up"
      /\ \/ UNCHANGED <<stream, traced>>
         \/ /\ traced' = [traced EXCEPT ![t].seen = TRUE, ![t].request = TRUE, ![t].indexed = TRUE,
                                        ![t].tool = IF pauses THEN "waiting" ELSE @]
            /\ IF pauses THEN ToStreams(Happening("waiting", t, 0)) ELSE UNCHANGED stream
  BY <1>1, <1>2 DEF ApprovalFrame, Event, Arrives, Taken, gatewayVars
<1>4. /\ Ending /\ Courses(s) /\ Denials(s) /\ traced \in [Sends -> Traces] /\ stream \in [Sends -> Streams] /\ Taking
  BY <1>3, HeadLeads DEF Denying, Ending, TraceType, StreamType
<1>5. t \in Sends /\ tr \in Traces
  BY <1>1, <1>3, <1>4, HeadIs DEF IsEvent
<1>6. t = s => s \notin denied
  <2>1. ApprovalOf(f, t) /\ f = wire[1] /\ 1 \in DOMAIN wire
    BY <1>1, <1>3, <1>4, HeadLeads DEF ApprovalOf
  <2> QED BY <1>4, <2>1 DEF Denials
<1>7. CASE UNCHANGED <<stream, traced>>
  <2>1. Quiet(s)
    BY <1>3, <1>7 DEF Quiet
  <2> QED BY <1>3, <1>4, <2>1, QuietKeeps
<1>8. CASE /\ traced' = [traced EXCEPT ![t].seen = TRUE, ![t].request = TRUE, ![t].indexed = TRUE,
                                       ![t].tool = IF pauses THEN "waiting" ELSE @]
           /\ IF pauses THEN ToStreams(Happening("waiting", t, 0)) ELSE UNCHANGED stream
  <2>1. PICK tr1 : tr1 = [tr EXCEPT !.seen = TRUE, !.request = TRUE, !.indexed = TRUE,
                                    !.tool = IF pauses THEN "waiting" ELSE @]
    OBVIOUS
  <2>2. /\ tr1.request /\ tr1.indexed /\ tr1.decision = tr.decision
        /\ tr1.tool = IF pauses THEN "waiting" ELSE tr.tool
    BY <1>5, <2>1 DEF Traces
  <2>3. traced' = [traced EXCEPT ![t] = tr1]
    BY <1>1, <1>4, <1>5, <1>8, <2>1
  <2>4. traced'[t] = tr1 /\ (t # s => traced'[s] = traced[s])
    BY <1>4, <1>5, <2>3
  <2>5. CASE ~pauses
    <3>1. UNCHANGED stream /\ Noted(tr, tr1)
      BY <1>8, <2>2, <2>5 DEF Noted
    <3>2. traced'[s] = traced[s] \/ Noted(traced[s], traced'[s])
      BY <1>1, <2>4, <3>1
    <3>3. traced'[s].tool = traced[s].tool
      BY <3>2 DEF Noted
    <3>4. Quiet(s)
      BY <1>3, <3>1, <3>2, <3>3 DEF Quiet
    <3> QED BY <1>3, <1>4, <3>4, QuietKeeps
  <2>6. CASE pauses
    <3>1. PICK state : state = "waiting"
      OBVIOUS
    <3>2. PICK e : e = Happening(state, t, 0)
      OBVIOUS
    <3>3. state \in ToolStates
      BY <3>1 DEF ToolStates
    <3>4. e \in Items /\ e.type = state /\ e.run = t /\ e.type \notin Ends
      BY <1>5, <3>2, <3>3, ToolItem
    <3>5. ~EndOf(e, s) /\ ToStreams(e)
      BY <1>8, <2>6, <3>1, <3>2, <3>4 DEF EndOf
    <3>6. PICK ahead, ahead1 : ahead = StartAhead(wire, called[s], s) /\ ahead1 = StartAhead(wire', called[s], s)
      OBVIOUS
    <3>7. ahead \in BOOLEAN /\ ahead1 \in BOOLEAN /\ (ahead1 => ahead)
      BY <1>4, <3>6, TakingIs DEF StartAhead, Courses
    <3>8. CASE t = s
      <4>1. ~ahead1
        BY <1>1, <1>2, <1>4, <2>6, <3>6, <3>7, <3>8 DEF Courses
      <4>a. /\ traced'[s].request /\ traced'[s].indexed /\ traced'[s].tool = e.type /\ e.type # "none"
            /\ ToolItemOf(e, s)
        BY <2>2, <2>4, <2>6, <3>1, <3>3, <3>4, <3>8 DEF ToolItemOf
      <4>2. TakesOn(e, s)
        BY <1>3, <3>5, <3>6, <4>1, <4>a DEF TakesOn
      <4>3. Expected(traced'[s], ahead1)
        BY <2>2, <2>4, <3>8 DEF Expected
      <4> QED BY <1>3, <1>6, <3>4, <3>6, <3>8, <4>2, <4>3, TakesCourse, TakesDenial
    <3>9. CASE t # s
      <4>1. traced'[s] = traced[s] /\ ~ToolItemOf(e, s)
        BY <2>4, <3>4, <3>9 DEF ToolItemOf
      <4>2. TakesOn(e, s)
        BY <1>3, <1>4, <3>5, <3>6, <3>7, <4>1 DEF TakesOn, Courses
      <4>3. /\ DenialAhead(wire, inbox, s) => Expected(traced'[s], ahead1)
            /\ s \in denied => Kept(traced'[s], ahead1)
        BY <1>4, <3>6, <3>7, <4>1 DEF Denials, Expected, Kept
      <4> QED BY <1>3, <3>4, <3>6, <4>1, <4>2, <4>3, TakesCourse, TakesDenial
    <3> QED BY <3>8, <3>9
  <2> QED BY <2>5, <2>6
<1> QED BY <1>3, <1>7, <1>8

(* The answer to a decision. *)
\* What is known when the decision on [s] is taken from the wire.
LEMMA DecisionTaken ==
  ASSUME Denying, NEW s \in Sends, wire # <<>>, wire' = Tail(wire), inbox' = inbox, DecisionOf(Head(wire), s)
  PROVE  /\ called[s].approval = Head(wire).kind /\ ~DenialAhead(wire', inbox, s)
         /\ \A i \in DOMAIN wire' : ~ApprovalOf(wire'[i], s) /\ ~DecisionOf(wire'[i], s)
         /\ Head(wire).kind = "deny" => DenialAhead(wire, inbox, s)
         /\ link = "up" => s \notin denied
         /\ NoEnd(stream[s].buffer, Len(stream[s].buffer), s)
<1>1. /\ Caused(Head(wire), called[s], s) /\ 1 \in DOMAIN wire /\ Head(wire) = wire[1]
      /\ \A i \in DOMAIN wire' : MayFollow(wire'[i], Head(wire), s)
  BY HeadLeads
<1>2. called[s].approval = Head(wire).kind /\ Head(wire).kind \in {"allow", "deny"}
  BY <1>1 DEF Caused, DecisionOf
<1>3. \A i \in DOMAIN wire' : ~ApprovalOf(wire'[i], s) /\ ~DecisionOf(wire'[i], s)
  BY <1>1 DEF MayFollow
<1>4. [op |-> "deny", run |-> s] \notin inbox
  BY <1>2 DEF Denying, Courses, Asking
<1>5. ~DenialAhead(wire', inbox, s) /\ (Head(wire).kind = "deny" => DenialAhead(wire, inbox, s))
  BY <1>1, <1>3, <1>4 DEF DenialAhead
<1>6. link = "up" => s \notin denied
  BY <1>1 DEF Denying, Denials
<1>7. NoEnd(stream[s].buffer, Len(stream[s].buffer), s)
  <2>1. stream[s].buffer \in Seq(Items) /\ Decided(stream[s].buffer, wire, s)
    BY DEF Denying, Ending, StreamType, Streams, Courses
  <2>2. \A i \in DOMAIN stream[s].buffer : ~EndOf(stream[s].buffer[i], s)
    BY <1>1, <2>1 DEF Decided
  <2>3. DOMAIN stream[s].buffer = 1 .. Len(stream[s].buffer)
    BY <2>1
  <2> QED BY <2>2, <2>3 DEF NoEnd
<1> QED BY <1>2, <1>3, <1>5, <1>6, <1>7

\* A tool that is over, or not known, is over in what is buffered.
LEMMA BufferSettles ==
  ASSUME Denying, link = "up", NEW s \in Sends, traced[s].tool \in Over \cup {"none"},
         NoEnd(stream[s].buffer, Len(stream[s].buffer), s)
  PROVE  Settles(stream[s].buffer, s)
<1>1. PICK b, tool : b = stream[s].buffer /\ tool = traced[s].tool
  OBVIOUS
<1>2. b \in Seq(Items) /\ Followed(stream[s], tool, s) /\ Shaped(stream[s])
  BY <1>1 DEF Denying, Ending, StreamType, Streams, Denials
<1>3. CASE stream[s].stage = "sent"
  <2>1. LastTool(b, tool, s) /\ NoEnd(b, Len(b), s) /\ tool \in Over \cup {"none"}
    BY <1>1, <1>2, <1>3 DEF Followed
  <2> QED BY <1>1, <1>2, <2>1, LastSettles
<1>4. CASE stream[s].stage # "sent"
  BY <1>2, <1>4 DEF Shaped, Settles
<1> QED BY <1>3, <1>4

LEMMA ResolvedDenies ==
  ASSUME StreamAssumption, Denying, Resolved, NEW s \in Sends
  PROVE  Courses(s)' /\ (link' = "up" => Denials(s)')
<1>1. PICK t, decision : t = About /\ decision = Head(wire).kind
  OBVIOUS
<1>2. PICK tr : tr = traced[t]
  OBVIOUS
<1>3. PICK state : state = IF decision = "deny" THEN "cancelled" ELSE "running"
  OBVIOUS
<1>4. PICK tracked \in BOOLEAN : tracked = (tr.tool \notin Over \cup {"none"})
  OBVIOUS
<1>5. /\ wire # <<>> /\ wire' = Tail(wire) /\ called' = called /\ inbox' = inbox /\ link' = link
      /\ decision \in {"allow", "deny"} /\ Head(wire).run = t
      /\ traced' = IF ~tr.request THEN traced
                   ELSE [traced EXCEPT ![t].request = FALSE, ![t].decision = decision,
                                       ![t].tool = IF tracked THEN state ELSE @]
      /\ IF tr.request /\ tracked THEN ToStreams(Happening(state, t, 0)) ELSE UNCHANGED stream
      /\ denied' = IF decision = "deny" /\ link = "up" THEN denied \cup {t} ELSE denied
  BY <1>1, <1>2, <1>3, <1>4 DEF Resolved, Arrives, Taken, gatewayVars, linkVars, About
<1>6. /\ Ending /\ Courses(s) /\ (link = "up" => Denials(s)) /\ traced \in [Sends -> Traces] /\ Taking
      /\ stream \in [Sends -> Streams]
  BY <1>5, HeadLeads DEF Denying, Ending, TraceType, StreamType
<1>7. t \in Sends /\ DecisionOf(Head(wire), t)
  BY <1>1, <1>5, <1>6, HeadIs DEF IsEvent, DecisionOf
<1>8. PICK ahead, ahead1 : ahead = StartAhead(wire, called[s], s) /\ ahead1 = StartAhead(wire', called[s], s)
  OBVIOUS
<1>9. ahead \in BOOLEAN /\ ahead1 \in BOOLEAN /\ (ahead1 => ahead)
  BY <1>6, <1>8, TakingIs DEF StartAhead, Courses
<1>10. PICK e : e = Happening(state, t, 0)
  OBVIOUS
<1>11. e \in Items /\ e.type = state /\ e.run = t /\ e.type \notin Ends /\ e.type # "none"
  <2>1. state \in ToolStates /\ state # "none"
    BY <1>3 DEF ToolStates, Over
  <2> QED BY <1>7, <1>10, <2>1, ToolItem
<1>12. ~EndOf(e, s)
  BY <1>11 DEF EndOf
<1>13. CASE t # s
  <2>1. traced'[s] = traced[s] /\ ~ToolItemOf(e, s) /\ (s \in denied' => s \in denied)
    BY <1>5, <1>6, <1>7, <1>11, <1>13 DEF ToolItemOf
  <2>2. CASE tr.request /\ tracked
    <3>1. TakesOn(e, s)
      BY <1>5, <1>6, <1>8, <1>9, <1>10, <1>12, <2>1, <2>2 DEF TakesOn, Courses
    <3>2. link = "up" => /\ DenialAhead(wire, inbox, s) => Expected(traced'[s], ahead1)
                         /\ s \in denied => Kept(traced'[s], ahead1)
      BY <1>6, <1>8, <1>9, <2>1 DEF Denials, Expected, Kept
    <3> QED BY <1>5, <1>8, <1>11, <2>1, <3>1, <3>2, TakesCourse, TakesDenial
  <2>3. CASE ~(tr.request /\ tracked)
    <3>1. Quiet(s)
      BY <1>5, <2>1, <2>3 DEF Quiet
    <3> QED BY <1>5, <1>6, <3>1, QuietKeeps
  <2> QED BY <2>2, <2>3
<1>14. CASE t = s
  <2>1. /\ called[s].approval = decision /\ ~DenialAhead(wire', inbox, s)
        /\ \A i \in DOMAIN wire' : ~ApprovalOf(wire'[i], s) /\ ~DecisionOf(wire'[i], s)
        /\ decision = "deny" => DenialAhead(wire, inbox, s)
        /\ link = "up" => s \notin denied
        /\ NoEnd(stream[s].buffer, Len(stream[s].buffer), s)
    BY <1>1, <1>5, <1>7, <1>14, DecisionTaken
  <2>2. link = "up" /\ s \in denied' => decision = "deny"
    BY <1>5, <2>1
  <2>3. tr = traced[s] /\ tr \in Traces /\ (tr.request => tr.indexed) /\ (ahead => tr.tool = "none")
    BY <1>2, <1>6, <1>8, <1>14 DEF Courses
  <2>4. PICK tr1 : tr1 = traced'[s]
    OBVIOUS
  <2>5. /\ ~tr.request => tr1 = tr
        /\ tr.request => /\ ~tr1.request /\ tr1.decision = decision /\ tr1.indexed
                         /\ tr1.tool = IF tracked THEN state ELSE tr.tool
    <3>1. CASE tr.request
      <4>1. PICK x : x = [tr EXCEPT !.request = FALSE, !.decision = decision, !.tool = IF tracked THEN state ELSE @]
        OBVIOUS
      <4>2. traced' = [traced EXCEPT ![t] = x]
        BY <1>2, <1>5, <1>6, <1>7, <3>1, <4>1
      <4>3. tr1 = x
        BY <1>6, <1>7, <1>14, <2>4, <4>2
      <4> QED BY <2>3, <3>1, <4>1, <4>3 DEF Traces
    <3>2. CASE ~tr.request
      BY <1>5, <2>3, <2>4, <3>2
    <3> QED BY <3>1, <3>2
  <2>6. /\ tr1.request => tr1.indexed
        /\ ahead1 => tr1.tool = "none"
    BY <1>4, <1>9, <2>3, <2>5
  <2>7. link = "up" /\ decision = "deny" => Kept(tr1, ahead1)
    <3>1. SUFFICES ASSUME link = "up", decision = "deny" PROVE Kept(tr1, ahead1)
      OBVIOUS
    <3>2. Expected(tr, ahead)
      BY <1>6, <1>8, <2>1, <2>3, <3>1 DEF Denials
    <3>3. CASE ~tr.request
      BY <1>9, <2>5, <3>2, <3>3 DEF Expected, Kept
    <3>4. CASE tr.request /\ tracked
      BY <1>3, <1>4, <1>9, <2>3, <2>5, <3>1, <3>4 DEF Kept, Over
    <3>5. CASE tr.request /\ ~tracked
      BY <1>4, <1>9, <2>5, <3>1, <3>5 DEF Kept
    <3> QED BY <3>3, <3>4, <3>5
  <2>8. CASE tr.request /\ tracked
    <3>1. ToolItemOf(e, s) /\ tr1.tool = e.type /\ ToStreams(e)
      <4>1. state \in ToolStates
        BY <1>3 DEF ToolStates, Over
      <4> QED BY <1>5, <1>10, <1>11, <1>14, <2>5, <2>8, <4>1 DEF ToolItemOf
    <3>2. TakesOn(e, s)
      BY <1>5, <1>8, <1>11, <1>12, <2>4, <2>6, <3>1 DEF TakesOn
    <3>3. Courses(s)' /\ (link = "up" => Followed(stream'[s], traced'[s].tool, s))
      BY <1>11, <3>2, TakesCourse
    <3>4. ASSUME link = "up", decision = "deny" PROVE Settles(stream'[s].buffer, s)
      <4>1. PICK st, b : st = stream[s] /\ b = stream[s].buffer
        OBVIOUS
      <4>2. st \in Streams /\ Shaped(st) /\ b \in Seq(Items) /\ stream'[s] = Enqueued(st, s, e)
        BY <3>1, <4>1 DEF Denying, Ending, StreamType, Streams, ToStreams
      <4>3. e.type \in Over
        BY <1>3, <1>11, <3>4 DEF Over
      <4>a. NoEnd(b, Len(b), s) /\ e \in Items /\ ToolItemOf(e, s)
        BY <1>11, <2>1, <3>1, <4>1
      <4>4. Settles(Append(b, e), s)
        BY <4>2, <4>3, <4>a, SettlesOn
      <4>5. Settles(<<>>, s)
        BY DEF Settles
      <4>6. stream'[s].buffer = Append(b, e) \/ stream'[s].buffer = <<>>
        <5>1. b = st.buffer /\ e \in Items
          BY <1>11, <4>1
        <5>2. Enqueued(st, s, e).buffer = Append(b, e) \/ Enqueued(st, s, e).buffer = <<>>
          BY <4>2, <5>1, BufferIs
        <5> QED BY <4>2, <5>2
      <4> QED BY <4>4, <4>5, <4>6
    <3>5. link = "up" => Denials(s)'
      BY <1>5, <1>8, <2>1, <2>2, <2>4, <2>7, <3>3, <3>4 DEF Denials
    <3> QED BY <1>5, <3>3, <3>5
  <2>9. CASE ~(tr.request /\ tracked)
    <3>1. UNCHANGED stream /\ tr1.tool = tr.tool
      BY <1>5, <2>5, <2>9
    <3>2. Courses(s)'
      <4>1. Decided(stream'[s].buffer, wire', s)
        BY <2>1 DEF Decided
      <4>2. Asking(inbox', called[s], s)
        BY <1>5, <1>6 DEF Courses
      <4> QED BY <1>5, <1>6, <1>8, <2>4, <2>6, <4>1, <4>2, CourseKept
    <3>3. ASSUME link = "up" PROVE Denials(s)'
      <4>1. Followed(stream'[s], traced'[s].tool, s)
        BY <1>6, <2>3, <2>4, <3>1, <3>3 DEF Denials
      <4>2. decision = "deny" => Settles(stream'[s].buffer, s)
        <5>1. SUFFICES ASSUME decision = "deny" PROVE Settles(stream[s].buffer, s)
          BY <3>1
        <5>2. traced[s].tool \in Over \cup {"none"}
          BY <2>3, <2>7, <3>1, <3>3, <5>1 DEF Kept
        <5> QED BY <2>1, <3>3, <5>2, BufferSettles
      <4> QED BY <1>5, <1>8, <2>1, <2>2, <2>4, <2>7, <3>3, <4>1, <4>2 DEF Denials
    <3> QED BY <1>5, <3>2, <3>3
  <2> QED BY <2>8, <2>9
<1> QED BY <1>13, <1>14

\* The end that the recovery supplies ends the stream, which is open.
LEMMA SupplyQuiet ==
  ASSUME StreamAssumption, Denying, NEW s \in Sends, NEW t \in Sends, NEW end \in {"final", "error"}, Supplies(t, end),
         stream[t].recovery # "off", inbox' = inbox, denied' = denied
  PROVE  Quiet(s)
<1>1. /\ stream \in [Sends -> Streams] /\ traced \in [Sends -> Traces] /\ Shaped(stream[t]) /\ stream[t] \in Streams
  BY DEF Denying, Ending, StreamType, TraceType
<1>2. PICK st, e : st = stream[t] /\ e = Happening(end, t, 0)
  OBVIOUS
<1>3. e \in Items /\ e.type \in Ends /\ e.run = t
  BY <1>2 DEF StreamAssumption, Happening, Items, Ends
<1>4. st.stage = "open" /\ Enqueued(st, t, e) = Pushed(st, e)
  BY <1>1, <1>2, <1>3 DEF Shaped, Enqueued
<1>5. Pushed(st, e).stage = "ended" /\ Pushed(st, e).buffer = <<>>
  BY <1>1, <1>2, <1>3, <1>4, PushedIs
<1>6. stream' = [stream EXCEPT ![t] = Enqueued(st, t, e)] /\ traced' = [traced EXCEPT ![t] = Cleared(traced[t])]
  BY <1>2 DEF Supplies
<1>7. stream'[t].stage = "ended" /\ stream'[t].buffer = <<>> /\ traced'[t] = Cleared(traced[t])
  BY <1>1, <1>4, <1>5, <1>6
<1>8. t # s => stream'[s] = stream[s] /\ traced'[s] = traced[s]
  BY <1>1, <1>6
<1> QED BY <1>7, <1>8 DEF Quiet

\* The other answers.
LEMMA AnswerDenies ==
  ASSUME StreamAssumption, Denying, Accepted \/ WaitAnswered \/ HistoryAnswered \/ Listed \/ Refused, NEW s \in Sends
  PROVE  Courses(s)' /\ (link' = "up" => Denials(s)') /\ link' = link /\ denied' = denied
<1>1. PICK t : t = About
  OBVIOUS
<1>2. /\ wire # <<>> /\ wire' = Tail(wire) /\ called' = called /\ link' = link /\ denied' = denied /\ ~IsEvent(Head(wire))
  BY DEF Accepted, WaitAnswered, HistoryAnswered, Listed, Refused, Arrives, Taken, linkVars, gatewayVars, clientVars, IsEvent
<1>3. /\ Ending /\ t \in Sends /\ Taking /\ traced \in [Sends -> Traces] /\ stream \in [Sends -> Streams]
      /\ Shaped(stream[t]) /\ stream[t] \in Streams
  BY <1>1, <1>2, HeadIs, HeadLeads DEF Denying, Ending, TraceType, StreamType, About
<1>4. CASE Accepted
  <2>1. PICK st : st = stream[t]
    OBVIOUS
  <2>2. /\ inbox' \subseteq inbox \cup {[op |-> "wait", run |-> t], [op |-> "abort", run |-> t]}
        /\ \/ /\ st.stage = "sent" /\ stream' = [stream EXCEPT ![t] = Opened(st, t)]
              /\ traced' = IF Opened(st, t).stage = "ended" THEN [traced EXCEPT ![t] = Cleared(traced[t])] ELSE traced
           \/ st.stage = "cancelling" /\ stream' = [stream EXCEPT ![t].stage = "cancelled"] /\ UNCHANGED traced
           \/ UNCHANGED <<stream, traced>>
    BY <1>1, <1>4, <2>1 DEF Accepted, Asks
  <2>3. \/ stream'[t].stage # "sent" /\ stream'[t].buffer = <<>> /\ traced'[t] \in {traced[t], Cleared(traced[t])}
        \/ stream'[t] = stream[t] /\ traced'[t] = traced[t]
    <3>1. CASE /\ st.stage = "sent" /\ stream' = [stream EXCEPT ![t] = Opened(st, t)]
               /\ traced' = IF Opened(st, t).stage = "ended" THEN [traced EXCEPT ![t] = Cleared(traced[t])] ELSE traced
      <4>1. Ready(st) /\ Fits(st, t, run)
        BY <1>3, <2>1, <3>1 DEF Ready, Ending
      <4>2. Opened(st, t).stage \in {"open", "ended"} /\ Shaped(Opened(st, t))
        BY <1>3, <4>1, OpenedIs
      <4>3. stream'[t] = Opened(st, t)
        BY <1>3, <3>1
      <4> QED BY <1>3, <3>1, <4>2, <4>3 DEF Shaped
    <3>2. CASE st.stage = "cancelling" /\ stream' = [stream EXCEPT ![t].stage = "cancelled"] /\ UNCHANGED traced
      <4>1. stream'[t].stage = "cancelled" /\ stream'[t].buffer = st.buffer
        BY <1>3, <2>1, <3>2 DEF Streams
      <4> QED BY <1>3, <2>1, <3>2, <4>1 DEF Shaped
    <3> QED BY <2>2, <3>1, <3>2
  <2>4. t # s => stream'[s] = stream[s] /\ traced'[s] = traced[s]
    BY <1>3, <2>2
  <2>5. \/ stream'[s].stage # "sent" /\ stream'[s].buffer = <<>> /\ traced'[s] \in {traced[s], Cleared(traced[s])}
        \/ stream'[s] = stream[s] /\ traced'[s] = traced[s]
    BY <2>3, <2>4
  <2>6. Quiet(s)
    BY <1>2, <2>2, <2>5 DEF Quiet
  <2> QED BY <1>2, <1>3, <2>6, QuietKeeps
<1>5. CASE WaitAnswered
  <2>1. /\ inbox' \subseteq inbox \cup {[op |-> "history", run |-> t]} /\ traced' = traced
        /\ \/ UNCHANGED stream
           \/ \E r : stream' = [stream EXCEPT ![t].recovery = r]
    BY <1>1, <1>5 DEF WaitAnswered, Asks
  <2>2. stream'[s].stage = stream[s].stage /\ stream'[s].buffer = stream[s].buffer
    <3>1. CASE UNCHANGED stream
      BY <3>1
    <3>2. ASSUME NEW r, stream' = [stream EXCEPT ![t].recovery = r]
          PROVE  stream'[s].stage = stream[s].stage /\ stream'[s].buffer = stream[s].buffer
      <4>1. stream[s] \in Streams
        BY <1>3
      <4> QED BY <1>3, <3>2, <4>1 DEF Streams
    <3> QED BY <2>1, <3>1, <3>2
  <2>3. Quiet(s)
    BY <1>2, <2>1, <2>2 DEF Quiet
  <2> QED BY <1>2, <1>3, <2>3, QuietKeeps
<1>6. CASE HistoryAnswered
  <2>1. inbox' = inbox
    BY <1>6 DEF HistoryAnswered
  <2>2. CASE UNCHANGED <<stream, traced>>
    <3>1. Quiet(s)
      BY <1>2, <2>1, <2>2 DEF Quiet
    <3> QED BY <1>2, <1>3, <3>1, QuietKeeps
  <2>3. CASE stream[t].recovery \in {"history", "failed"}
    <3>1. PICK end \in {"final", "error"} : Supplies(t, end)
      BY <1>1, <1>6, <2>3 DEF HistoryAnswered
    <3>2. Quiet(s)
      BY <1>2, <1>3, <2>1, <2>3, <3>1, SupplyQuiet
    <3> QED BY <1>2, <1>3, <3>2, QuietKeeps
  <2> QED BY <1>1, <1>6, <2>2, <2>3 DEF HistoryAnswered
<1>7. CASE Listed
  <2>1. /\ UNCHANGED <<inbox, stream>> /\ traced' = [traced EXCEPT ![t].request = TRUE, ![t].indexed = TRUE]
    BY <1>1, <1>7 DEF Listed
  <2>2. Noted(traced[t], traced'[t]) /\ (t # s => traced'[s] = traced[s])
    BY <1>3, <2>1 DEF Noted, Traces
  <2>3. (traced'[s] = traced[s] \/ Noted(traced[s], traced'[s])) /\ traced'[s].tool = traced[s].tool
    BY <2>2 DEF Noted
  <2>4. Quiet(s)
    BY <1>2, <2>1, <2>3 DEF Quiet
  <2> QED BY <1>2, <1>3, <2>4, QuietKeeps
<1>8. CASE Refused
  <2>1. UNCHANGED <<inbox, stream, traced>>
    BY <1>8 DEF Refused, clientVars
  <2>2. Quiet(s)
    BY <1>2, <2>1 DEF Quiet
  <2> QED BY <1>2, <1>3, <2>2, QuietKeeps
<1> QED BY <1>2, <1>4, <1>5, <1>6, <1>7, <1>8

\* A frame after a lost one is dropped, and tools and approvals are forgotten.
LEMMA DroppedDenies ==
  ASSUME Denying, EventDropped, NEW s \in Sends
  PROVE  Courses(s)' /\ link' # "up" /\ denied' = {}
<1>1. /\ wire # <<>> /\ wire' = Tail(wire) /\ called' = called /\ UNCHANGED <<inbox, stream>> /\ link' = "gap" /\ denied' = {}
      /\ \/ traced' = traced
         \/ traced' = [t \in Sends |-> Untraced]
  BY DEF EventDropped, Taken, gatewayVars, Denying
<1>2. Ending /\ Courses(s) /\ Taking
  BY <1>1, HeadLeads DEF Denying
<1>3. /\ \A i \in DOMAIN wire' : \E j \in DOMAIN wire : wire'[i] = wire[j]
      /\ StartAhead(wire', called[s], s) => StartAhead(wire, called[s], s)
  BY <1>2, TakingIs DEF Courses
<1>4. Decided(stream'[s].buffer, wire', s) /\ Asking(inbox', called[s], s)
  BY <1>1, <1>2, <1>3 DEF Courses, Decided
<1>5. /\ traced'[s].request => traced'[s].indexed
      /\ StartAhead(wire', called[s], s) => traced'[s].tool = "none"
  <2>1. CASE traced' = traced
    BY <1>2, <1>3, <2>1 DEF Courses
  <2>2. CASE traced' = [t \in Sends |-> Untraced]
    BY <2>2 DEF Untraced
  <2> QED BY <1>1, <2>1, <2>2
<1>6. Courses(s)'
  BY <1>1, <1>2, <1>4, <1>5, CourseKept
<1> QED BY <1>1, <1>6

-----------------------------------------------------------------------------
(* The window's steps. *)
LEMMA WindowDenies ==
  ASSUME StreamAssumption, Denying, NEW t \in Sends, WindowNext(t), NEW s \in Sends
  PROVE  Courses(s)' /\ (link' = "up" => Denials(s)') /\ link' = link /\ denied' = denied
<1>1. /\ wire' = wire /\ called' = called /\ link' = link /\ denied' = denied
  BY DEF WindowNext, Send, Cancel, Abort, SendTimesOut, RecoveryFails, ListPending, Resolve, linkVars, gatewayVars, clientVars
<1>2. /\ Ending /\ Courses(s) /\ (link = "up" => Denials(s)) /\ Taking /\ traced \in [Sends -> Traces]
      /\ stream \in [Sends -> Streams] /\ stream[t] \in Streams /\ Shaped(stream[t])
  BY <1>1 DEF Denying, Ending, TraceType, StreamType, Taking
<1>3. CASE Send(t)
  <2>1. /\ traced' = traced /\ inbox' \subseteq inbox \cup {[op |-> "send", run |-> t]} /\ stream[t].stage = "idle"
        /\ \E stage : stream' = [stream EXCEPT ![t].stage = stage]
    BY <1>3 DEF Send, Asks
  <2>2. stream'[t].buffer = <<>> /\ stream[t].buffer = <<>>
    <3>1. stream'[t].buffer = stream[t].buffer
      BY <1>2, <2>1 DEF Streams
    <3> QED BY <1>2, <2>1, <3>1 DEF Shaped
  <2>3. t # s => stream'[s] = stream[s]
    BY <1>2, <2>1
  <2>4. stream'[s].buffer = stream[s].buffer
    BY <2>2, <2>3
  <2>5. Courses(s)'
    <3>1. Asking(inbox', called[s], s)
      BY <1>2, <2>1 DEF Courses, Asking
    <3> QED BY <1>1, <1>2, <2>1, <2>4, <3>1 DEF Courses
  <2>6. ASSUME link = "up" PROVE Denials(s)'
    <3>1. CASE t # s
      <4>1. DenialAhead(wire', inbox', s) => DenialAhead(wire, inbox, s)
        BY <1>1, <2>1 DEF DenialAhead
      <4> QED BY <1>1, <1>2, <2>1, <2>3, <2>6, <3>1, <4>1 DEF Denials
    <3>2. CASE t = s
      <4>1. DenialAhead(wire', inbox', s) => DenialAhead(wire, inbox, s)
        BY <1>1, <2>1 DEF DenialAhead
      <4>2. traced[s].tool = "none"
        <5>1. ~called[s].started
          BY <2>1, <3>2 DEF Denying, Ending, Unbegun
        <5> QED BY <1>2, <5>1 DEF Courses, StartAhead
      <4>3. Followed(stream'[s], traced'[s].tool, s)
        <5>1. \A i \in DOMAIN <<>> : FALSE
          OBVIOUS
        <5> QED BY <2>1, <2>2, <3>2, <4>2, <5>1 DEF Followed, LastTool
      <4> QED BY <1>1, <1>2, <2>1, <2>4, <2>6, <4>1, <4>3 DEF Denials
    <3> QED BY <3>1, <3>2
  <2> QED BY <1>1, <2>5, <2>6
<1>4. CASE Cancel(t)
  <2>1. /\ inbox' = inbox /\ stream[t].stage \in Live
        /\ stream' = [stream EXCEPT ![t].stage = IF @ = "sent" THEN "cancelling" ELSE "cancelled",
                                    ![t].buffer = <<>>, ![t].recovery = "off"]
        /\ traced' = IF stream[t].stage = "open" THEN [traced EXCEPT ![t] = Cleared(traced[t])] ELSE traced
    BY <1>4 DEF Cancel
  <2>2. PICK q : q = [stream[t] EXCEPT !.stage = IF @ = "sent" THEN "cancelling" ELSE "cancelled",
                                       !.buffer = <<>>, !.recovery = "off"]
    OBVIOUS
  <2>3. stream' = [stream EXCEPT ![t] = q]
    BY <1>2, <2>1, <2>2
  <2>4. q.stage # "sent" /\ q.buffer = <<>>
    BY <1>2, <2>2 DEF Streams
  <2>5. stream'[t].stage # "sent" /\ stream'[t].buffer = <<>> /\ (t # s => stream'[s] = stream[s])
    BY <1>2, <2>3, <2>4
  <2>6. traced'[t] \in {traced[t], Cleared(traced[t])} /\ (t # s => traced'[s] = traced[s])
    BY <1>2, <2>1
  <2>7. Quiet(s)
    BY <1>1, <2>1, <2>5, <2>6 DEF Quiet
  <2> QED BY <1>1, <1>2, <2>7, QuietKeeps
<1>5. CASE SendTimesOut(t)
  <2>1. /\ inbox' = inbox /\ traced' = traced
        /\ stream' = [stream EXCEPT ![t].stage = IF @ = "sent" THEN "failed" ELSE "cancelled", ![t].buffer = <<>>]
    BY <1>5 DEF SendTimesOut
  <2>2. PICK q : q = [stream[t] EXCEPT !.stage = IF @ = "sent" THEN "failed" ELSE "cancelled", !.buffer = <<>>]
    OBVIOUS
  <2>3. stream' = [stream EXCEPT ![t] = q]
    BY <1>2, <2>1, <2>2
  <2>4. q.stage # "sent" /\ q.buffer = <<>>
    BY <1>2, <2>2 DEF Streams
  <2>5. stream'[t].stage # "sent" /\ stream'[t].buffer = <<>> /\ (t # s => stream'[s] = stream[s])
    BY <1>2, <2>3, <2>4
  <2>6. Quiet(s)
    BY <1>1, <2>1, <2>5 DEF Quiet
  <2> QED BY <1>1, <1>2, <2>6, QuietKeeps
<1>6. CASE RecoveryFails(t)
  <2>1. inbox' = inbox /\ stream[t].recovery # "off" /\ Supplies(t, "error")
    BY <1>6 DEF RecoveryFails
  <2>2. PICK end \in {"final", "error"} : end = "error"
    OBVIOUS
  <2>3. Quiet(s)
    BY <1>1, <2>1, <2>2, SupplyQuiet
  <2> QED BY <1>1, <1>2, <2>3, QuietKeeps
<1>7. CASE Abort(t) \/ ListPending(t)
  <2>1. /\ UNCHANGED <<stream, traced>>
        /\ inbox' \subseteq inbox \cup {[op |-> "abort", run |-> t], [op |-> "list", run |-> t]}
    BY <1>7 DEF Abort, ListPending, Asks, clientVars
  <2>2. Quiet(s)
    BY <1>1, <2>1 DEF Quiet
  <2> QED BY <1>1, <1>2, <2>2, QuietKeeps
<1>8. CASE \E d \in {"allow", "deny"} : Resolve(t, d)
  <2>1. PICK d \in {"allow", "deny"} : Resolve(t, d)
    BY <1>8
  <2>2. /\ called[t].approval = "open" /\ traced[t].request /\ UNCHANGED <<stream, traced>>
        /\ \A dd \in {"allow", "deny"} : [op |-> dd, run |-> t] \notin inbox
        /\ inbox' = inbox \cup {[op |-> d, run |-> t]}
    BY <2>1 DEF Resolve, Asked, Asks, clientVars
  <2>3. CASE t # s
    <3>1. Quiet(s)
      BY <1>1, <2>2, <2>3 DEF Quiet
    <3> QED BY <1>1, <1>2, <3>1, QuietKeeps
  <2>4. CASE t = s
    <3>1. Asking(inbox', called[s], s)
      BY <2>2, <2>4 DEF Asking
    <3>2. Courses(s)'
      BY <1>1, <1>2, <2>2, <3>1 DEF Courses
    <3>3. Expected(traced[s], StartAhead(wire, called[s], s))
      BY <2>2, <2>4 DEF Expected
    <3>4. link = "up" => Denials(s)'
      BY <1>1, <1>2, <2>2, <3>3 DEF Denials
    <3> QED BY <1>1, <3>2, <3>4
  <2> QED BY <2>3, <2>4
<1> QED BY <1>1, <1>3, <1>4, <1>5, <1>6, <1>7, <1>8 DEF WindowNext

\* The router closes.
LEMMA ClosingDenies ==
  ASSUME StreamAssumption, Denying, SocketCloses \/ Reconnects, NEW s \in Sends
  PROVE  Courses(s)' /\ (link' = "up" => Denials(s)') /\ denied' = {}
<1>1. /\ wire' = <<>> /\ called' = called /\ inbox' = {} /\ denied' = {} /\ stream' = [t \in Sends |-> Failed(stream[t], t)]
      /\ traced' = traced \/ traced' = [t \in Sends |-> Untraced]
  BY DEF SocketCloses, Reconnects, RouterCloses, gatewayVars
<1>2. Courses(s) /\ Ending /\ stream[s] \in Streams /\ Shaped(stream[s])
  BY DEF Denying, Ending, StreamType
<1>3. stream'[s].stage # "sent" /\ stream'[s].buffer = <<>>
  <2>1. stream'[s] = Failed(stream[s], s)
    BY <1>1
  <2>2. CASE stream[s].stage = "sent"
    BY <1>2, <2>1, <2>2 DEF Failed, Streams
  <2>3. CASE stream[s].stage # "sent"
    <3>1. stream[s].buffer = <<>>
      BY <1>2, <2>3 DEF Shaped
    <3> QED BY <1>2, <2>1, <2>3, <3>1 DEF Failed, Streams
  <2> QED BY <2>2, <2>3
<1>4. \A i \in DOMAIN <<>> : FALSE
  OBVIOUS
<1>5. InOrder(<<>>, s) /\ Decided(stream'[s].buffer, <<>>, s) /\ Asking({}, called[s], s) /\ ~DenialAhead(<<>>, {}, s)
  BY <1>4 DEF InOrder, Decided, Asking, DenialAhead
<1>6. StartAhead(<<>>, called[s], s) => StartAhead(wire, called[s], s)
  BY <1>4 DEF StartAhead
<1>7. (traced'[s].request => traced'[s].indexed) /\ (StartAhead(<<>>, called[s], s) => traced'[s].tool = "none")
  <2>1. CASE traced' = traced
    BY <1>2, <1>6, <2>1 DEF Courses
  <2>2. CASE traced' = [t \in Sends |-> Untraced]
    BY <2>2 DEF Untraced
  <2> QED BY <1>1, <2>1, <2>2
<1>8. Courses(s)'
  BY <1>1, <1>4, <1>5, <1>7 DEF Courses
<1>9. Denials(s)'
  <2>1. Followed(stream'[s], traced'[s].tool, s)
    BY <1>3 DEF Followed
  <2> QED BY <1>1, <1>5, <2>1 DEF Denials
<1> QED BY <1>1, <1>8, <1>9

LEMMA DenyingStep ==
  ASSUME StreamAssumption, Denying, [Next]_vars
  PROVE  Denying'
<1>1. Ending'
  BY EndingStep DEF Denying
<1>2. CASE \E s \in Sends : GatewayNext(s)
  <2>1. GatewayTells
    BY <1>2, GatewayStepTells
  <2>2. link' = link /\ denied' = denied
    BY <2>1 DEF GatewayTells, clientVars
  <2> QED BY <1>1, <2>1, <2>2, GatewayDenies DEF Denying
<1>3. CASE \E s \in Sends : WindowNext(s)
  <2>1. PICK t \in Sends : WindowNext(t)
    BY <1>3
  <2>2. link' = link /\ denied' = denied
    BY <2>1, WindowDenies
  <2> QED BY <1>1, <2>1, <2>2, WindowDenies DEF Denying
<1>4. CASE EventDropped
  <2>1. link' # "up" /\ denied' = {}
    BY <1>4 DEF EventDropped, Denying
  <2>2. \A s \in Sends : Courses(s)'
    BY <1>4, DroppedDenies
  <2> QED BY <1>1, <2>1, <2>2 DEF Denying
<1>5. CASE ChatFrame \/ ToolFrame \/ ApprovalFrame
  <2>1. link' = "up"
    BY <1>5 DEF ChatFrame, ToolFrame, ApprovalFrame, Event
  <2> QED BY <1>1, <1>5, <2>1, ChatDenies, ToolDenies, ApprovalDenies DEF Denying
<1>6. CASE Accepted \/ WaitAnswered \/ HistoryAnswered \/ Listed \/ Refused
  <2>1. link' = link /\ denied' = denied
    BY <1>6 DEF Accepted, WaitAnswered, HistoryAnswered, Listed, Refused, linkVars, clientVars
  <2> QED BY <1>1, <1>6, <2>1, AnswerDenies DEF Denying
<1>7. CASE Resolved
  <2>1. link' = link /\ (link # "up" => denied' = denied)
    BY <1>7 DEF Resolved, linkVars
  <2> QED BY <1>1, <1>7, <2>1, ResolvedDenies DEF Denying
<1>8. CASE WatchSwitched \/ UNCHANGED vars
  <2>1. UNCHANGED <<link, wire, inbox, called, stream, traced, denied>>
    BY <1>8 DEF WatchSwitched, vars, linkVars, gatewayVars, clientVars
  <2>2. ASSUME NEW s \in Sends PROVE Courses(s)' /\ (link' = "up" => Denials(s)')
    <3>1. Quiet(s) /\ Taking
      BY <2>1 DEF Quiet, Taking
    <3> QED BY <2>1, <3>1, QuietKeeps
  <2> QED BY <1>1, <2>1, <2>2 DEF Denying
<1>9. CASE SocketCloses \/ Reconnects
  <2>1. denied' = {}
    BY <1>9 DEF SocketCloses, Reconnects, RouterCloses
  <2> QED BY <1>1, <1>9, <2>1, ClosingDenies DEF Denying
<1> QED BY <1>2, <1>3, <1>4, <1>5, <1>6, <1>7, <1>8, <1>9 DEF Next, Receive

LEMMA DenyingInit ==
  ASSUME StreamAssumption, Init
  PROVE  Denying
<1>1. Ending
  BY EndingInit
<1>2. ASSUME NEW s \in Sends PROVE Courses(s) /\ Denials(s)
  <2>1. /\ wire = <<>> /\ inbox = {} /\ denied = {} /\ stream[s] = NoStream /\ traced[s] = Untraced
    BY DEF Init
  <2>2. \A i \in DOMAIN <<>> : FALSE
    OBVIOUS
  <2>3. NoStream.stage = "idle" /\ NoStream.buffer = <<>> /\ Untraced.tool = "none" /\ ~Untraced.request
    BY DEF NoStream, Untraced
  <2>4. InOrder(<<>>, s) /\ Decided(<<>>, <<>>, s) /\ Asking({}, called[s], s) /\ ~DenialAhead(<<>>, {}, s)
    BY <2>2 DEF InOrder, Decided, Asking, DenialAhead
  <2>5. Courses(s)
    BY <2>1, <2>2, <2>3, <2>4 DEF Courses
  <2>6. Followed(NoStream, Untraced.tool, s)
    BY <2>3 DEF Followed
  <2> QED BY <2>1, <2>4, <2>5, <2>6 DEF Denials
<1> QED BY <1>1, <1>2 DEF Denying, Init

-----------------------------------------------------------------------------
(* What a step shows of a tool. *)
StaysDenied(s) ==
  /\ stream'[s].tool # stream[s].tool => stream'[s].tool \in Over
  /\ watch'.tool[s] # watch.tool[s] => watch'.tool[s] \in Over \cup {"none"}

LEMMA ShownTool ==
  ASSUME Ending, NEW s \in Sends, NEW e \in Items, ToStreams(e), ToolItemOf(e, s) => e.type \in Over
  PROVE  stream'[s].tool # stream[s].tool => stream'[s].tool \in Over
<1>1. PICK st : st = stream[s]
  OBVIOUS
<1>2. st \in Streams /\ Shaped(st) /\ stream'[s] = Enqueued(st, s, e)
  BY <1>1 DEF Ending, StreamType, ToStreams
<1>3. Enqueued(st, s, e).tool = IF st.stage = "open" /\ ToolItemOf(e, s) THEN e.type ELSE st.tool
  BY <1>2, EnqueuedTool
<1> QED BY <1>1, <1>2, <1>3

LEMMA WatchedTool ==
  ASSUME Ending, NEW s \in Sends, NEW e \in Items, ToWatch(e), e.run = s => e.type \in Over
  PROVE  watch'.tool[s] # watch.tool[s] => watch'.tool[s] \in Over
<1>1. watch \in [on : BOOLEAN, tool : [Sends -> ToolStates]]
  BY DEF Ending, WatchType
<1>2. CASE UNCHANGED watch
  BY <1>2
<1>3. CASE watch' = [watch EXCEPT !.tool[e.run] = e.type]
  <2>1. watch'.tool = [watch.tool EXCEPT ![e.run] = e.type]
    BY <1>1, <1>3
  <2>2. watch'.tool[s] = IF e.run = s THEN e.type ELSE watch.tool[s]
    BY <1>1, <2>1
  <2> QED BY <2>2
<1> QED BY <1>2, <1>3 DEF ToWatch

\* An end leaves the tool as it is.
LEMMA SuppliedTool ==
  ASSUME StreamAssumption, Ending, NEW t \in Sends, NEW end \in {"final", "error"}, Supplies(t, end), NEW s \in Sends
  PROVE  stream'[s].tool # stream[s].tool => stream'[s].tool \in Over
<1>1. stream \in [Sends -> Streams] /\ stream[t] \in Streams /\ Shaped(stream[t])
  BY DEF Ending, StreamType
<1>2. PICK st, e : st = stream[t] /\ e = Happening(end, t, 0)
  OBVIOUS
<1>3. e \in Items /\ e.type \in Ends /\ e.run = t
  BY <1>2 DEF StreamAssumption, Happening, Items, Ends
<1>4. e.type \notin ToolStates
  BY <1>3, ItemTypes
<1>5. stream' = [stream EXCEPT ![t] = Enqueued(st, t, e)]
  BY <1>2 DEF Supplies
<1>6. Enqueued(st, t, e).tool = st.tool
  <2>1. Enqueued(st, t, e).tool = IF st.stage = "open" /\ ToolItemOf(e, t) THEN e.type ELSE st.tool
    BY <1>1, <1>2, <1>3, EnqueuedTool
  <2> QED BY <1>4, <2>1 DEF ToolItemOf
<1>7. stream'[s].tool = stream[s].tool
  BY <1>1, <1>2, <1>5, <1>6
<1> QED BY <1>7

LEMMA EventStays ==
  ASSUME StreamAssumption, Denying, ChatFrame \/ ToolFrame \/ ApprovalFrame, NEW s \in denied, s \in Sends
  PROVE  StaysDenied(s)
<1>1. PICK f : f = Head(wire)
  OBVIOUS
<1>2. wire # <<>> /\ wire' = Tail(wire) /\ link = "up" /\ IsEvent(f)
  BY <1>1 DEF ChatFrame, ToolFrame, ApprovalFrame, Event, Arrives, Taken, IsEvent
<1>3. /\ Ending /\ Courses(s) /\ Denials(s) /\ f \in Frames /\ Tells(f, run) /\ f.item \in Items /\ f.item.run \in Sends
      /\ 1 \in DOMAIN wire /\ f = wire[1]
  BY <1>1, <1>2, HeadIs, HeadLeads DEF Denying
<1>4. CASE ChatFrame
  <2>1. ToStreams(f.item) /\ watch' = watch /\ f.kind = "chat"
    BY <1>1, <1>4 DEF ChatFrame, Event, Arrives
  <2>2. f.item.type \notin ToolStates
    BY <1>3, <2>1, ItemTypes DEF Tells
  <2> QED BY <1>3, <2>1, <2>2, ShownTool DEF StaysDenied, ToolItemOf
<1>5. CASE ToolFrame
  <2>1. PICK t, state : t = f.item.run /\ state = Recorded(traced[t], f.item.type)
    OBVIOUS
  <2>2. /\ f.kind = "tool"
        /\ \/ UNCHANGED <<stream, watch>>
           \/ ToStreams(Happening(state, t, 0)) /\ ToWatch(Happening(state, t, 0))
    BY <1>1, <1>5, <2>1 DEF ToolFrame, Event, Arrives
  <2>3. f.item.type \in {"running", "done"}
    BY <1>3, <2>2 DEF Tells
  <2>4. state \in {"running", "done", "cancelled"} /\ state \in ToolStates
    BY <2>1, <2>3 DEF Recorded, ToolStates, Over
  <2>5. PICK e : e = Happening(state, t, 0)
    OBVIOUS
  <2>6. e \in Items /\ e.type = state /\ e.run = t
    BY <1>3, <2>1, <2>4, <2>5, ToolItem
  <2>7. t = s => state \in Over
    <3>1. SUFFICES ASSUME t = s PROVE state \in Over
      OBVIOUS
    <3>2. CASE f.item.type = "done"
      BY <2>1, <3>2 DEF Recorded, Over
    <3>3. CASE f.item.type = "running"
      <4>1. StartAhead(wire, called[s], s)
        BY <1>3, <2>1, <2>2, <3>1, <3>3 DEF StartAhead, ToolFrameOf
      <4>2. traced[s].indexed /\ traced[s].decision = "deny"
        BY <1>3, <4>1 DEF Denials, Kept
      <4> QED BY <2>1, <3>1, <3>3, <4>2 DEF Recorded, Over
    <3> QED BY <2>3, <3>2, <3>3
  <2>8. CASE UNCHANGED <<stream, watch>>
    BY <2>8 DEF StaysDenied
  <2>9. CASE ToStreams(e) /\ ToWatch(e)
    BY <1>3, <2>6, <2>7, <2>9, ShownTool, WatchedTool DEF StaysDenied, ToolItemOf
  <2> QED BY <2>2, <2>5, <2>8, <2>9
<1>6. CASE ApprovalFrame
  <2>1. PICK t, state : t = f.item.run /\ state = "waiting"
    OBVIOUS
  <2>2. /\ f.kind = "approval"
        /\ \/ UNCHANGED <<stream, watch>>
           \/ ToStreams(Happening(state, t, 0)) /\ ToWatch(Happening(state, t, 0))
    BY <1>1, <1>6, <2>1 DEF ApprovalFrame, Event, Arrives
  <2>3. state \in ToolStates
    BY <2>1 DEF ToolStates
  <2>4. PICK e : e = Happening(state, t, 0)
    OBVIOUS
  <2>5. e \in Items /\ e.run = t
    BY <1>3, <2>1, <2>3, <2>4, ToolItem
  <2>6. t # s
    BY <1>3, <2>1, <2>2 DEF Denials, ApprovalOf
  <2>7. CASE UNCHANGED <<stream, watch>>
    BY <2>7 DEF StaysDenied
  <2>8. CASE ToStreams(e) /\ ToWatch(e)
    BY <1>3, <2>5, <2>6, <2>8, ShownTool, WatchedTool DEF StaysDenied, ToolItemOf
  <2> QED BY <2>2, <2>4, <2>7, <2>8
<1> QED BY <1>4, <1>5, <1>6

LEMMA AnswerStays ==
  ASSUME StreamAssumption, Denying, Accepted \/ WaitAnswered \/ HistoryAnswered \/ Listed \/ Refused \/ Resolved,
         NEW s \in denied, s \in Sends
  PROVE  StaysDenied(s)
<1>1. PICK f, t : f = Head(wire) /\ t = f.run
  OBVIOUS
<1>2. /\ wire # <<>> /\ wire' = Tail(wire) /\ ~IsEvent(f)
  BY <1>1 DEF Accepted, WaitAnswered, HistoryAnswered, Listed, Refused, Resolved, Arrives, Taken, IsEvent
<1>3. /\ link = "up" /\ Ending /\ Courses(s) /\ Denials(s) /\ t \in Sends /\ stream \in [Sends -> Streams] /\ f = wire[1]
      /\ 1 \in DOMAIN wire /\ stream[t] \in Streams /\ Shaped(stream[t])
  BY <1>1, <1>2, HeadIs, HeadLeads DEF Denying, Ending, StreamType
<1>4. CASE Accepted
  <2>1. PICK st : st = stream[t]
    OBVIOUS
  <2>2. /\ watch' = watch
        /\ \/ st.stage = "sent" /\ stream' = [stream EXCEPT ![t] = Opened(st, t)]
           \/ stream' = [stream EXCEPT ![t].stage = "cancelled"]
           \/ UNCHANGED stream
    BY <1>1, <1>4, <2>1 DEF Accepted, About
  <2>3. CASE st.stage = "sent" /\ stream' = [stream EXCEPT ![t] = Opened(st, t)]
    <3>1. stream'[t] = Opened(st, t) /\ (t # s => stream'[s] = stream[s])
      BY <1>3, <2>3
    <3>2. t = s => Opened(st, t).tool \in Over \cup {"none"}
      <4>1. SUFFICES ASSUME t = s PROVE Opened(st, s).tool \in Over \cup {"none"}
        OBVIOUS
      <4>2. Ready(st) /\ Settles(st.buffer, s)
        BY <1>3, <2>1, <2>3, <4>1 DEF Ready, Denials
      <4> QED BY <4>2, OpenedTool
    <3>3. st.tool = "none"
      BY <1>3, <2>1, <2>3 DEF Shaped
    <3> QED BY <2>1, <2>2, <3>1, <3>2, <3>3 DEF StaysDenied
  <2>4. CASE stream' = [stream EXCEPT ![t].stage = "cancelled"]
    <3>1. stream'[s].tool = stream[s].tool
      BY <1>3, <2>4 DEF Streams
    <3> QED BY <2>2, <3>1 DEF StaysDenied
  <2>5. CASE UNCHANGED stream
    BY <2>2, <2>5 DEF StaysDenied
  <2> QED BY <2>2, <2>3, <2>4, <2>5
<1>5. CASE WaitAnswered
  <2>1. /\ watch' = watch
        /\ \/ UNCHANGED stream
           \/ \E r : stream' = [stream EXCEPT ![t].recovery = r]
    BY <1>1, <1>5 DEF WaitAnswered, About
  <2>2. ASSUME NEW r, stream' = [stream EXCEPT ![t].recovery = r] PROVE stream'[s].tool = stream[s].tool
    <3>1. stream[s] \in Streams
      BY <1>3
    <3> QED BY <1>3, <2>2, <3>1 DEF Streams
  <2> QED BY <2>1, <2>2 DEF StaysDenied
<1>6. CASE HistoryAnswered
  <2>1. watch' = watch /\ (UNCHANGED stream \/ \E end \in {"final", "error"} : Supplies(t, end))
    BY <1>1, <1>6 DEF HistoryAnswered, About
  <2> QED BY <1>3, <2>1, SuppliedTool DEF StaysDenied
<1>7. CASE Listed \/ Refused
  BY <1>7 DEF Listed, Refused, clientVars, StaysDenied
<1>8. CASE Resolved
  <2>1. PICK state \in {"cancelled", "running"} :
          \/ UNCHANGED <<stream, watch>>
          \/ ToStreams(Happening(state, t, 0)) /\ ToWatch(Happening(state, t, 0))
    BY <1>1, <1>8 DEF Resolved, About
  <2>2. DecisionOf(f, t)
    BY <1>1, <1>8 DEF DecisionOf, Resolved, Arrives
  <2>3. t # s
    BY <1>3, <2>2 DEF Denials
  <2>4. state \in ToolStates
    BY DEF ToolStates, Over
  <2>5. PICK e : e = Happening(state, t, 0)
    OBVIOUS
  <2>6. e \in Items /\ e.run = t
    BY <1>3, <2>4, <2>5, ToolItem
  <2>7. CASE UNCHANGED <<stream, watch>>
    BY <2>7 DEF StaysDenied
  <2>8. CASE ToStreams(e) /\ ToWatch(e)
    BY <1>3, <2>3, <2>6, <2>8, ShownTool, WatchedTool DEF StaysDenied, ToolItemOf
  <2> QED BY <2>1, <2>5, <2>7, <2>8
<1> QED BY <1>4, <1>5, <1>6, <1>7, <1>8

LEMMA WindowStays ==
  ASSUME StreamAssumption, Denying, NEW t \in Sends, WindowNext(t), NEW s \in Sends
  PROVE  StaysDenied(s)
<1>1. watch' = watch /\ Ending /\ stream \in [Sends -> Streams] /\ stream[s] \in Streams
  BY DEF WindowNext, Send, Cancel, Abort, SendTimesOut, RecoveryFails, ListPending, Resolve, clientVars,
         Denying, Ending, StreamType
<1>2. CASE RecoveryFails(t)
  <2>1. PICK end \in {"final", "error"} : Supplies(t, end)
    BY <1>2 DEF RecoveryFails
  <2> QED BY <1>1, <2>1, SuppliedTool DEF StaysDenied
<1>3. CASE Send(t)
  <2>1. PICK stage : stream' = [stream EXCEPT ![t].stage = stage]
    BY <1>3 DEF Send
  <2> QED BY <1>1, <2>1 DEF StaysDenied, Streams
<1>4. CASE Cancel(t) \/ SendTimesOut(t)
  <2>1. CASE Cancel(t)
    <3>1. PICK q : q = [stream[t] EXCEPT !.stage = IF @ = "sent" THEN "cancelling" ELSE "cancelled",
                                         !.buffer = <<>>, !.recovery = "off"]
      OBVIOUS
    <3>2. q.tool = stream[t].tool /\ stream' = [stream EXCEPT ![t] = q]
      BY <1>1, <2>1, <3>1 DEF Cancel, Streams
    <3>3. stream'[s].tool = stream[s].tool
      BY <1>1, <3>2
    <3> QED BY <1>1, <3>3 DEF StaysDenied
  <2>2. CASE SendTimesOut(t)
    <3>1. PICK q : q = [stream[t] EXCEPT !.stage = IF @ = "sent" THEN "failed" ELSE "cancelled", !.buffer = <<>>]
      OBVIOUS
    <3>2. q.tool = stream[t].tool /\ stream' = [stream EXCEPT ![t] = q]
      BY <1>1, <2>2, <3>1 DEF SendTimesOut, Streams
    <3>3. stream'[s].tool = stream[s].tool
      BY <1>1, <3>2
    <3> QED BY <1>1, <3>3 DEF StaysDenied
  <2> QED BY <1>4, <2>1, <2>2
<1>5. CASE Abort(t) \/ ListPending(t) \/ \E d \in {"allow", "deny"} : Resolve(t, d)
  BY <1>1, <1>5 DEF Abort, ListPending, Resolve, clientVars, StaysDenied
<1> QED BY <1>2, <1>3, <1>4, <1>5 DEF WindowNext

LEMMA LinkStays ==
  ASSUME StreamAssumption, Denying, SocketCloses \/ Reconnects, NEW s \in Sends
  PROVE  StaysDenied(s)
<1>1. /\ stream' = [t \in Sends |-> Failed(stream[t], t)] /\ watch' = [watch EXCEPT !.on = FALSE]
      /\ stream[s] \in Streams /\ watch \in [on : BOOLEAN, tool : [Sends -> ToolStates]]
  BY DEF SocketCloses, Reconnects, RouterCloses, Denying, Ending, StreamType, WatchType
<1>2. stream'[s].tool = stream[s].tool
  BY <1>1 DEF Failed, Streams
<1>3. watch'.tool = watch.tool
  BY <1>1
<1> QED BY <1>2, <1>3 DEF StaysDenied

LEMMA DeniedStays ==
  ASSUME StreamAssumption, Denying, [Next]_vars, NEW s \in denied
  PROVE  StaysDenied(s)
<1>1. s \in Sends
  BY DEF Denying, Ending, WatchType, StreamAssumption
<1>2. CASE \E t \in Sends : GatewayNext(t)
  <2>1. UNCHANGED <<stream, watch>>
    BY <1>2, GatewayStepTells DEF GatewayTells, clientVars
  <2> QED BY <2>1 DEF StaysDenied
<1>3. CASE \E t \in Sends : WindowNext(t)
  BY <1>1, <1>3, WindowStays
<1>4. CASE Receive
  <2>1. CASE EventDropped
    BY <2>1 DEF EventDropped, StaysDenied
  <2>2. CASE ~EventDropped
    BY <1>1, <1>4, <2>2, EventStays, AnswerStays DEF Receive
  <2> QED BY <2>1, <2>2
<1>5. CASE WatchSwitched
  BY <1>1, <1>5 DEF WatchSwitched, StaysDenied
<1>6. CASE SocketCloses \/ Reconnects
  BY <1>1, <1>6, LinkStays
<1>7. CASE UNCHANGED vars
  BY <1>7 DEF vars, clientVars, StaysDenied
<1> QED BY <1>2, <1>3, <1>4, <1>5, <1>6, <1>7 DEF Next

(* A tool the user was told is denied is not shown as running or waiting again on this connection,
   in whatever order its start, its approval, the decision, a list and the acceptance come. *)
THEOREM DenialsAlwaysStay == Spec => DeniedStaysDenied
<1>1. Init => Denying
  BY DenyingInit, StreamAssumption
<1>2. Denying /\ [Next]_vars => Denying'
  BY DenyingStep, StreamAssumption
<1>3. Denying /\ [Next]_vars =>
        [\A s \in denied :
           /\ stream'[s].tool # stream[s].tool => stream'[s].tool \in Over
           /\ watch'.tool[s] # watch.tool[s] => watch'.tool[s] \in Over \cup {"none"}]_vars
  BY DeniedStays, StreamAssumption DEF StaysDenied
<1> QED BY <1>1, <1>2, <1>3, PTL DEF Spec, DeniedStaysDenied

-----------------------------------------------------------------------------
(* The gateway link. *)

\* StatusIsTrue is not inductive.  What a negotiation does to the status is right because its
\* socket is the active one until somebody closes it (then the negotiation knows of none), and
\* because no connection is ready while one is negotiated; and a connection that is ready has
\* a peer, so that nobody who finds capabilities takes it for a client that was never connected.
Paired ==
  /\ ws.state \in Handshaking <=> negotiation = "socket"
  /\ ws.state = "ready" => negotiation = "none"
  /\ ws.open <=> ws.state \in Handshaking \cup {"ready"}
  /\ ws.state \in {"authenticating", "ready"} => ws.peer # 0
  /\ negotiation = "delay" => retries < MaxRetries

Sockets == [state : {"none", "ready", "failed", "closed"} \cup Handshaking,
            peer : 0 .. MaxGateways, open : BOOLEAN, desynced : BOOLEAN]

\* The inductive invariant.
Coherent == LinkTypeOK /\ Paired /\ StatusIsTrue

-----------------------------------------------------------------------------
(* What the helpers of the actions do. *)

LEMMA TransportClosesKeeps ==
  ASSUME Coherent, TransportCloses
  PROVE  /\ ws' = [state |-> "none", peer |-> 0, open |-> FALSE, desynced |-> FALSE]
         /\ negotiation' \in {"none", "orphan", "delay"}
         /\ negotiation' = "delay" => negotiation = "delay"
         /\ request' = [r \in Slots |-> "idle"]
BY DEF Coherent, LinkTypeOK, TransportCloses, NoSocket, RequestsRejected

LEMMA SocketTypes ==
  ASSUME Coherent
  PROVE  /\ [state |-> "none", peer |-> 0, open |-> FALSE, desynced |-> FALSE] \in Sockets
         /\ Connecting \in Sockets
         /\ [ws EXCEPT !.desynced = TRUE] \in Sockets
         /\ \A state \in {"failed", "closed"} :
              /\ [ws EXCEPT !.state = state, !.open = FALSE] \in Sockets
              /\ [ws EXCEPT !.state = state, !.open = FALSE, !.desynced = FALSE] \in Sockets
<1>1. MaxGateways \in Nat
  BY LinkAssumption DEF LinkAssumption
<1>2. [state |-> "none", peer |-> 0, open |-> FALSE, desynced |-> FALSE] \in Sockets /\ Connecting \in Sockets
  BY <1>1 DEF Coherent, LinkTypeOK, Sockets, Connecting, Handshaking
<1>3. ws \in Sockets
  BY DEF Coherent, LinkTypeOK, Sockets
<1>4. [ws EXCEPT !.desynced = TRUE] \in Sockets
  BY <1>3 DEF Sockets
<1>5. ASSUME NEW state \in {"failed", "closed"}
      PROVE  /\ [ws EXCEPT !.state = state, !.open = FALSE] \in Sockets
             /\ [ws EXCEPT !.state = state, !.open = FALSE, !.desynced = FALSE] \in Sockets
  BY <1>3 DEF Sockets
<1> QED BY <1>2, <1>4, <1>5

LEMMA ToldOf ==
  ASSUME Coherent
  PROVE  Told \in {"idle", "connecting", "reconnecting", "failed", "closed"}
BY DEF Coherent, LinkTypeOK, StatusIsTrue, Told

\* A connection that is over: whatever else a step does, the invariant stands when the status
\* does not speak of one that is ready.
LEMMA NoConnection ==
  ASSUME ws' = [state |-> "none", peer |-> 0, open |-> FALSE, desynced |-> FALSE],
         negotiation' \in {"none", "orphan", "delay"}, negotiation' = "delay" => retries' < MaxRetries,
         request' = [r \in Slots |-> "idle"], status' # "ready"
  PROVE  Paired' /\ StatusIsTrue'
BY DEF Paired, StatusIsTrue, Handshaking

\* A handshake begins on a socket of its own.
LEMMA Handshake ==
  ASSUME ws' = Connecting, negotiation' = "socket", status' # "ready"
  PROVE  Paired' /\ StatusIsTrue'
BY DEF Paired, StatusIsTrue, Handshaking, Connecting

LEMMA SettledTyped ==
  ASSUME Coherent, NEW outcome \in {"ready", "failed"}, Settled(outcome)
  PROVE  /\ negotiation' = "none" /\ status' = outcome
         /\ calls' \in [Callers -> {"idle", "delay", "joined"}]
         /\ probe' \in {"off", "loop", "asked"} /\ announced' \in {gateway, announced}
BY DEF Coherent, LinkTypeOK, Settled

-----------------------------------------------------------------------------
(* Every step keeps the types. *)

LEMMA LinkStepTyped ==
  ASSUME Coherent, [LinkNext]_wsVars
  PROVE  LinkTypeOK'
<1> USE LinkAssumption DEF LinkAssumption, Coherent
<1>1. CASE UNCHANGED wsVars
  BY <1>1 DEF wsVars, LinkTypeOK
<1>2. CASE GatewayStarts
  BY <1>2 DEF GatewayStarts, LinkTypeOK
<1>3. CASE GatewayStops
  BY <1>3 DEF GatewayStops, LinkTypeOK
<1>4. CASE ProbeAsks
  <2>1. ws' \in Sockets /\ retries' \in 0 .. MaxRetries
    BY <1>4, SocketTypes DEF ProbeAsks, LinkTypeOK, Sockets
  <2> QED BY <1>4, <2>1 DEF ProbeAsks, LinkTypeOK, Sockets
<1>5. CASE ProbeEnds
  <2>1. /\ ws' \in Sockets /\ negotiation' \in {"none", "socket", "orphan", "delay"}
        /\ request' \in [Slots -> {"idle", "pending"}]
        /\ status' \in {"idle", "connecting", "ready", "reconnecting", "failed", "closed"}
    <3>1. CASE probe = "asked"
      BY <1>5, <3>1, TransportClosesKeeps, ToldOf, SocketTypes DEF ProbeEnds
    <3>2. CASE probe # "asked"
      BY <1>5, <3>2 DEF ProbeEnds, LinkTypeOK, Sockets
    <3> QED BY <3>1, <3>2
  <2>2. linkFaults' \in 0 .. MaxLinkFaults
    BY <1>5 DEF ProbeEnds, LinkTypeOK, LinkFault, NoFault
  <2> QED BY <1>5, <2>1, <2>2 DEF ProbeEnds, LinkTypeOK, Sockets
<1>6. CASE Challenged
  BY <1>6 DEF Challenged, LinkTypeOK, Handshaking
<1>7. CASE HelloOk
  BY <1>7, SettledTyped DEF HelloOk, LinkTypeOK
<1>8. CASE HandshakeFails
  <2>1. ws' \in Sockets
    BY <1>8, SocketTypes DEF HandshakeFails
  <2>2. linkFaults' \in 0 .. MaxLinkFaults
    BY <1>8 DEF HandshakeFails, LinkTypeOK, LinkFault, NoFault
  <2> QED BY <1>8, <2>1, <2>2, SettledTyped DEF HandshakeFails, RequestsRejected, LinkTypeOK, Sockets
<1>9. CASE StartupRefuses
  BY <1>9 DEF StartupRefuses, RequestsRejected, NoSocket, LinkTypeOK, LinkFault
<1>10. CASE StartupRetries
  BY <1>10 DEF StartupRetries, Connecting, Handshaking, Paired, LinkTypeOK
<1>11. CASE OrphanRejected
  BY <1>11, SettledTyped DEF OrphanRejected, LinkTypeOK
<1>12. CASE EventLeavesGap
  <2>1. ws' \in Sockets
    BY <1>12, SocketTypes DEF EventLeavesGap
  <2>2. linkFaults' \in 0 .. MaxLinkFaults
    BY <1>12 DEF EventLeavesGap, LinkTypeOK, LinkFault
  <2> QED BY <1>12, <2>1, <2>2 DEF EventLeavesGap, GapAnswered, ReconnectAsked, LinkTypeOK, Sockets
<1>13. CASE ConnectionCloses
  <2>1. ws' \in Sockets
    BY <1>13, SocketTypes DEF ConnectionCloses
  <2>2. linkFaults' \in 0 .. MaxLinkFaults
    BY <1>13 DEF ConnectionCloses, LinkTypeOK, LinkFault, NoFault
  <2> QED BY <1>13, <2>1, <2>2, ToldOf DEF ConnectionCloses, RequestsRejected, LinkTypeOK, Sockets
<1>14. ASSUME NEW c \in Users, UserReconnects(c)
       PROVE  LinkTypeOK'
  BY <1>14 DEF UserReconnects, ReconnectAsked, Callers, LinkTypeOK, LinkFault, NoFault
<1>15. ASSUME NEW c \in Callers, ReconnectRuns(c)
       PROVE  LinkTypeOK'
  <2>1. /\ ws' \in Sockets /\ negotiation' \in {"none", "socket", "orphan", "delay"}
        /\ retries' \in 0 .. MaxRetries
        /\ status' \in {"idle", "connecting", "ready", "reconnecting", "failed", "closed"}
    <3>1. CASE negotiation = "none"
      BY <1>15, <3>1, SocketTypes DEF ReconnectRuns, LinkTypeOK
    <3>2. CASE negotiation # "none"
      BY <1>15, <3>2, TransportClosesKeeps, SocketTypes DEF ReconnectRuns, LinkTypeOK
    <3> QED BY <3>1, <3>2
  <2> QED BY <1>15, <2>1 DEF ReconnectRuns, RequestsRejected, LinkTypeOK, Sockets
<1>16. ASSUME NEW r \in Slots, RequestSent(r) \/ RequestSettles(r)
       PROVE  LinkTypeOK'
  BY <1>16 DEF RequestSent, RequestSettles, LinkTypeOK
<1> QED BY <1>1, <1>2, <1>3, <1>4, <1>5, <1>6, <1>7, <1>8, <1>9, <1>10, <1>11, <1>12, <1>13,
          <1>14, <1>15, <1>16 DEF LinkNext

-----------------------------------------------------------------------------
(* Every step keeps the connection, its negotiation and the status in step. *)

LEMMA StepCoherent ==
  ASSUME Coherent, [LinkNext]_wsVars
  PROVE  Paired' /\ StatusIsTrue'
<1> USE DEF Coherent
<1>1. CASE UNCHANGED wsVars
  BY <1>1 DEF wsVars, Paired, StatusIsTrue
<1>2. CASE GatewayStarts
  BY <1>2 DEF GatewayStarts, Paired, StatusIsTrue
<1>3. CASE GatewayStops
  BY <1>3 DEF GatewayStops, Paired, StatusIsTrue
<1>4. CASE ProbeAsks
  <2>1. CASE UNCHANGED <<ws, negotiation, retries, status>>
    BY <1>4, <2>1 DEF ProbeAsks, Paired, StatusIsTrue
  <2>2. CASE ~UNCHANGED <<ws, negotiation, retries, status>>
    BY <1>4, <2>2, Handshake DEF ProbeAsks
  <2> QED BY <2>1, <2>2
<1>5. CASE ProbeEnds
  <2>1. CASE probe = "asked"
    BY <1>5, <2>1, TransportClosesKeeps, ToldOf, NoConnection DEF ProbeEnds, Paired
  <2>2. CASE probe # "asked"
    BY <1>5, <2>2 DEF ProbeEnds, Paired, StatusIsTrue
  <2> QED BY <2>1, <2>2
<1>6. CASE Challenged
  BY <1>6 DEF Challenged, Paired, StatusIsTrue, LinkTypeOK, Handshaking
<1>7. CASE HelloOk
  BY <1>7, SettledTyped DEF HelloOk, Paired, StatusIsTrue, LinkTypeOK, Handshaking
<1>8. CASE HandshakeFails
  BY <1>8, SettledTyped DEF HandshakeFails, RequestsRejected, Paired, StatusIsTrue, LinkTypeOK, Handshaking
<1>9. CASE StartupRefuses
  BY <1>9, NoConnection DEF StartupRefuses, RequestsRejected, NoSocket, StatusIsTrue
<1>10. CASE StartupRetries
  BY <1>10, Handshake DEF StartupRetries, Paired, StatusIsTrue
<1>11. CASE OrphanRejected
  BY <1>11, SettledTyped DEF OrphanRejected, Paired, StatusIsTrue
<1>12. CASE EventLeavesGap
  BY <1>12 DEF EventLeavesGap, GapAnswered, ReconnectAsked, Paired, StatusIsTrue, LinkTypeOK
<1>13. CASE ConnectionCloses
  BY <1>13, ToldOf DEF ConnectionCloses, RequestsRejected, Paired, StatusIsTrue, LinkTypeOK, Handshaking
<1>14. ASSUME NEW c \in Users, UserReconnects(c)
       PROVE  Paired' /\ StatusIsTrue'
  BY <1>14 DEF UserReconnects, ReconnectAsked, Paired, StatusIsTrue
<1>15. ASSUME NEW c \in Callers, ReconnectRuns(c)
       PROVE  Paired' /\ StatusIsTrue'
  <2>1. CASE negotiation = "none"
    BY <1>15, <2>1, Handshake DEF ReconnectRuns
  <2>2. CASE negotiation # "none"
    BY <1>15, <2>2, TransportClosesKeeps, NoConnection DEF ReconnectRuns, Paired, StatusIsTrue
  <2> QED BY <2>1, <2>2
<1>16. ASSUME NEW r \in Slots, RequestSent(r) \/ RequestSettles(r)
       PROVE  Paired' /\ StatusIsTrue'
  BY <1>16 DEF RequestSent, RequestSettles, Paired, StatusIsTrue, LinkTypeOK
<1> QED BY <1>1, <1>2, <1>3, <1>4, <1>5, <1>6, <1>7, <1>8, <1>9, <1>10, <1>11, <1>12, <1>13,
          <1>14, <1>15, <1>16 DEF LinkNext

LEMMA InitCoherent ==
  ASSUME LinkInit
  PROVE  Coherent
BY LinkAssumption DEF LinkInit, LinkAssumption, Coherent, LinkTypeOK, Paired, StatusIsTrue, NoSocket, Handshaking

-----------------------------------------------------------------------------
(* The theorems. *)

\* The types and the pairing of socket and negotiation hold in every state of every execution.
THEOREM CoherentAlways == LinkSpec => []Coherent
<1>1. Coherent /\ [LinkNext]_wsVars => Coherent'
  BY LinkStepTyped, StepCoherent DEF Coherent
<1> QED BY <1>1, InitCoherent, PTL DEF LinkSpec

\* Whatever closes sockets under one another - probes, reconnects, retries, restarts of the
\* gateway, however often: the window never shows a connection as ready that is not, never shows
\* one that is ready as lost, and no request waits in a router whose socket is gone.
THEOREM StatusIsAlwaysTrue == LinkSpec => []StatusIsTrue
<1>1. Coherent => StatusIsTrue
  BY DEF Coherent
<1> QED BY <1>1, CoherentAlways, PTL
=============================================================================
