---------------------------- MODULE ChatQueueProofs ----------------------------
(***************************************************************************)
(* Theorems about ChatQueue, for every set of sessions, messages and direct *)
(* sends, and whatever troubles may happen.                                 *)
(***************************************************************************)
EXTENDS ChatQueue, TLAPS, FiniteSetTheorems

\* The fields of a flight, whatever they hold.
Shaped(f) == f = [kind |-> f.kind, pc |-> f.pc, item |-> f.item, caught |-> f.caught]

FlightsShaped ==
  /\ flight = [s \in Sessions |-> flight[s]]
  /\ \A s \in Sessions : flight[s] # None => Shaped(flight[s])

\* The part of the typing the proofs need: the counts, the direct sends and their sessions, and
\* that a flight is a record.
Typed ==
  /\ active \in [Sessions -> Nat] /\ direct \in [Sends -> Directs]
  /\ FlightsShaped
  /\ status \in [Items -> Statuses] /\ gateway \in BOOLEAN
  /\ \A d \in Sends : direct[d].pc \in {"acquiring", "active"} => direct[d].session \in Sessions

\* A flight acknowledges only what was answered.
AcknowledgesAnswered ==
  \A s \in Sessions :
    (flight[s] # None /\ flight[s].pc = "acknowledge") => flight[s].item \in answered

\* The inductive invariant.  QueueWaitsItsTurn needs ActiveIsCounted: what a direct send gives
\* back it must have taken, or the count of a session a flight relies on could go below zero.
Sound == Typed /\ ActiveIsCounted /\ QueueWaitsItsTurn /\ AcknowledgesAnswered

Holders(s) == {d \in Sends : direct[d].pc = "active" /\ direct[d].session = s}

LEMMA HoldersFinite ==
  ASSUME NEW s
  PROVE  /\ IsFiniteSet(Holders(s)) /\ IsFiniteSet(Acquiring(s))
         /\ Cardinality(Holders(s)) \in Nat /\ Cardinality(Acquiring(s)) \in Nat
<1>1. IsFiniteSet(Sends)
  BY QueueAssumption DEF QueueAssumption
<1>2. Holders(s) \in SUBSET Sends /\ Acquiring(s) \in SUBSET Sends
  BY DEF Holders, Acquiring
<1>3. IsFiniteSet(Holders(s)) /\ IsFiniteSet(Acquiring(s))
  BY <1>1, <1>2, FS_Subset
<1> QED BY <1>3, FS_CardinalityType

LEMMA CountOf ==
  ASSUME ActiveIsCounted, NEW s \in Sessions
  PROVE  active[s] = Cardinality(Holders(s))
BY DEF ActiveIsCounted, Holders

LEMMA FlightShaped ==
  ASSUME NEW kind, NEW pc, NEW item
  PROVE  Shaped(Flight(kind, pc, item)) /\ Flight(kind, pc, item).pc = pc
BY DEF Flight, Shaped

-----------------------------------------------------------------------------
(* The end of a flight, which hands its session to the direct sends that wait for it. *)

LEMMA EndFlightSound ==
  ASSUME Sound, NEW s \in Sessions, EndFlight(s)
  PROVE  /\ active' \in [Sessions -> Nat] /\ direct' \in [Sends -> Directs]
         /\ FlightsShaped'
         /\ \A d \in Sends : direct'[d].pc \in {"acquiring", "active"} => direct'[d].session \in Sessions
         /\ ActiveIsCounted' /\ QueueWaitsItsTurn'
         /\ \A r \in Sessions : flight'[r] = IF r = s THEN None ELSE flight[r]
<1> USE DEF Sound
<1>1. /\ FlightsShaped'
      /\ \A r \in Sessions : flight'[r] = IF r = s THEN None ELSE flight[r]
  BY DEF EndFlight, Typed, FlightsShaped
<1>2. \A d \in Sends : direct'[d] = IF d \in Acquiring(s) THEN [direct[d] EXCEPT !.pc = "active"] ELSE direct[d]
  BY DEF EndFlight
<1>3. \A d \in Sends : /\ direct'[d] \in Directs /\ direct'[d].session = direct[d].session
                       /\ direct'[d].pc = IF d \in Acquiring(s) THEN "active" ELSE direct[d].pc
  BY <1>2 DEF Typed, Directs
<1>4. direct' \in [Sends -> Directs]
  BY <1>3 DEF EndFlight
<1>5. \A d \in Sends : direct'[d].pc \in {"acquiring", "active"} => direct'[d].session \in Sessions
  BY <1>3 DEF Typed, Acquiring
<1>6. /\ active' \in [Sessions -> Nat]
      /\ \A r \in Sessions : active'[r] = IF r = s THEN active[r] + Cardinality(Acquiring(s)) ELSE active[r]
  BY HoldersFinite DEF EndFlight, Occupied, Typed
<1>7. ASSUME NEW r \in Sessions PROVE active'[r] = Cardinality(Holders(r)')
  <2>1. CASE r = s
    <3>1. Holders(s)' = Holders(s) \cup Acquiring(s)
      BY <1>3 DEF Holders, Acquiring
    <3>2. Holders(s) \cap Acquiring(s) = {}
      BY DEF Holders, Acquiring
    <3>3. Cardinality(Holders(s)') = Cardinality(Holders(s)) + Cardinality(Acquiring(s))
      BY <3>1, <3>2, HoldersFinite, FS_Union, FS_EmptySet
    <3> QED BY <2>1, <3>3, <1>6, CountOf
  <2>2. CASE r # s
    <3>1. Holders(r)' = Holders(r)
      BY <1>3, <2>2 DEF Holders, Acquiring
    <3> QED BY <2>2, <3>1, <1>6, CountOf
  <2> QED BY <2>1, <2>2
<1>8. ActiveIsCounted'
  BY <1>7 DEF ActiveIsCounted, Holders
<1>9. QueueWaitsItsTurn'
  BY <1>1, <1>6 DEF QueueWaitsItsTurn
<1> QED BY <1>1, <1>4, <1>5, <1>6, <1>8, <1>9

-----------------------------------------------------------------------------
(* The end of a direct send. *)

LEMMA ReleaseSound ==
  ASSUME Sound, NEW d \in Sends, NEW terminal \in BOOLEAN,
         direct[d].pc = "active",
         direct' = [direct EXCEPT ![d].pc = "done"],
         Release(direct[d].session, terminal)
  PROVE  /\ active' \in [Sessions -> Nat] /\ direct' \in [Sends -> Directs]
         /\ FlightsShaped'
         /\ \A e \in Sends : direct'[e].pc \in {"acquiring", "active"} => direct'[e].session \in Sessions
         /\ ActiveIsCounted' /\ QueueWaitsItsTurn'
         /\ \A r \in Sessions : flight'[r] = flight[r] \/ (flight'[r] # None /\ flight'[r].pc = "head")
                                \/ flight'[r] = None
<1> DEFINE s == direct[d].session
<1> USE DEF Sound
<1>1. s \in Sessions /\ d \in Holders(s)
  BY DEF Typed, Holders
<1>2. active[s] \in Nat /\ active[s] >= 1
  <2>1. Cardinality(Holders(s)) # 0
    BY <1>1, HoldersFinite, FS_EmptySet
  <2> QED BY <1>1, <2>1, CountOf, HoldersFinite
<1>3. /\ active' \in [Sessions -> Nat]
      /\ \A r \in Sessions : active'[r] = IF r = s THEN active[r] - 1 ELSE active[r]
  BY <1>1, <1>2 DEF Release, Typed
<1>4. \A e \in Sends : /\ direct'[e] \in Directs /\ direct'[e].session = direct[e].session
                       /\ direct'[e].pc = IF e = d THEN "done" ELSE direct[e].pc
  BY DEF Typed, Directs
<1>5. direct' \in [Sends -> Directs]
  BY <1>4 DEF Typed
<1>6. \A e \in Sends : direct'[e].pc \in {"acquiring", "active"} => direct'[e].session \in Sessions
  BY <1>4 DEF Typed
<1>7. ASSUME NEW kind
      PROVE  /\ Joined(flight[s], kind) # None => Shaped(Joined(flight[s], kind))
             /\ Joined(flight[s], kind) = flight[s] \/ Joined(flight[s], kind).pc = "head"
  BY <1>1, FlightShaped DEF Joined, Typed, FlightsShaped
<1>8. flight'[s] \in {flight[s], Joined(flight[s], "release"), Joined(flight[s], "idle")}
  BY <1>1 DEF Release, Typed, FlightsShaped
<1>9. \A r \in Sessions : r # s => flight'[r] = flight[r]
  BY DEF Release, Typed, FlightsShaped
<1>10. FlightsShaped'
  <2>1. flight' = [r \in Sessions |-> flight'[r]]
    BY DEF Release, Typed, FlightsShaped
  <2>2. \A r \in Sessions : flight'[r] # None => Shaped(flight'[r])
    BY <1>7, <1>8, <1>9 DEF Typed, FlightsShaped
  <2> QED BY <2>1, <2>2 DEF FlightsShaped, Shaped
<1>11. ASSUME NEW r \in Sessions PROVE active'[r] = Cardinality(Holders(r)')
  <2>1. CASE r = s
    <3>1. Holders(s)' = Holders(s) \ {d}
      BY <1>4 DEF Holders
    <3>2. Cardinality(Holders(s)') = Cardinality(Holders(s)) - 1
      BY <1>1, <3>1, HoldersFinite, FS_RemoveElement
    <3> QED BY <2>1, <3>2, <1>1, <1>3, CountOf
  <2>2. CASE r # s
    <3>1. Holders(r)' = Holders(r)
      BY <1>4, <2>2 DEF Holders
    <3> QED BY <2>2, <3>1, <1>3, CountOf
  <2> QED BY <2>1, <2>2
<1>12. ActiveIsCounted'
  BY <1>11 DEF ActiveIsCounted, Holders
<1>13. ASSUME NEW r \in Sessions, flight'[r] # None, flight'[r].kind # "send", flight'[r].pc # "head"
       PROVE  active'[r] = 0
  <2>1. flight'[r] = flight[r]
    BY <1>7, <1>8, <1>9, <1>13
  <2>2. active[r] = 0
    BY <2>1, <1>13 DEF QueueWaitsItsTurn
  <2> QED BY <2>2, <1>2, <1>3
<1>14. \A r \in Sessions : flight'[r] = flight[r] \/ (flight'[r] # None /\ flight'[r].pc = "head")
                           \/ flight'[r] = None
  BY <1>7, <1>8, <1>9
<1> QED BY <1>3, <1>5, <1>6, <1>10, <1>12, <1>13, <1>14 DEF QueueWaitsItsTurn

-----------------------------------------------------------------------------
(* Steps that end no flight and start or end no direct send: each flight stays, goes on to its
   head, goes on within its item, or has just asked for its turn. *)

GoesOn(s) ==
  \/ flight'[s] = flight[s]
  \/ flight'[s].pc = "head" \/ flight'[s].kind = "send" \/ active[s] = 0
  \/ flight[s] # None /\ flight'[s].kind = flight[s].kind /\ flight[s].pc # "head"

LEMMA FlightsOnlySound ==
  ASSUME Sound, UNCHANGED <<active, direct>>,
         FlightsShaped', status' \in [Items -> Statuses], gateway' \in BOOLEAN,
         AcknowledgesAnswered', \A s \in Sessions : GoesOn(s)
  PROVE  Sound'
<1>1. Typed'
  BY DEF Sound, Typed
<1>2. ActiveIsCounted'
  BY DEF Sound, ActiveIsCounted
<1>3. QueueWaitsItsTurn'
  BY DEF Sound, QueueWaitsItsTurn, GoesOn
<1> QED BY <1>1, <1>2, <1>3 DEF Sound

\* The two lemmas on ends, completed with what the rest of a step leaves alone.
LEMMA EndFlightStep ==
  ASSUME Sound, NEW s \in Sessions, EndFlight(s),
         status' \in [Items -> Statuses], UNCHANGED <<gateway, answered>>
  PROVE  Sound'
<1>1. Typed' /\ ActiveIsCounted' /\ QueueWaitsItsTurn'
  BY EndFlightSound DEF Typed, Sound
<1>2. AcknowledgesAnswered'
  BY EndFlightSound DEF AcknowledgesAnswered, Sound
<1> QED BY <1>1, <1>2 DEF Sound

LEMMA ReleaseStep ==
  ASSUME Sound, NEW d \in Sends, NEW terminal \in BOOLEAN,
         direct[d].pc = "active", direct' = [direct EXCEPT ![d].pc = "done"],
         Release(direct[d].session, terminal), UNCHANGED <<status, gateway, answered>>
  PROVE  Sound'
<1>1. Typed' /\ ActiveIsCounted' /\ QueueWaitsItsTurn'
  BY ReleaseSound DEF Typed, Sound
<1>2. AcknowledgesAnswered'
  BY ReleaseSound DEF AcknowledgesAnswered, Sound
<1> QED BY <1>1, <1>2 DEF Sound

-----------------------------------------------------------------------------
(* The steps of a flight. *)

LEMMA ChangedPc ==
  ASSUME NEW f, Shaped(f), NEW pc
  PROVE  [f EXCEPT !.pc = pc] = [kind |-> f.kind, pc |-> pc, item |-> f.item, caught |-> f.caught]
BY DEF Shaped

LEMMA SettlingOf ==
  ASSUME NEW f, Shaped(f), NEW pc, NEW caught
  PROVE  Settling(f, pc, caught) = [kind |-> f.kind, pc |-> pc, item |-> f.item, caught |-> caught]
<1> DEFINE g == [f EXCEPT !.pc = pc]
<1>1. g = [kind |-> f.kind, pc |-> pc, item |-> f.item, caught |-> f.caught]
  BY ChangedPc
<1>2. Settling(f, pc, caught) = [g EXCEPT !.caught = caught]
  BY DEF Settling
<1> HIDE DEF g
<1> QED BY <1>1, <1>2

LEMMA TakenOf ==
  ASSUME NEW f, Shaped(f), NEW i
  PROVE  [f EXCEPT !.pc = "deliver", !.item = i]
           = [kind |-> f.kind, pc |-> "deliver", item |-> i, caught |-> f.caught]
<1> DEFINE g == [f EXCEPT !.pc = "deliver"]
<1>1. g = [kind |-> f.kind, pc |-> "deliver", item |-> f.item, caught |-> f.caught]
  BY ChangedPc
<1>2. [f EXCEPT !.pc = "deliver", !.item = i] = [g EXCEPT !.item = i]
  OBVIOUS
<1> HIDE DEF g
<1> QED BY <1>1, <1>2

LEMMA AskTurnSound ==
  ASSUME Sound, NEW s \in Sessions, AskTurn(s)
  PROVE  Sound'
<1>1. status' = status /\ gateway' = gateway /\ answered' = answered
  BY DEF AskTurn, file, outside
<1>2. CASE MayTake(s)
  <2>1. flight' = [flight EXCEPT ![s].pc = "claim"] /\ UNCHANGED <<active, direct>> /\ active[s] = 0
    BY <1>2 DEF AskTurn, Goto, MayTake
  <2>2. FlightsShaped' /\ \A r \in Sessions : GoesOn(r)
    BY <2>1 DEF Sound, Typed, FlightsShaped, Shaped, GoesOn, AskTurn
  <2>3. AcknowledgesAnswered'
    BY <1>1, <2>1 DEF Sound, Typed, FlightsShaped, Shaped, AcknowledgesAnswered, AskTurn
  <2> QED BY <1>1, <2>1, <2>2, <2>3, FlightsOnlySound DEF Sound, Typed
<1>3. CASE ~MayTake(s)
  BY <1>1, <1>3, EndFlightStep DEF AskTurn, Sound, Typed
<1> QED BY <1>2, <1>3

LEMMA TakeSound ==
  ASSUME Sound, NEW s \in Sessions, NEW i, Take(s, i),
         flight[s] # None, flight[s].pc = "claim", UNCHANGED <<gateway, answered>>
  PROVE  Sound'
<1>1. status' \in [Items -> Statuses] /\ UNCHANGED <<active, direct>>
  BY DEF Take, Sound, Typed, Statuses
<1>2. /\ \A r \in Sessions : r # s => flight'[r] = flight[r]
      /\ flight'[s] = [kind |-> flight[s].kind, pc |-> "deliver", item |-> i, caught |-> flight[s].caught]
      /\ flight' = [r \in Sessions |-> flight'[r]]
  <2>1. Shaped(flight[s])
    BY DEF Sound, Typed, FlightsShaped
  <2>2. /\ \A r \in Sessions : r # s => flight'[r] = flight[r]
        /\ flight'[s] = [flight[s] EXCEPT !.pc = "deliver", !.item = i]
        /\ flight' = [r \in Sessions |-> flight'[r]]
    BY DEF Take, Sound, Typed, FlightsShaped
  <2>3. [flight[s] EXCEPT !.pc = "deliver", !.item = i]
          = [kind |-> flight[s].kind, pc |-> "deliver", item |-> i, caught |-> flight[s].caught]
    BY <2>1, TakenOf
  <2> QED BY <2>2, <2>3
<1>3. FlightsShaped'
  BY <1>2 DEF Sound, Typed, FlightsShaped, Shaped
<1>4. \A r \in Sessions : GoesOn(r)
  BY <1>2 DEF GoesOn, Sound, QueueWaitsItsTurn
<1>5. AcknowledgesAnswered'
  BY <1>2 DEF AcknowledgesAnswered, Sound
<1> QED BY <1>1, <1>3, <1>4, <1>5, FlightsOnlySound DEF Sound, Typed

LEMMA ClaimsSound ==
  ASSUME Sound, NEW s \in Sessions, ClaimNext(s) \/ Claim(s)
  PROVE  Sound'
<1>1. /\ gateway' = gateway /\ answered' = answered /\ flight[s] # None /\ flight[s].pc = "claim"
      /\ (EndFlight(s) /\ UNCHANGED status) \/ \E i : Take(s, i)
  BY DEF ClaimNext, Claim, outside
<1>2. CASE EndFlight(s) /\ UNCHANGED status
  BY <1>1, <1>2, EndFlightStep DEF Sound, Typed
<1>3. CASE \E i : Take(s, i)
  BY <1>1, <1>3, TakeSound
<1> QED BY <1>1, <1>2, <1>3

\* One flight of one session moves on to a write of the queue file.
LEMMA SettlingSound ==
  ASSUME Sound, NEW s \in Sessions, NEW op \in {"acknowledge", "restore", "fail"}, NEW caught,
         flight[s] # None, flight[s].pc # "head",
         flight' = [flight EXCEPT ![s] = Settling(@, op, caught)],
         op = "acknowledge" => flight[s].item \in answered',
         answered \subseteq answered', UNCHANGED <<active, direct, status, gateway>>
  PROVE  Sound'
<1>1. /\ \A r \in Sessions : r # s => flight'[r] = flight[r]
      /\ flight'[s] = [kind |-> flight[s].kind, pc |-> op, item |-> flight[s].item, caught |-> caught]
      /\ flight' = [r \in Sessions |-> flight'[r]]
  <2>1. Shaped(flight[s])
    BY DEF Sound, Typed, FlightsShaped
  <2>2. /\ \A r \in Sessions : r # s => flight'[r] = flight[r]
        /\ flight'[s] = Settling(flight[s], op, caught)
        /\ flight' = [r \in Sessions |-> flight'[r]]
    BY DEF Sound, Typed, FlightsShaped
  <2>3. Settling(flight[s], op, caught)
          = [kind |-> flight[s].kind, pc |-> op, item |-> flight[s].item, caught |-> caught]
    BY <2>1, SettlingOf
  <2> QED BY <2>2, <2>3
<1>2. FlightsShaped'
  BY <1>1 DEF Sound, Typed, FlightsShaped, Shaped
<1>3. \A r \in Sessions : GoesOn(r)
  BY <1>1 DEF GoesOn, Sound, QueueWaitsItsTurn
<1>4. AcknowledgesAnswered'
  BY <1>1 DEF AcknowledgesAnswered, Sound
<1> QED BY <1>2, <1>3, <1>4, FlightsOnlySound DEF Sound, Typed

LEMMA StreamEndsSound ==
  ASSUME Sound, NEW s \in Sessions, StreamEnds(s)
  PROVE  Sound'
<1>1. /\ flight[s] # None /\ flight[s].pc = "deliver"
      /\ UNCHANGED <<active, direct, status, gateway>>
  BY DEF StreamEnds, file, outside
<1>2. \E op \in {"acknowledge", "restore", "fail"} : \E caught \in BOOLEAN :
        /\ flight' = [flight EXCEPT ![s] = Settling(@, op, caught)]
        /\ op = "acknowledge" => flight[s].item \in answered'
        /\ answered \subseteq answered'
  BY DEF StreamEnds, CutOff
<1> QED BY <1>1, <1>2, SettlingSound

LEMMA SettleSound ==
  ASSUME Sound, NEW s \in Sessions, Settle(s)
  PROVE  Sound'
<1>1. gateway' = gateway /\ answered' = answered /\ flight[s] # None
  BY DEF Settle, outside
<1>2. status' \in [Items -> Statuses]
  BY DEF Settle, Acknowledge, Drop, SetStatus, Sound, Typed, Statuses
<1>3. CASE EndFlight(s)
  BY <1>1, <1>2, <1>3, EndFlightStep
<1>4. CASE ~EndFlight(s)
  <2>1. /\ flight' = [flight EXCEPT ![s] = Flight(@.kind, "head", None)]
        /\ UNCHANGED <<active, direct>>
    BY <1>4 DEF Settle, Delivered
  <2>2. /\ \A r \in Sessions : r # s => flight'[r] = flight[r]
        /\ Shaped(flight'[s]) /\ flight'[s].pc = "head" /\ flight' = [r \in Sessions |-> flight'[r]]
    BY <2>1, FlightShaped DEF Sound, Typed, FlightsShaped
  <2>3. FlightsShaped' /\ AcknowledgesAnswered'
    BY <1>1, <2>2 DEF Sound, Typed, FlightsShaped, Shaped, AcknowledgesAnswered
  <2>4. ASSUME NEW r \in Sessions PROVE GoesOn(r)
    BY <2>2 DEF GoesOn
  <2> QED BY <1>1, <1>2, <2>1, <2>3, <2>4, FlightsOnlySound DEF Sound, Typed
<1> QED BY <1>3, <1>4

-----------------------------------------------------------------------------
(* Failing writes, direct sends, the gateway and restarts. *)

LEMMA WriteFailsSound ==
  ASSUME Sound, NEW s \in Sessions, WriteFails(s)
  PROVE  Sound'
<1>1. CASE Reject(s)
  <2>1. EndFlight(s) /\ UNCHANGED <<status, gateway, answered>>
    BY <1>1 DEF Reject, file, outside
  <2> QED BY <2>1, EndFlightStep DEF Sound, Typed
<1>2. CASE ~Reject(s)
  <2>1. /\ flight[s] # None /\ flight[s].pc # "head"
        /\ flight' = [flight EXCEPT ![s] = Settling(@, "fail", TRUE)]
        /\ UNCHANGED <<active, direct, status, gateway, answered>>
    BY <1>2 DEF WriteFails, file, outside
  <2> QED BY <2>1, SettlingSound
<1> QED BY <1>1, <1>2

\* A direct send that finds no flight takes the session; one that finds a flight only waits.
LEMMA StartDirectSound ==
  ASSUME Sound, NEW d \in Sends, NEW s \in Sessions, StartDirect(d, s)
  PROVE  Sound'
<1> DEFINE n == IF flight[s] = None THEN 1 ELSE 0
<1>1. UNCHANGED <<flight, status, gateway, answered>>
  BY DEF StartDirect, file, outside
<1>2. /\ active' = [active EXCEPT ![s] = @ + n] /\ direct[d].pc = "new"
      /\ direct' = [direct EXCEPT ![d] =
                      [pc |-> IF flight[s] = None THEN "active" ELSE "acquiring", session |-> s]]
  BY DEF StartDirect, Entry, Occupied
<1>3. Typed'
  BY <1>1, <1>2 DEF Sound, Typed, FlightsShaped, Shaped, Directs
<1>4. ASSUME NEW r \in Sessions PROVE active'[r] = Cardinality(Holders(r)')
  <2>1. CASE r = s /\ flight[s] = None
    <3>1. Holders(s)' = Holders(s) \cup {d} /\ d \notin Holders(s)
      BY <1>2, <2>1 DEF Holders, Sound, Typed
    <3>2. Cardinality(Holders(s)') = Cardinality(Holders(s)) + 1
      BY <3>1, HoldersFinite, FS_AddElement
    <3> QED BY <2>1, <3>2, <1>2, CountOf DEF Sound, Typed
  <2>2. CASE ~(r = s /\ flight[s] = None)
    <3>1. Holders(r)' = Holders(r)
      BY <1>2, <2>2 DEF Holders, Sound, Typed
    <3>2. active'[r] = active[r]
      BY <1>2, <2>2 DEF Sound, Typed
    <3> QED BY <3>1, <3>2, CountOf DEF Sound
  <2> QED BY <2>1, <2>2
<1>5. ActiveIsCounted'
  BY <1>4 DEF ActiveIsCounted, Holders
<1>6. QueueWaitsItsTurn'
  BY <1>1, <1>2 DEF Sound, Typed, QueueWaitsItsTurn
<1>7. AcknowledgesAnswered'
  BY <1>1 DEF Sound, AcknowledgesAnswered
<1> QED BY <1>3, <1>5, <1>6, <1>7 DEF Sound

LEMMA GatewayDownSound ==
  ASSUME Sound, GatewayDown
  PROVE  Sound'
<1>1. UNCHANGED <<active, direct, status, answered>> /\ gateway' = FALSE
  BY DEF GatewayDown, file
<1>2. PICK cut \in SUBSET {s \in Sessions : flight[s] # None /\ flight[s].pc = "deliver"} :
        flight' = [s \in Sessions |-> IF s \in cut THEN CutOff(flight[s]) ELSE flight[s]]
  BY DEF GatewayDown
<1>3. ASSUME NEW s \in cut
      PROVE  flight'[s] = [kind |-> flight[s].kind, pc |-> "fail", item |-> flight[s].item, caught |-> TRUE]
  <2>1. Shaped(flight[s])
    BY <1>3 DEF Sound, Typed, FlightsShaped
  <2>2. flight'[s] = Settling(flight[s], "fail", TRUE)
    BY <1>2, <1>3 DEF CutOff
  <2> QED BY <2>1, <2>2, SettlingOf
<1>4. ASSUME NEW s \in Sessions, flight'[s] # flight[s]
      PROVE  /\ flight[s] # None /\ flight[s].pc = "deliver"
             /\ flight'[s].kind = flight[s].kind /\ flight'[s].pc = "fail" /\ Shaped(flight'[s])
  <2>1. s \in cut
    BY <1>2, <1>4
  <2>2. flight'[s] = [kind |-> flight[s].kind, pc |-> "fail", item |-> flight[s].item, caught |-> TRUE]
    BY <1>3, <2>1
  <2>3. Shaped(flight'[s]) /\ flight'[s].kind = flight[s].kind /\ flight'[s].pc = "fail"
    BY <2>2 DEF Shaped
  <2> QED BY <2>1, <2>3
<1>5. FlightsShaped'
  <2>1. flight' = [s \in Sessions |-> flight'[s]]
    BY <1>2
  <2>2. \A s \in Sessions : flight'[s] # None => Shaped(flight'[s])
    BY <1>4 DEF Sound, Typed, FlightsShaped
  <2> QED BY <2>1, <2>2 DEF FlightsShaped, Shaped
<1>6. \A s \in Sessions : GoesOn(s)
  BY <1>4 DEF GoesOn
<1>7. AcknowledgesAnswered'
  BY <1>1, <1>4 DEF Sound, AcknowledgesAnswered
<1> QED BY <1>1, <1>5, <1>6, <1>7, FlightsOnlySound DEF Sound, Typed

LEMMA GatewayAvailableSound ==
  ASSUME Sound, GatewayAvailable
  PROVE  Sound'
<1>1. UNCHANGED <<active, direct, status, gateway, answered>>
  BY DEF GatewayAvailable, file, outside
<1>2. ASSUME NEW s \in Sessions
      PROVE  /\ flight'[s] # None => Shaped(flight'[s])
             /\ flight'[s] = flight[s] \/ flight'[s].pc = "head"
  <2>1. flight'[s] \in {flight[s], Flight("available", "head", None)}
    BY DEF GatewayAvailable, Joined
  <2> QED BY <2>1, FlightShaped DEF Sound, Typed, FlightsShaped
<1>3. flight' = [s \in Sessions |-> flight'[s]]
  BY DEF GatewayAvailable
<1>4. FlightsShaped'
  BY <1>2, <1>3 DEF FlightsShaped, Shaped
<1>5. \A s \in Sessions : GoesOn(s)
  BY <1>2 DEF GoesOn
<1>6. AcknowledgesAnswered'
  BY <1>1, <1>2 DEF Sound, AcknowledgesAnswered
<1> QED BY <1>1, <1>4, <1>5, <1>6, FlightsOnlySound DEF Sound, Typed

LEMMA RestartSound ==
  ASSUME Sound, Restart
  PROVE  Sound'
<1>1. Typed'
  BY DEF Restart, file, Sound, Typed, FlightsShaped, Shaped, Directs
<1>2. \A s \in Sessions : Holders(s)' = {}
  BY DEF Restart, Holders, Sound, Typed, Directs
<1>3. ActiveIsCounted'
  BY <1>2, FS_EmptySet DEF Restart, ActiveIsCounted, Holders
<1>4. QueueWaitsItsTurn' /\ AcknowledgesAnswered'
  BY DEF Restart, QueueWaitsItsTurn, AcknowledgesAnswered
<1> QED BY <1>1, <1>3, <1>4 DEF Sound

-----------------------------------------------------------------------------
(* Every step. *)

LEMMA InitSound ==
  ASSUME Init
  PROVE  Sound
<1>1. Typed
  BY DEF Init, Typed, FlightsShaped, Shaped, Directs, Statuses
<1>2. \A s \in Sessions : Holders(s) = {}
  BY DEF Init, Holders
<1>3. ActiveIsCounted
  BY <1>2, FS_EmptySet DEF Init, ActiveIsCounted, Holders
<1>4. QueueWaitsItsTurn /\ AcknowledgesAnswered
  BY DEF Init, QueueWaitsItsTurn, AcknowledgesAnswered
<1> QED BY <1>1, <1>3, <1>4 DEF Sound

\* What leaves the flights, the direct sends and the history alone keeps the invariant.
LEMMA QuietSound ==
  ASSUME Sound, UNCHANGED <<active, direct, flight, answered>>,
         status' \in [Items -> Statuses], gateway' \in BOOLEAN
  PROVE  Sound'
<1>1. FlightsShaped' /\ AcknowledgesAnswered'
  BY DEF Sound, Typed, FlightsShaped, Shaped, AcknowledgesAnswered
<1> QED BY <1>1, FlightsOnlySound DEF GoesOn

LEMMA StepSound ==
  ASSUME Sound, [Next]_vars
  PROVE  Sound'
<1> USE DEF file, outside, Keep
<1>1. CASE UNCHANGED vars
  BY <1>1, QuietSound DEF vars, Sound, Typed
<1>2. ASSUME NEW s \in Sessions, NEW i \in Items, Add(s, i) \/ RemoveItem(s, i)
      PROVE  Sound'
  <2>1. status' \in [Items -> Statuses]
    BY <1>2 DEF Add, RemoveItem, Drop, Sound, Typed, Statuses
  <2> QED BY <1>2, <2>1, QuietSound DEF Add, RemoveItem, Sound, Typed
<1>3. ASSUME NEW s \in Sessions, NEW i \in Items, SendItem(s, i)
      PROVE  Sound'
  <2>1. flight' = [flight EXCEPT ![s] = Flight("send", "claim", i)]
    BY <1>3 DEF SendItem
  <2>2. /\ \A r \in Sessions : r # s => flight'[r] = flight[r]
        /\ flight'[s].kind = "send" /\ flight'[s].pc = "claim"
        /\ Shaped(flight'[s]) /\ flight' = [r \in Sessions |-> flight'[r]]
    BY <2>1, FlightShaped DEF Sound, Typed, FlightsShaped, Flight
  <2>3. FlightsShaped' /\ AcknowledgesAnswered'
    BY <1>3, <2>2 DEF SendItem, Sound, Typed, FlightsShaped, Shaped, AcknowledgesAnswered
  <2>4. \A r \in Sessions : GoesOn(r)
    BY <2>2 DEF GoesOn
  <2> QED BY <1>3, <2>3, <2>4, FlightsOnlySound DEF SendItem, Sound, Typed
<1>4. ASSUME NEW i \in Items, Update(i)
      PROVE  Sound'
  <2>1. status' \in [Items -> Statuses]
    BY <1>4 DEF Update, Sound, Typed, Statuses
  <2> QED BY <1>4, <2>1, QuietSound DEF Update, Sound, Typed
<1>5. ASSUME NEW s \in Sessions, FlightStep(s) \/ StreamEnds(s) \/ WriteFails(s)
      PROVE  Sound'
  BY <1>5, AskTurnSound, ClaimsSound, SettleSound, StreamEndsSound, WriteFailsSound DEF FlightStep
<1>6. ASSUME NEW d \in Sends, NEW s \in Sessions, StartDirect(d, s)
      PROVE  Sound'
  BY <1>6, StartDirectSound
<1>7. ASSUME NEW d \in Sends, DirectCut(d) \/ \E terminal \in BOOLEAN : EndDirect(d, terminal)
      PROVE  Sound'
  <2>1. /\ direct[d].pc = "active" /\ direct' = [direct EXCEPT ![d].pc = "done"]
        /\ \E terminal \in BOOLEAN : Release(direct[d].session, terminal)
        /\ UNCHANGED <<status, gateway, answered>>
    BY <1>7 DEF DirectCut, EndDirect
  <2> QED BY <2>1, ReleaseStep
<1>8. ASSUME GatewayUp \/ TakeNews \/ ListFails
      PROVE  Sound'
  BY <1>8, QuietSound DEF GatewayUp, TakeNews, ListFails, Sound, Typed
<1> QED BY <1>1, <1>2, <1>3, <1>4, <1>5, <1>6, <1>7, <1>8, GatewayDownSound,
          GatewayAvailableSound, RestartSound DEF Next, WatchStep

-----------------------------------------------------------------------------
(* The theorems. *)

\* The strengthened invariant holds in every state of every execution.
THEOREM SoundAlways == Spec => []Sound
<1>1. Init => Sound
  BY InitSound
<1>2. Sound /\ [Next]_vars => Sound'
  BY StepSound
<1> QED BY <1>1, <1>2, PTL DEF Spec

\* However many sessions, messages and direct sends there are, and whatever fails: the queue
\* never claims or sends a message of a session while a direct send has that session.
THEOREM QueueWaitsItsTurnAlways == Spec => []QueueWaitsItsTurn
<1>1. Sound => QueueWaitsItsTurn
  BY DEF Sound
<1> QED BY <1>1, SoundAlways, PTL

\* The count of active sends is exact: nothing leaves it above zero for good.
THEOREM ActiveIsCountedAlways == Spec => []ActiveIsCounted
<1>1. Sound => ActiveIsCounted
  BY DEF Sound
<1> QED BY <1>1, SoundAlways, PTL

\* A message that is being sent leaves the queue only when it was answered.
THEOREM NoneLostAlways == Spec => NoneLost
<1> DEFINE Lost(i) == status[i] = "sending" /\ status'[i] = "gone"
<1>1. ASSUME Sound, [Next]_vars, NEW i \in Items, Lost(i)
      PROVE  i \in answered
  <2>1. \/ \E s \in Sessions, j \in Items : RemoveItem(s, j)
        \/ \E s \in Sessions : Settle(s)
    BY <1>1 DEF Next, vars, file, Keep, Sound, Typed, Add, SendItem, Update, FlightStep, StreamEnds,
       WriteFails, Reject, StartDirect, DirectCut, EndDirect, GatewayUp, GatewayDown, WatchStep,
       TakeNews, GatewayAvailable, ListFails, Restart, AskTurn, ClaimNext, Claim, Take, EndFlight
  <2>2. ASSUME NEW s \in Sessions, NEW j \in Items, RemoveItem(s, j)
        PROVE  FALSE
    BY <1>1, <2>2 DEF RemoveItem, Removable, Drop, Sound, Typed
  <2>3. ASSUME NEW s \in Sessions, Settle(s)
        PROVE  i \in answered
    <3>1. CASE flight[s].pc = "acknowledge"
      <4>1. status' = [status EXCEPT ![flight[s].item] = "gone"]
        BY <2>3, <3>1 DEF Settle, Acknowledge, Drop
      <4>2. i = flight[s].item
        BY <1>1, <4>1 DEF Sound, Typed
      <4> QED BY <1>1, <2>3, <3>1, <4>2 DEF Sound, AcknowledgesAnswered, Settle
    <3>2. CASE flight[s].pc # "acknowledge"
      <4>1. PICK new \in {"queued", "failed"} : status' = [status EXCEPT ![flight[s].item] = new]
        BY <2>3, <3>2 DEF Settle, SetStatus
      <4> QED BY <1>1, <4>1 DEF Sound, Typed
    <3> QED BY <3>1, <3>2
  <2> QED BY <2>1, <2>2, <2>3
<1>2. Sound /\ [Next]_vars => [\A i \in Items : Lost(i) => i \in answered]_vars
  BY <1>1
<1> QED BY <1>2, SoundAlways, PTL DEF Spec, NoneLost

-----------------------------------------------------------------------------
(* Where the messages are.  SentOnce is not inductive: that a message which *)
(* was answered is not taken again needs that it lies in one queue only,    *)
(* once, and that no flight but the one that sends it has a hold of it.     *)

Holds(f) == f # None /\ f.pc \in {"deliver", "acknowledge", "restore", "fail"}

FlightsTyped == \A s \in Sessions : flight[s] \in Flights \cup {None}

Injective(q) == \A m, n \in DOMAIN q : q[m] = q[n] => m = n

Placed ==
  /\ queue \in [Sessions -> Seq(Items)]
  /\ \A s \in Sessions : Injective(queue[s])
  /\ \A s, r \in Sessions, i \in Items : InQueue(s, i) /\ InQueue(r, i) => s = r
  /\ \A s \in Sessions, i \in Items : InQueue(s, i) => status[i] \in {"queued", "sending", "failed"}
  /\ \A s \in Sessions : Holds(flight[s]) =>
       /\ flight[s].item \in Items /\ InQueue(s, flight[s].item)
       /\ status[flight[s].item] = "sending"

Acknowledging(i) ==
  \E s \in Sessions : Holds(flight[s]) /\ flight[s].item = i /\ flight[s].pc = "acknowledge"

Sending(i) == \E s \in Sessions : Holds(flight[s]) /\ flight[s].item = i

Followed == \A i \in Items :
  /\ i \in answered => status[i] = "gone" \/ Acknowledging(i)
  /\ status[i] = "sending" => Sending(i)

Once == Placed /\ (~faulted => Followed)

\* The oldest of the messages a flight may take is one of them.
LEMMA LeastNatural ==
  ASSUME NEW T, T \subseteq Nat, T # {}
  PROVE  \E m \in T : \A n \in T : m <= n
<1>1. PICK m \in T : \A n \in T : ~ (<<n, m>> \in OpToRel(<, Nat))
  BY NatLessThanWellFounded, WFMin
<1>2. \A n \in T : ~ (n < m)
  BY <1>1 DEF OpToRel
<1> QED BY <1>2

LEMMA PositionOf ==
  ASSUME Placed, NEW s \in Sessions, NEW i, InQueue(s, i)
  PROVE  Position(s, i) \in DOMAIN queue[s] /\ queue[s][Position(s, i)] = i
BY DEF Position, InQueue, ToSet

LEMMA OldestIsSendable ==
  ASSUME Placed, NEW s \in Sessions, Sendable(s) # {}
  PROVE  Oldest(s) \in Sendable(s)
<1> DEFINE T == {Position(s, i) : i \in Sendable(s)}
<1>1. \A i \in Sendable(s) : Position(s, i) \in Nat
  <2>1. \A i \in Sendable(s) : Position(s, i) \in DOMAIN queue[s]
    BY PositionOf DEF Sendable, InQueue
  <2>2. queue[s] \in Seq(Items)
    BY DEF Placed
  <2> QED BY <2>1, <2>2
<1>2. PICK m \in T : \A n \in T : m <= n
  <2>1. T \subseteq Nat /\ T # {}
    BY <1>1
  <2> HIDE DEF T
  <2> QED BY <2>1, LeastNatural
<1>3. PICK i \in Sendable(s) : m = Position(s, i)
  BY <1>2
<1>4. \A j \in Sendable(s) : Position(s, i) <= Position(s, j)
  BY <1>2, <1>3
<1> QED BY <1>4 DEF Oldest

-----------------------------------------------------------------------------
(* What the writes of the queue file do to a queue. *)

LEMMA RemovedAt ==
  ASSUME NEW q \in Seq(Items), Injective(q), NEW n \in DOMAIN q
  PROVE  /\ RemoveAt(q, n) \in Seq(Items) /\ Injective(RemoveAt(q, n))
         /\ ToSet(RemoveAt(q, n)) = ToSet(q) \ {q[n]}
<1> DEFINE p == RemoveAt(q, n)
<1>1. n \in 1 .. Len(q) /\ Len(q) \in Nat
  OBVIOUS
<1>2. /\ SubSeq(q, 1, n - 1) \in Seq(Items) /\ Len(SubSeq(q, 1, n - 1)) = n - 1
      /\ \A k \in 1 .. (n - 1) : SubSeq(q, 1, n - 1)[k] = q[k]
  BY <1>1
<1>3. /\ SubSeq(q, n + 1, Len(q)) \in Seq(Items) /\ Len(SubSeq(q, n + 1, Len(q))) = Len(q) - n
      /\ \A k \in 1 .. (Len(q) - n) : SubSeq(q, n + 1, Len(q))[k] = q[n + k]
  BY <1>1
<1>4. /\ p \in Seq(Items) /\ Len(p) = Len(q) - 1
      /\ \A k \in 1 .. Len(q) - 1 : p[k] = IF k < n THEN q[k] ELSE q[k + 1]
  <2> DEFINE u == SubSeq(q, 1, n - 1)
             v == SubSeq(q, n + 1, Len(q))
  <2>1. p = u \o v
    BY DEF RemoveAt
  <2>2. u \in Seq(Items) /\ v \in Seq(Items) /\ Len(u) = n - 1 /\ Len(v) = Len(q) - n
    BY <1>2, <1>3
  <2>3. (\A k \in 1 .. (n - 1) : u[k] = q[k]) /\ \A k \in 1 .. (Len(q) - n) : v[k] = q[n + k]
    BY <1>2, <1>3
  <2> HIDE DEF u, v, p
  <2>4. /\ p \in Seq(Items) /\ Len(p) = Len(q) - 1
        /\ \A k \in 1 .. Len(q) - 1 : p[k] = IF k <= Len(u) THEN u[k] ELSE v[k - Len(u)]
    BY SMTT(20), <1>1, <2>1, <2>2
  <2>5. ASSUME NEW k \in 1 .. Len(q) - 1 PROVE p[k] = IF k < n THEN q[k] ELSE q[k + 1]
    <3>1. CASE k < n
      BY <1>1, <2>2, <2>3, <2>4, <3>1
    <3>2. CASE ~(k < n)
      <4>1. k - Len(u) \in 1 .. (Len(q) - n) /\ n + (k - Len(u)) = k + 1 /\ ~(k <= Len(u))
        BY SMTT(20), <1>1, <2>2, <3>2
      <4> QED BY <2>3, <2>4, <3>2, <4>1
    <3> QED BY <3>1, <3>2
  <2> QED BY <2>4, <2>5
<1> HIDE DEF p
<1>5. DOMAIN p = 1 .. Len(q) - 1 /\ DOMAIN q = 1 .. Len(q)
  BY <1>4
<1>6. ASSUME NEW k \in DOMAIN p, NEW l \in DOMAIN p, p[k] = p[l] PROVE k = l
  <2> DEFINE kk == IF k < n THEN k ELSE k + 1
             ll == IF l < n THEN l ELSE l + 1
  <2>1. kk \in DOMAIN q /\ ll \in DOMAIN q /\ q[kk] = q[ll]
    BY <1>1, <1>4, <1>5, <1>6
  <2>2. kk = ll
    BY <2>1 DEF Injective
  <2> QED BY <1>1, <1>5, <2>2
<1>7. ASSUME NEW k \in DOMAIN p PROVE p[k] \in ToSet(q) /\ p[k] # q[n]
  <2> DEFINE kk == IF k < n THEN k ELSE k + 1
  <2>1. kk \in DOMAIN q /\ kk # n /\ p[k] = q[kk]
    BY <1>1, <1>4, <1>5
  <2> HIDE DEF kk
  <2> QED BY <1>1, <1>5, <2>1 DEF Injective, ToSet
<1>8. ASSUME NEW k \in DOMAIN q, q[k] # q[n] PROVE q[k] \in ToSet(p)
  <2> DEFINE kk == IF k < n THEN k ELSE k - 1
  <2>1. kk \in DOMAIN p /\ p[kk] = q[k]
    BY <1>1, <1>4, <1>5, <1>8
  <2> HIDE DEF kk
  <2> QED BY <2>1 DEF ToSet
<1>9. ToSet(p) = ToSet(q) \ {q[n]}
  BY <1>7, <1>8 DEF ToSet
<1> QED BY <1>4, <1>6, <1>9 DEF Injective, p

LEMMA Dropped ==
  ASSUME Placed, Typed, NEW s \in Sessions, NEW i \in Items, InQueue(s, i), Drop(s, i)
  PROVE  /\ queue' \in [Sessions -> Seq(Items)]
         /\ \A r \in Sessions : Injective(queue'[r])
         /\ \A r \in Sessions, j \in Items :
              j \in ToSet(queue'[r]) <=> InQueue(r, j) /\ ~(r = s /\ j = i)
         /\ status'[i] = "gone" /\ \A j \in Items : j # i => status'[j] = status[j]
<1> DEFINE n == Position(s, i)
<1>1. n \in DOMAIN queue[s] /\ queue[s][n] = i /\ queue[s] \in Seq(Items) /\ Injective(queue[s])
  BY PositionOf DEF Placed
<1> HIDE DEF n
<1>2. /\ RemoveAt(queue[s], n) \in Seq(Items) /\ Injective(RemoveAt(queue[s], n))
      /\ ToSet(RemoveAt(queue[s], n)) = ToSet(queue[s]) \ {i}
  BY <1>1, RemovedAt
<1>3. queue' = [queue EXCEPT ![s] = RemoveAt(queue[s], n)]
  BY DEF Drop, n
<1>4. status'[i] = "gone" /\ \A j \in Items : j # i => status'[j] = status[j]
  BY DEF Drop, Typed
<1>5. queue'[s] = RemoveAt(queue[s], n) /\ \A r \in Sessions : r # s => queue'[r] = queue[r]
  BY <1>3 DEF Placed
<1>6. queue' \in [Sessions -> Seq(Items)]
  BY <1>2, <1>3 DEF Placed
<1>7. \A r \in Sessions : Injective(queue'[r])
  BY <1>2, <1>5 DEF Placed
<1>8. \A r \in Sessions, j \in Items : j \in ToSet(queue'[r]) <=> InQueue(r, j) /\ ~(r = s /\ j = i)
  BY <1>2, <1>5 DEF InQueue
<1> QED BY <1>4, <1>6, <1>7, <1>8

LEMMA Appended ==
  ASSUME Placed, Typed, NEW s \in Sessions, NEW i \in Items, Add(s, i)
  PROVE  /\ queue' \in [Sessions -> Seq(Items)]
         /\ \A r \in Sessions : Injective(queue'[r])
         /\ \A r \in Sessions : ~InQueue(r, i)
         /\ \A r \in Sessions, j \in Items :
              j \in ToSet(queue'[r]) <=> InQueue(r, j) \/ (r = s /\ j = i)
         /\ status'[i] = "queued" /\ \A j \in Items : j # i => status'[j] = status[j]
<1>1. queue[s] \in Seq(Items) /\ Injective(queue[s]) /\ queue' = [queue EXCEPT ![s] = Append(queue[s], i)]
  BY DEF Placed, Add
<1>2. \A r \in Sessions : ~InQueue(r, i)
  BY DEF Placed, Add, Addable
<1>3. /\ Append(queue[s], i) \in Seq(Items) /\ Len(Append(queue[s], i)) = Len(queue[s]) + 1
      /\ \A k \in 1 .. Len(queue[s]) : Append(queue[s], i)[k] = queue[s][k]
      /\ Append(queue[s], i)[Len(queue[s]) + 1] = i
  BY <1>1
<1> DEFINE p == Append(queue[s], i)
<1> HIDE DEF p
<1>4. /\ DOMAIN p = 1 .. (Len(queue[s]) + 1) /\ DOMAIN queue[s] = 1 .. Len(queue[s]) /\ Len(queue[s]) \in Nat
      /\ \A k \in DOMAIN p : p[k] = IF k <= Len(queue[s]) THEN queue[s][k] ELSE i
  BY <1>1, <1>3 DEF p
<1>5. \A k \in DOMAIN queue[s] : queue[s][k] # i
  BY <1>2 DEF InQueue, ToSet
<1>6. Injective(p)
  BY <1>1, <1>4, <1>5 DEF Injective
<1>7. ToSet(p) = ToSet(queue[s]) \cup {i}
  <2>1. ASSUME NEW k \in DOMAIN p PROVE p[k] \in ToSet(queue[s]) \cup {i}
    BY <1>4 DEF ToSet
  <2>2. ASSUME NEW k \in DOMAIN queue[s] PROVE queue[s][k] \in ToSet(p)
    BY <1>4 DEF ToSet
  <2>3. i \in ToSet(p)
    <3>1. Len(queue[s]) + 1 \in DOMAIN p /\ p[Len(queue[s]) + 1] = i
      BY <1>4
    <3> QED BY <3>1 DEF ToSet
  <2>4. ToSet(queue[s]) \subseteq ToSet(p)
    BY <2>2 DEF ToSet
  <2>5. ToSet(p) \subseteq ToSet(queue[s]) \cup {i}
    BY <2>1 DEF ToSet
  <2> QED BY <2>3, <2>4, <2>5
<1>8. queue'[s] = p /\ \A r \in Sessions : r # s => queue'[r] = queue[r]
  BY <1>1 DEF Placed, p
<1>9. queue' \in [Sessions -> Seq(Items)]
  BY <1>1, <1>3 DEF Placed
<1>10. \A r \in Sessions : Injective(queue'[r])
  BY <1>6, <1>8 DEF Placed
<1>11. \A r \in Sessions, j \in Items : j \in ToSet(queue'[r]) <=> InQueue(r, j) \/ (r = s /\ j = i)
  BY <1>7, <1>8 DEF InQueue
<1>12. status'[i] = "queued" /\ \A j \in Items : j # i => status'[j] = status[j]
  BY DEF Add, Typed
<1> QED BY <1>2, <1>9, <1>10, <1>11, <1>12

-----------------------------------------------------------------------------
(* What keeps every message where it is. *)

\* No flight gets hold of a message or lets one go, and what it does with it goes on.
SameHolds ==
  \A r \in Sessions :
    /\ Holds(flight'[r]) <=> Holds(flight[r])
    /\ Holds(flight[r]) => /\ flight'[r].item = flight[r].item
                           /\ flight[r].pc = "acknowledge" => flight'[r].pc = "acknowledge"

\* An edit may put a failed message back in line.
Edited ==
  \A i \in Items : status'[i] = status[i] \/ (status[i] = "failed" /\ status'[i] = "queued")

LEMMA QuietPlaced ==
  ASSUME Placed, Edited, UNCHANGED queue,
         \A r \in Sessions : Holds(flight'[r]) => Holds(flight[r]) /\ flight'[r].item = flight[r].item
  PROVE  Placed'
BY DEF Placed, Edited, InQueue, Injective

LEMMA QuietFollowed ==
  ASSUME Followed, Edited, SameHolds, UNCHANGED answered
  PROVE  Followed'
<1>1. ASSUME NEW i \in Items, Acknowledging(i) PROVE Acknowledging(i)'
  BY <1>1 DEF Acknowledging, SameHolds
<1>2. ASSUME NEW i \in Items, Sending(i) PROVE Sending(i)'
  BY <1>2 DEF Sending, SameHolds
<1> QED BY <1>1, <1>2 DEF Followed, Edited

LEMMA QuietOnce ==
  ASSUME Once, Edited, SameHolds, UNCHANGED <<queue, answered>>, faulted' \in {faulted, TRUE}
  PROVE  Once'
BY QuietPlaced, QuietFollowed DEF Once, SameHolds

LEMMA SameStatus ==
  ASSUME UNCHANGED status
  PROVE  Edited
BY DEF Edited

\* Flights that hold nothing come and go.
LEMMA OnlyIdle ==
  ASSUME \A r \in Sessions : flight'[r] = flight[r] \/ (~Holds(flight[r]) /\ ~Holds(flight'[r]))
  PROVE  SameHolds
BY DEF SameHolds

LEMMA FaultyOnce ==
  ASSUME Once, UNCHANGED <<queue, status>>, faulted' = TRUE,
         \A r \in Sessions : Holds(flight'[r]) => Holds(flight[r]) /\ flight'[r].item = flight[r].item
  PROVE  Once'
<1>1. Placed'
  <2>1. Edited /\ Placed /\ UNCHANGED queue
    BY SameStatus DEF Once
  <2> QED BY <2>1, QuietPlaced
<1>2. faulted'
  OBVIOUS
<1> QED BY <1>1, <1>2 DEF Once

LEMMA Ended ==
  ASSUME Typed, NEW s \in Sessions, EndFlight(s)
  PROVE  \A r \in Sessions : flight'[r] = IF r = s THEN None ELSE flight[r]
BY DEF EndFlight, Typed, FlightsShaped

LEMMA JoinedHolds ==
  ASSUME NEW f, NEW kind
  PROVE  /\ f # None => Joined(f, kind) = f
         /\ f = None => ~Holds(Joined(f, kind))
BY DEF Joined, Flight, Holds

LEMMA ReleaseHolds ==
  ASSUME Typed, NEW s \in Sessions, NEW terminal \in BOOLEAN, Release(s, terminal)
  PROVE  SameHolds
<1>1. \A r \in Sessions : r # s => flight'[r] = flight[r]
  BY DEF Release, Typed, FlightsShaped
<1>2. flight'[s] \in {flight[s], Joined(flight[s], "release"), Joined(flight[s], "idle")}
  BY DEF Release, Typed, FlightsShaped
<1>3. flight'[s] = flight[s] \/ (~Holds(flight[s]) /\ ~Holds(flight'[s]))
  <2>1. CASE flight[s] = None
    BY <1>2, <2>1, JoinedHolds DEF Holds
  <2>2. CASE flight[s] # None
    <3>1. Joined(flight[s], "release") = flight[s] /\ Joined(flight[s], "idle") = flight[s]
      BY <2>2, JoinedHolds
    <3> QED BY <1>2, <3>1
  <2> QED BY <2>1, <2>2
<1> QED BY <1>1, <1>3, OnlyIdle

-----------------------------------------------------------------------------
(* The steps of a flight. *)

LEMMA TakeOnce ==
  ASSUME Once, Typed, FlightsTyped, NEW s \in Sessions, NEW i \in Items, InQueue(s, i), Take(s, i),
         flight[s] # None, flight[s].pc = "claim", UNCHANGED <<queue, answered, faulted>>
  PROVE  Once'
<1>1. /\ \A r \in Sessions : r # s => flight'[r] = flight[r]
      /\ flight'[s] = [kind |-> flight[s].kind, pc |-> "deliver", item |-> i, caught |-> flight[s].caught]
  <2>1. Shaped(flight[s])
    BY DEF Typed, FlightsShaped
  <2>2. /\ \A r \in Sessions : r # s => flight'[r] = flight[r]
        /\ flight'[s] = [flight[s] EXCEPT !.pc = "deliver", !.item = i]
    BY DEF Take, Typed, FlightsShaped
  <2> QED BY <2>1, <2>2, TakenOf
<1>2. ~Holds(flight[s]) /\ flight'[s].item = i /\ flight'[s].pc = "deliver" /\ flight'[s] # None
  <2>1. [kind |-> flight[s].kind, pc |-> "deliver", item |-> i, caught |-> flight[s].caught] \in Flights
    BY DEF FlightsTyped, Flights
  <2> QED BY <1>1, <2>1, NoneIsNoFlight DEF Holds
<1>3. status'[i] = "sending" /\ \A j \in Items : j # i => status'[j] = status[j]
  BY DEF Take, Typed
<1>4. Placed'
  <2>1. ASSUME NEW r \in Sessions, Holds(flight'[r])
        PROVE  /\ flight'[r].item \in Items /\ flight'[r].item \in ToSet(queue[r])
               /\ status'[flight'[r].item] = "sending"
    <3>1. CASE r = s
      BY <1>2, <1>3, <3>1 DEF InQueue
    <3>2. CASE r # s
      <4>1. flight'[r] = flight[r] /\ Holds(flight[r])
        BY <1>1, <2>1, <3>2
      <4>2. /\ flight[r].item \in Items /\ flight[r].item \in ToSet(queue[r])
            /\ status[flight[r].item] = "sending"
        BY <4>1 DEF Once, Placed, InQueue
      <4> QED BY <1>3, <4>1, <4>2
    <3> QED BY <3>1, <3>2
  <2>2. \A r \in Sessions, j \in Items : InQueue(r, j) => status'[j] \in {"queued", "sending", "failed"}
    BY <1>3 DEF Once, Placed
  <2>3. /\ queue \in [Sessions -> Seq(Items)]
        /\ \A q \in Sessions : Injective(queue[q])
        /\ \A q, r \in Sessions, j \in Items : j \in ToSet(queue[q]) /\ j \in ToSet(queue[r]) => q = r
    BY DEF Once, Placed, InQueue
  <2> QED BY <2>1, <2>2, <2>3 DEF Placed, InQueue, Injective
<1>5. ASSUME Followed PROVE Followed'
  <2>1. ASSUME NEW j \in Items, j \in answered PROVE status'[j] = "gone" \/ Acknowledging(j)'
    <3>1. CASE Acknowledging(j)
      BY <1>1, <1>2, <3>1 DEF Acknowledging
    <3>2. CASE status[j] = "gone"
      BY <1>3, <3>2 DEF Once, Placed
    <3> QED BY <1>5, <2>1, <3>1, <3>2 DEF Followed
  <2>2. ASSUME NEW j \in Items, status'[j] = "sending" PROVE Sending(j)'
    <3>1. CASE j = i
      <4>1. Holds(flight'[s])
        BY <1>2 DEF Holds
      <4> QED BY <1>2, <3>1, <4>1 DEF Sending
    <3>2. CASE j # i
      <4>1. Sending(j)
        BY <1>3, <1>5, <2>2, <3>2 DEF Followed
      <4> QED BY <1>1, <1>2, <4>1 DEF Sending
    <3> QED BY <3>1, <3>2
  <2> QED BY <2>1, <2>2 DEF Followed
<1> QED BY <1>4, <1>5 DEF Once

LEMMA ClaimsOnce ==
  ASSUME Once, Typed, FlightsTyped, NEW s \in Sessions, ClaimNext(s) \/ Claim(s)
  PROVE  Once'
<1>1. /\ flight[s] # None /\ flight[s].pc = "claim" /\ UNCHANGED <<queue, answered, faulted>>
      /\ \/ EndFlight(s) /\ UNCHANGED status
         \/ Sendable(s) # {} /\ Take(s, Oldest(s))
         \/ flight[s].item \in ToSet(queue[s]) /\ Take(s, flight[s].item)
  BY DEF ClaimNext, Claim
<1>2. CASE EndFlight(s) /\ UNCHANGED status
  <2>1. \A r \in Sessions : flight'[r] = IF r = s THEN None ELSE flight[r]
    BY <1>2, Ended
  <2>2. SameHolds
    <3>1. ~Holds(flight[s]) /\ ~Holds(flight'[s])
      BY <1>1, <2>1 DEF Holds
    <3> QED BY <2>1, <3>1, OnlyIdle
  <2>3. Edited
    BY <1>2, SameStatus
  <2> QED BY <1>1, <2>2, <2>3, QuietOnce
<1>3. \A i \in ToSet(queue[s]) : i \in Items
  BY DEF Once, Placed, ToSet
<1>4. CASE Sendable(s) # {} /\ Take(s, Oldest(s))
  <2>1. Oldest(s) \in Items /\ InQueue(s, Oldest(s))
    BY <1>3, <1>4, OldestIsSendable DEF Once, Sendable, InQueue
  <2> QED BY <1>1, <1>4, <2>1, TakeOnce
<1>5. CASE flight[s].item \in ToSet(queue[s]) /\ Take(s, flight[s].item)
  BY <1>1, <1>3, <1>5, TakeOnce DEF InQueue
<1> QED BY <1>1, <1>2, <1>4, <1>5

LEMMA AskTurnOnce ==
  ASSUME Once, Typed, NEW s \in Sessions, AskTurn(s)
  PROVE  Once'
<1>1. UNCHANGED <<queue, status, answered, faulted>> /\ flight[s] # None /\ flight[s].pc = "head"
  BY DEF AskTurn, file
<1>2. \A r \in Sessions : flight'[r] = flight[r] \/ (~Holds(flight[r]) /\ ~Holds(flight'[r]))
  <2>1. CASE EndFlight(s)
    <3>1. \A r \in Sessions : flight'[r] = IF r = s THEN None ELSE flight[r]
      BY <2>1, Ended
    <3>2. ~Holds(flight[s]) /\ ~Holds(flight'[s])
      BY <1>1, <3>1 DEF Holds
    <3> QED BY <3>1, <3>2
  <2>2. CASE Goto(s, "claim")
    <3>1. \A r \in Sessions : r # s => flight'[r] = flight[r]
      BY <2>2 DEF Goto, Typed, FlightsShaped
    <3>2. flight'[s] = [flight[s] EXCEPT !.pc = "claim"] /\ Shaped(flight[s])
      BY <1>1, <2>2 DEF Goto, Typed, FlightsShaped
    <3>3. flight'[s].pc = "claim"
      BY <3>2, ChangedPc
    <3>4. ~Holds(flight[s]) /\ ~Holds(flight'[s])
      BY <1>1, <3>3 DEF Holds
    <3> QED BY <3>1, <3>4
  <2> QED BY <2>1, <2>2 DEF AskTurn
<1>3. SameHolds
  BY <1>2, OnlyIdle
<1>4. Edited
  BY <1>1, SameStatus
<1> QED BY <1>1, <1>3, <1>4, QuietOnce

\* One flight goes from its message on to a write of the queue file.
LEMMA Settled ==
  ASSUME Typed, FlightsTyped, NEW s \in Sessions, NEW op \in {"acknowledge", "restore", "fail"},
         NEW caught \in BOOLEAN, Holds(flight[s]),
         flight' = [flight EXCEPT ![s] = Settling(@, op, caught)]
  PROVE  /\ \A r \in Sessions : r # s => flight'[r] = flight[r]
         /\ Holds(flight'[s]) /\ flight'[s].item = flight[s].item /\ flight'[s].pc = op
<1>1. /\ \A r \in Sessions : r # s => flight'[r] = flight[r]
      /\ flight'[s] = Settling(flight[s], op, caught) /\ Shaped(flight[s])
  BY DEF Typed, FlightsShaped, Holds
<1>2. flight'[s] = [kind |-> flight[s].kind, pc |-> op, item |-> flight[s].item, caught |-> caught]
  BY <1>1, SettlingOf
<1>3. [kind |-> flight[s].kind, pc |-> op, item |-> flight[s].item, caught |-> caught] \in Flights
  BY DEF FlightsTyped, Flights, Holds
<1> QED BY <1>1, <1>2, <1>3, NoneIsNoFlight DEF Holds

LEMMA StreamEndsOnce ==
  ASSUME Once, Typed, FlightsTyped, NEW s \in Sessions, StreamEnds(s)
  PROVE  Once'
<1>1. flight[s].pc = "deliver" /\ Holds(flight[s]) /\ UNCHANGED <<queue, status, faulted>>
  BY DEF StreamEnds, file, Holds
<1>2. PICK op \in {"acknowledge", "restore", "fail"}, caught \in BOOLEAN :
        /\ flight' = [flight EXCEPT ![s] = Settling(@, op, caught)]
        /\ op = "acknowledge" => answered' = answered \cup {flight[s].item}
        /\ op # "acknowledge" => answered' = answered
  BY DEF StreamEnds, CutOff
<1>3. /\ \A r \in Sessions : r # s => flight'[r] = flight[r]
      /\ Holds(flight'[s]) /\ flight'[s].item = flight[s].item /\ flight'[s].pc = op
  BY <1>1, <1>2, Settled
<1>4. SameHolds
  BY <1>1, <1>3 DEF SameHolds
<1>5. Placed'
  <2>1. Edited
    BY <1>1, SameStatus
  <2>2. \A r \in Sessions : Holds(flight'[r]) => Holds(flight[r]) /\ flight'[r].item = flight[r].item
    BY <1>4 DEF SameHolds
  <2> QED BY <1>1, <2>1, <2>2, QuietPlaced DEF Once
<1>6. ASSUME Followed PROVE Followed'
  <2>1. ASSUME NEW i \in Items, i \in answered' PROVE status'[i] = "gone" \/ Acknowledging(i)'
    <3>1. CASE i \in answered
      BY <1>1, <1>4, <1>6, <3>1 DEF Followed, Acknowledging, SameHolds
    <3>2. CASE i \notin answered
      BY <1>2, <1>3, <2>1, <3>2 DEF Acknowledging
    <3> QED BY <3>1, <3>2
  <2>2. ASSUME NEW i \in Items, status'[i] = "sending" PROVE Sending(i)'
    BY <1>1, <1>4, <1>6, <2>2 DEF Followed, Sending, SameHolds
  <2> QED BY <2>1, <2>2 DEF Followed
<1> QED BY <1>1, <1>5, <1>6 DEF Once

LEMMA WriteFailsOnce ==
  ASSUME Once, Typed, FlightsTyped, NEW s \in Sessions, WriteFails(s)
  PROVE  Once'
<1>1. CASE Reject(s)
  <2>1. EndFlight(s) /\ faulted' = TRUE /\ UNCHANGED <<queue, status>>
    BY <1>1 DEF Reject, file
  <2> QED BY <2>1, Ended, FaultyOnce DEF Holds
<1>2. CASE ~Reject(s)
  <2>1. /\ Holds(flight[s]) /\ flight' = [flight EXCEPT ![s] = Settling(@, "fail", TRUE)]
        /\ faulted' = TRUE /\ UNCHANGED <<queue, status>>
    BY <1>2 DEF WriteFails, file, Holds
  <2>2. /\ \A r \in Sessions : r # s => flight'[r] = flight[r]
        /\ Holds(flight'[s]) /\ flight'[s].item = flight[s].item
    BY <2>1, Settled
  <2> QED BY <2>1, <2>2, FaultyOnce
<1> QED BY <1>1, <1>2

\* The write that ends the sending of a message: it leaves the queue, or is back in line or
\* marked as failed, and its flight lets it go.
LEMMA SettleOnce ==
  ASSUME Once, Typed, NEW s \in Sessions, Settle(s)
  PROVE  Once'
<1> DEFINE i == flight[s].item
<1>1. Holds(flight[s]) /\ UNCHANGED <<answered, faulted>>
  BY DEF Settle, Holds
<1>2. /\ i \in Items /\ InQueue(s, i) /\ status[i] = "sending"
      /\ \A r \in Sessions : r # s => ~InQueue(r, i)
  BY <1>1 DEF Once, Placed
<1>3. (\A r \in Sessions : r # s => flight'[r] = flight[r]) /\ ~Holds(flight'[s])
  <2>1. CASE EndFlight(s)
    BY <2>1, Ended DEF Holds
  <2>2. CASE ~EndFlight(s)
    <3>1. flight' = [flight EXCEPT ![s] = Flight(@.kind, "head", None)]
      BY <2>2 DEF Settle, Delivered
    <3>2. flight'[s] = Flight(flight[s].kind, "head", None) /\ \A r \in Sessions : r # s => flight'[r] = flight[r]
      BY <3>1 DEF Typed, FlightsShaped
    <3> QED BY <3>2, FlightShaped DEF Holds
  <2> QED BY <2>1, <2>2
<1>4. \A r \in Sessions : Holds(flight[r]) /\ flight[r].item = i => r = s
  BY <1>2 DEF Once, Placed
<1>5. CASE flight[s].pc = "acknowledge"
  <2>1. Drop(s, i)
    BY <1>5 DEF Settle, Acknowledge
  <2>2. /\ queue' \in [Sessions -> Seq(Items)]
        /\ \A r \in Sessions : Injective(queue'[r])
        /\ \A r \in Sessions, j \in Items :
             j \in ToSet(queue'[r]) <=> InQueue(r, j) /\ ~(r = s /\ j = i)
        /\ status'[i] = "gone" /\ \A j \in Items : j # i => status'[j] = status[j]
    BY <1>2, <2>1, Dropped DEF Once
  <2> HIDE DEF i
  <2>3. ASSUME NEW r \in Sessions, Holds(flight'[r])
        PROVE  /\ flight'[r].item \in Items /\ flight'[r].item \in ToSet(queue'[r])
               /\ status'[flight'[r].item] = "sending"
    <3>1. r # s /\ flight'[r] = flight[r]
      BY <1>3, <2>3
    <3>2. /\ flight[r].item \in Items /\ InQueue(r, flight[r].item)
          /\ status[flight[r].item] = "sending" /\ flight[r].item # i
      BY <1>2, <2>3, <3>1 DEF Once, Placed
    <3> QED BY <2>2, <3>1, <3>2
  <2>4. \A r \in Sessions, j \in Items : j \in ToSet(queue'[r]) => status'[j] \in {"queued", "sending", "failed"}
    BY ZenonT(60), <1>2, <2>2 DEF Once, Placed
  <2>5. \A q, r \in Sessions, j \in Items : j \in ToSet(queue'[q]) /\ j \in ToSet(queue'[r]) => q = r
    BY <2>2 DEF Once, Placed
  <2>6. Placed'
    BY <2>2, <2>3, <2>4, <2>5 DEF Placed, InQueue, Injective
  <2>7. ASSUME Followed PROVE Followed'
    <3>1. ASSUME NEW j \in Items, j # i, Acknowledging(j) PROVE Acknowledging(j)'
      BY <1>3, <3>1 DEF Acknowledging, i
    <3>2. ASSUME NEW j \in Items, j # i, Sending(j) PROVE Sending(j)'
      BY <1>3, <3>2 DEF Sending, i
    <3> QED BY <1>1, <2>2, <2>7, <3>1, <3>2 DEF Followed
  <2> QED BY <1>1, <2>6, <2>7 DEF Once
<1>6. CASE flight[s].pc # "acknowledge"
  <2>1. PICK new \in {"queued", "failed"} : status' = [status EXCEPT ![i] = new] /\ UNCHANGED queue
    BY <1>6 DEF Settle, SetStatus
  <2>2. status'[i] = new /\ \A j \in Items : j # i => status'[j] = status[j]
    BY <1>2, <2>1 DEF Typed
  <2> HIDE DEF i
  <2>3. Placed'
    <3>1. ASSUME NEW r \in Sessions, Holds(flight'[r])
          PROVE  /\ flight'[r].item \in Items /\ flight'[r].item \in ToSet(queue[r])
                 /\ status'[flight'[r].item] = "sending"
      <4>1. r # s /\ flight'[r] = flight[r] /\ flight[r].item # i
        BY <1>3, <1>4, <3>1
      <4> QED BY <2>2, <3>1, <4>1 DEF Once, Placed, InQueue
    <3>2. \A r \in Sessions, j \in Items : InQueue(r, j) => status'[j] \in {"queued", "sending", "failed"}
      BY <2>2 DEF Once, Placed
    <3>3. /\ queue \in [Sessions -> Seq(Items)]
          /\ \A q \in Sessions : Injective(queue[q])
          /\ \A q, r \in Sessions, j \in Items : j \in ToSet(queue[q]) /\ j \in ToSet(queue[r]) => q = r
      BY DEF Once, Placed, InQueue
    <3> QED BY <2>1, <3>1, <3>2, <3>3 DEF Placed, InQueue, Injective
  <2>4. ASSUME Followed PROVE Followed'
    <3>1. ASSUME NEW j \in Items, Acknowledging(j) PROVE Acknowledging(j)' /\ j # i
      BY <1>3, <1>4, <1>6, <3>1 DEF Acknowledging
    <3>2. ASSUME NEW j \in Items, j # i, Sending(j) PROVE Sending(j)'
      BY <1>3, <3>2 DEF Sending, i
    <3>3. i \notin answered
      <4>1. ~Acknowledging(i)
        BY <1>4, <1>6 DEF Acknowledging, i
      <4> QED BY <1>2, <2>4, <4>1 DEF Followed
    <3> QED BY <1>1, <2>2, <2>4, <3>1, <3>2, <3>3 DEF Followed
  <2> QED BY <1>1, <2>3, <2>4 DEF Once
<1> QED BY <1>5, <1>6

-----------------------------------------------------------------------------
(* The user's steps, the direct sends and the gateway. *)

LEMMA AddOnce ==
  ASSUME Once, Typed, NEW s \in Sessions, NEW i \in Items, Add(s, i)
  PROVE  Once'
<1>1. UNCHANGED <<flight, answered, faulted>> /\ status[i] = "new"
  BY DEF Add, Addable, Keep
<1>2. /\ queue' \in [Sessions -> Seq(Items)]
      /\ \A r \in Sessions : Injective(queue'[r])
      /\ \A r \in Sessions : ~InQueue(r, i)
      /\ \A r \in Sessions, j \in Items : j \in ToSet(queue'[r]) <=> InQueue(r, j) \/ (r = s /\ j = i)
      /\ status'[i] = "queued" /\ \A j \in Items : j # i => status'[j] = status[j]
  BY Appended DEF Once
<1>3. ASSUME NEW r \in Sessions, Holds(flight'[r])
      PROVE  /\ flight'[r].item \in Items /\ flight'[r].item \in ToSet(queue'[r])
             /\ status'[flight'[r].item] = "sending"
  BY <1>1, <1>2, <1>3 DEF Once, Placed
<1>4. \A r \in Sessions, j \in Items : j \in ToSet(queue'[r]) => status'[j] \in {"queued", "sending", "failed"}
  BY <1>2 DEF Once, Placed
<1>5. \A q, r \in Sessions, j \in Items : j \in ToSet(queue'[q]) /\ j \in ToSet(queue'[r]) => q = r
  BY <1>2 DEF Once, Placed
<1>6. Placed'
  BY <1>2, <1>3, <1>4, <1>5 DEF Placed, InQueue, Injective
<1>7. ASSUME Followed PROVE Followed'
  <2>1. \A j \in Items : (Acknowledging(j) <=> Acknowledging(j)') /\ (Sending(j) <=> Sending(j)')
    BY <1>1 DEF Acknowledging, Sending
  <2>2. i \notin answered
    <3>1. ~Acknowledging(i)
      BY <1>1 DEF Acknowledging, Once, Placed
    <3> QED BY <1>1, <1>7, <3>1 DEF Followed
  <2> QED BY <1>1, <1>2, <1>7, <2>1, <2>2 DEF Followed
<1> QED BY <1>1, <1>6, <1>7 DEF Once

\* The user removes a message that no flight holds.
LEMMA RemoveItemOnce ==
  ASSUME Once, Typed, NEW s \in Sessions, NEW i \in Items, RemoveItem(s, i)
  PROVE  Once'
<1>1. /\ UNCHANGED <<flight, answered, faulted>> /\ InQueue(s, i) /\ Drop(s, i)
      /\ status[i] \in {"queued", "failed"}
  BY DEF RemoveItem, Removable, Keep, InQueue
<1>2. /\ queue' \in [Sessions -> Seq(Items)]
      /\ \A r \in Sessions : Injective(queue'[r])
      /\ \A r \in Sessions, j \in Items : j \in ToSet(queue'[r]) <=> InQueue(r, j) /\ ~(r = s /\ j = i)
      /\ status'[i] = "gone" /\ \A j \in Items : j # i => status'[j] = status[j]
  BY <1>1, Dropped DEF Once
<1>3. ASSUME NEW r \in Sessions, Holds(flight'[r])
      PROVE  /\ flight'[r].item \in Items /\ flight'[r].item \in ToSet(queue'[r])
             /\ status'[flight'[r].item] = "sending"
  <2>1. /\ flight'[r] = flight[r] /\ flight[r].item \in Items /\ InQueue(r, flight[r].item)
        /\ status[flight[r].item] = "sending"
    BY <1>1, <1>3 DEF Once, Placed
  <2> QED BY <1>1, <1>2, <2>1
<1>4. ASSUME NEW r \in Sessions, NEW j \in Items, j \in ToSet(queue'[r])
      PROVE  status'[j] \in {"queued", "sending", "failed"}
  <2>1. InQueue(r, j) /\ ~(r = s /\ j = i)
    BY <1>2, <1>4
  <2>2. j # i
    BY <1>1, <2>1 DEF Once, Placed
  <2> QED BY <1>2, <2>1, <2>2 DEF Once, Placed
<1>5. \A q, r \in Sessions, j \in Items : j \in ToSet(queue'[q]) /\ j \in ToSet(queue'[r]) => q = r
  BY <1>2 DEF Once, Placed
<1>6. Placed'
  BY <1>2, <1>3, <1>4, <1>5 DEF Placed, InQueue, Injective
<1>7. ASSUME Followed PROVE Followed'
  <2>1. \A j \in Items : (Acknowledging(j) <=> Acknowledging(j)') /\ (Sending(j) <=> Sending(j)')
    BY <1>1 DEF Acknowledging, Sending
  <2> QED BY <1>1, <1>2, <1>7, <2>1 DEF Followed
<1> QED BY <1>1, <1>6, <1>7 DEF Once

\* What only edits a message, or touches no flight that holds one.
LEMMA QuietStepsOnce ==
  ASSUME Once, Typed,
         \/ UNCHANGED vars
         \/ \E i \in Items : Update(i)
         \/ \E d \in Sends, s \in Sessions : StartDirect(d, s)
         \/ GatewayUp \/ TakeNews \/ ListFails
  PROVE  Once'
<1>1. UNCHANGED <<queue, answered, flight>> /\ faulted' \in {faulted, TRUE}
  BY DEF vars, file, outside, Keep, Update, StartDirect, GatewayUp, TakeNews, ListFails
<1>2. Edited
  <2>1. CASE UNCHANGED status
    BY <2>1, SameStatus
  <2>2. CASE ~UNCHANGED status
    <3>1. PICK i \in Items : status[i] = "failed" /\ status' = [status EXCEPT ![i] = "queued"]
      BY <2>2 DEF vars, file, outside, Update, StartDirect, GatewayUp, TakeNews, ListFails
    <3> QED BY <3>1 DEF Edited, Typed
  <2> QED BY <2>1, <2>2
<1>3. SameHolds
  BY <1>1, OnlyIdle
<1> QED BY <1>1, <1>2, <1>3, QuietOnce

LEMMA SendItemOnce ==
  ASSUME Once, Typed, NEW s \in Sessions, NEW i \in Items, SendItem(s, i)
  PROVE  Once'
<1>1. UNCHANGED <<queue, status, answered, faulted>> /\ flight[s] = None
  BY DEF SendItem, file, Keep
<1>2. flight'[s] = Flight("send", "claim", i) /\ \A r \in Sessions : r # s => flight'[r] = flight[r]
  BY DEF SendItem, Typed, FlightsShaped
<1>3. ~Holds(flight[s]) /\ ~Holds(flight'[s])
  BY <1>1, <1>2, FlightShaped DEF Holds
<1>4. SameHolds
  BY <1>2, <1>3, OnlyIdle
<1>5. Edited
  BY <1>1, SameStatus
<1> QED BY <1>1, <1>4, <1>5, QuietOnce

LEMMA EndDirectOnce ==
  ASSUME Once, Typed, NEW d \in Sends, DirectCut(d) \/ \E terminal \in BOOLEAN : EndDirect(d, terminal)
  PROVE  Once'
<1>1. /\ UNCHANGED <<queue, status, answered, faulted>> /\ direct[d].session \in Sessions
      /\ \E terminal \in BOOLEAN : Release(direct[d].session, terminal)
  BY DEF DirectCut, EndDirect, file, outside, Typed
<1>2. SameHolds
  BY <1>1, ReleaseHolds
<1>3. Edited
  BY <1>1, SameStatus
<1> QED BY <1>1, <1>2, <1>3, QuietOnce

\* The streams that are cut fail, with the message they hold.
LEMMA GatewayDownOnce ==
  ASSUME Once, Typed, FlightsTyped, GatewayDown
  PROVE  Once'
<1>1. UNCHANGED <<queue, status, answered, faulted>>
  BY DEF GatewayDown, file
<1>2. PICK cut \in SUBSET {s \in Sessions : flight[s] # None /\ flight[s].pc = "deliver"} :
        flight' = [s \in Sessions |-> IF s \in cut THEN CutOff(flight[s]) ELSE flight[s]]
  BY DEF GatewayDown
<1>3. ASSUME NEW s \in cut
      PROVE  /\ Holds(flight[s]) /\ flight[s].pc = "deliver"
             /\ Holds(flight'[s]) /\ flight'[s].item = flight[s].item
  <2>1. Shaped(flight[s]) /\ flight[s] # None /\ flight[s].pc = "deliver"
    BY DEF Typed, FlightsShaped
  <2>2. flight'[s] = Settling(flight[s], "fail", TRUE)
    BY <1>2 DEF CutOff
  <2>3. flight'[s] = [kind |-> flight[s].kind, pc |-> "fail", item |-> flight[s].item, caught |-> TRUE]
    BY <2>1, <2>2, SettlingOf
  <2>4. [kind |-> flight[s].kind, pc |-> "fail", item |-> flight[s].item, caught |-> TRUE] \in Flights
    BY <2>1 DEF FlightsTyped, Flights
  <2>5. flight'[s] # None
    BY <2>3, <2>4, NoneIsNoFlight
  <2>6. flight'[s].pc = "fail" /\ flight'[s].item = flight[s].item
    BY <2>3
  <2> QED BY <2>1, <2>5, <2>6 DEF Holds
<1>4. \A s \in Sessions : s \notin cut => flight'[s] = flight[s]
  BY <1>2
<1>5. SameHolds
  BY <1>3, <1>4 DEF SameHolds
<1>6. Edited
  BY <1>1, SameStatus
<1> QED BY <1>1, <1>5, <1>6, QuietOnce

LEMMA GatewayAvailableOnce ==
  ASSUME Once, Typed, GatewayAvailable
  PROVE  Once'
<1>1. UNCHANGED <<queue, status, answered, faulted>>
  BY DEF GatewayAvailable, file
<1>2. ASSUME NEW s \in Sessions
      PROVE  flight'[s] = flight[s] \/ (~Holds(flight[s]) /\ ~Holds(flight'[s]))
  <2>1. flight'[s] \in {flight[s], Joined(flight[s], "available")}
    BY DEF GatewayAvailable
  <2>2. CASE flight[s] = None
    BY <2>1, <2>2, JoinedHolds DEF Holds
  <2>3. CASE flight[s] # None
    <3>1. Joined(flight[s], "available") = flight[s]
      BY <2>3, JoinedHolds
    <3> QED BY <2>1, <3>1
  <2> QED BY <2>2, <2>3
<1>3. SameHolds
  BY <1>2, OnlyIdle
<1>4. Edited
  BY <1>1, SameStatus
<1> QED BY <1>1, <1>3, <1>4, QuietOnce

LEMMA RestartOnce ==
  ASSUME Once, Restart
  PROVE  Once'
<1>1. UNCHANGED <<queue, status>> /\ faulted' = TRUE /\ \A r \in Sessions : ~Holds(flight'[r])
  BY DEF Restart, file, Holds
<1> QED BY <1>1, FaultyOnce

LEMMA InitOnce ==
  ASSUME Init
  PROVE  Once /\ FlightsTyped
<1>1. queue \in [Sessions -> Seq(Items)] /\ \A s \in Sessions : queue[s] = <<>> /\ flight[s] = None
  BY DEF Init
<1>2. \A s \in Sessions : Injective(queue[s]) /\ ToSet(queue[s]) = {}
  BY <1>1 DEF Injective, ToSet
<1>3. Placed
  BY <1>1, <1>2 DEF Placed, InQueue, Holds
<1>4. Followed
  BY DEF Init, Followed
<1> QED BY <1>1, <1>3, <1>4 DEF Once, FlightsTyped

LEMMA StepOnce ==
  ASSUME Once, Typed, FlightsTyped, [Next]_vars
  PROVE  Once'
<1>1. ASSUME NEW s \in Sessions, FlightStep(s) \/ StreamEnds(s) \/ WriteFails(s)
      PROVE  Once'
  BY <1>1, AskTurnOnce, ClaimsOnce, SettleOnce, StreamEndsOnce, WriteFailsOnce DEF FlightStep
<1>2. ASSUME NEW s \in Sessions, NEW i \in Items, Add(s, i) \/ RemoveItem(s, i) \/ SendItem(s, i)
      PROVE  Once'
  BY <1>2, AddOnce, RemoveItemOnce, SendItemOnce
<1>3. ASSUME NEW d \in Sends, DirectCut(d) \/ \E terminal \in BOOLEAN : EndDirect(d, terminal)
      PROVE  Once'
  BY <1>3, EndDirectOnce
<1> QED BY <1>1, <1>2, <1>3, QuietStepsOnce, GatewayDownOnce, GatewayAvailableOnce, RestartOnce
        DEF Next, WatchStep

-----------------------------------------------------------------------------
(* A flight is a record of the model's shape. *)

LEMMA FlightTyped ==
  ASSUME NEW kind \in Kinds, NEW pc \in {"head", "claim"}, NEW item \in Items \cup {None}
  PROVE  Flight(kind, pc, item) \in Flights
BY DEF Flight, Flights

LEMMA JoinedTyped ==
  ASSUME NEW f \in Flights \cup {None}, NEW kind \in Kinds
  PROVE  Joined(f, kind) \in Flights
BY FlightTyped DEF Joined

LEMMA SettlingTyped ==
  ASSUME NEW f \in Flights, NEW op \in {"acknowledge", "restore", "fail"}, NEW caught \in BOOLEAN
  PROVE  Settling(f, op, caught) \in Flights
<1>1. Shaped(f)
  BY DEF Shaped, Flights
<1>2. Settling(f, op, caught) = [kind |-> f.kind, pc |-> op, item |-> f.item, caught |-> caught]
  BY <1>1, SettlingOf
<1> QED BY <1>2 DEF Flights

\* A step that changes the flight of one session.
LEMMA OneTyped ==
  ASSUME FlightsTyped, NEW s, NEW f \in Flights \cup {None},
         \A r \in Sessions : flight'[r] = flight[r] \/ (r = s /\ flight'[r] = f)
  PROVE  FlightsTyped'
BY DEF FlightsTyped

LEMMA FlightStepTyped ==
  ASSUME Once, Typed, FlightsTyped, NEW s \in Sessions, FlightStep(s) \/ StreamEnds(s) \/ WriteFails(s)
  PROVE  FlightsTyped'
<1>1. flight[s] \in Flights /\ Shaped(flight[s])
  <2>1. flight[s] # None
    BY DEF FlightStep, AskTurn, ClaimNext, Claim, Settle, StreamEnds, WriteFails
  <2> QED BY <2>1 DEF FlightsTyped, Typed, FlightsShaped
<1>2. CASE EndFlight(s)
  BY <1>2, Ended, OneTyped
<1>3. CASE Goto(s, "claim")
  <2>1. [flight[s] EXCEPT !.pc = "claim"] \in Flights
    BY <1>1 DEF Flights
  <2>2. \A r \in Sessions : flight'[r] = flight[r] \/ (r = s /\ flight'[r] = [flight[s] EXCEPT !.pc = "claim"])
    BY <1>3 DEF Goto, Typed, FlightsShaped
  <2> QED BY <2>1, <2>2, OneTyped
<1>4. ASSUME NEW i \in Items, Take(s, i)
      PROVE  FlightsTyped'
  <2> DEFINE f == [kind |-> flight[s].kind, pc |-> "deliver", item |-> i, caught |-> flight[s].caught]
  <2>1. f \in Flights
    BY <1>1 DEF Flights
  <2>2. flight'[s] = [flight[s] EXCEPT !.pc = "deliver", !.item = i]
    BY <1>4 DEF Take, Typed, FlightsShaped
  <2>3. flight'[s] = f
    BY <1>1, <2>2, TakenOf
  <2>4. \A r \in Sessions : r # s => flight'[r] = flight[r]
    BY <1>4 DEF Take, Typed, FlightsShaped
  <2> HIDE DEF f
  <2> QED BY <2>1, <2>3, <2>4, OneTyped
<1>5. ASSUME NEW op \in {"acknowledge", "restore", "fail"}, NEW caught \in BOOLEAN,
             flight' = [flight EXCEPT ![s] = Settling(@, op, caught)]
      PROVE  FlightsTyped'
  <2>1. Settling(flight[s], op, caught) \in Flights
    BY <1>1, SettlingTyped
  <2>2. \A r \in Sessions : flight'[r] = flight[r] \/ (r = s /\ flight'[r] = Settling(flight[s], op, caught))
    BY <1>5 DEF Typed, FlightsShaped
  <2> QED BY <2>1, <2>2, OneTyped
<1>6. CASE flight' = [flight EXCEPT ![s] = Flight(@.kind, "head", None)]
  <2>1. Flight(flight[s].kind, "head", None) \in Flights
    BY <1>1, FlightTyped DEF Flights
  <2>2. \A r \in Sessions : flight'[r] = flight[r] \/ (r = s /\ flight'[r] = Flight(flight[s].kind, "head", None))
    BY <1>6 DEF Typed, FlightsShaped
  <2> QED BY <2>1, <2>2, OneTyped
<1>7. CASE AskTurn(s)
  BY <1>2, <1>3, <1>7 DEF AskTurn
<1>8. CASE ClaimNext(s) \/ Claim(s)
  <2>1. \A i \in ToSet(queue[s]) : i \in Items
    BY DEF Once, Placed, ToSet
  <2>2. \/ EndFlight(s)
        \/ Sendable(s) # {} /\ Take(s, Oldest(s))
        \/ flight[s].item \in ToSet(queue[s]) /\ Take(s, flight[s].item)
    BY <1>8 DEF ClaimNext, Claim
  <2>3. Sendable(s) # {} => Oldest(s) \in Items
    BY <2>1, OldestIsSendable DEF Once, Sendable
  <2> QED BY <1>2, <1>4, <2>1, <2>2, <2>3
<1>9. CASE Settle(s)
  BY <1>2, <1>6, <1>9 DEF Settle, Delivered
<1>10. CASE StreamEnds(s)
  BY <1>5, <1>10 DEF StreamEnds, CutOff
<1>11. CASE WriteFails(s)
  BY <1>2, <1>5, <1>11 DEF WriteFails, Reject
<1> QED BY <1>7, <1>8, <1>9, <1>10, <1>11 DEF FlightStep

LEMMA ReleaseTyped ==
  ASSUME Typed, FlightsTyped, NEW s \in Sessions, NEW terminal \in BOOLEAN, Release(s, terminal)
  PROVE  FlightsTyped'
<1>1. \A r \in Sessions : r # s => flight'[r] = flight[r]
  BY DEF Release, Typed, FlightsShaped
<1>2. flight'[s] \in {flight[s], Joined(flight[s], "release"), Joined(flight[s], "idle")}
  BY DEF Release, Typed, FlightsShaped
<1>3. Joined(flight[s], "release") \in Flights /\ Joined(flight[s], "idle") \in Flights
  BY JoinedTyped DEF FlightsTyped, Kinds
<1> QED BY <1>1, <1>2, <1>3 DEF FlightsTyped

LEMMA StepTyped ==
  ASSUME Once, Typed, FlightsTyped, [Next]_vars
  PROVE  FlightsTyped'
<1>1. ASSUME NEW s \in Sessions, FlightStep(s) \/ StreamEnds(s) \/ WriteFails(s)
      PROVE  FlightsTyped'
  BY <1>1, FlightStepTyped
<1>2. CASE UNCHANGED flight
  BY <1>2 DEF FlightsTyped
<1>3. ASSUME NEW s \in Sessions, NEW i \in Items, SendItem(s, i)
      PROVE  FlightsTyped'
  <2>1. Flight("send", "claim", i) \in Flights
    BY FlightTyped DEF Kinds
  <2>2. \A r \in Sessions : flight'[r] = flight[r] \/ (r = s /\ flight'[r] = Flight("send", "claim", i))
    BY <1>3 DEF SendItem, Typed, FlightsShaped
  <2> QED BY <2>1, <2>2, OneTyped
<1>4. ASSUME NEW d \in Sends, DirectCut(d) \/ \E terminal \in BOOLEAN : EndDirect(d, terminal)
      PROVE  FlightsTyped'
  <2>1. direct[d].session \in Sessions /\ \E terminal \in BOOLEAN : Release(direct[d].session, terminal)
    BY <1>4 DEF DirectCut, EndDirect, Typed
  <2> QED BY <2>1, ReleaseTyped
<1>5. CASE GatewayDown
  <2>1. ASSUME NEW s \in Sessions PROVE flight'[s] = flight[s] \/ (flight[s] # None /\ flight'[s] = CutOff(flight[s]))
    BY <1>5 DEF GatewayDown
  <2>2. \A s \in Sessions : flight[s] # None => CutOff(flight[s]) \in Flights
    BY SettlingTyped DEF FlightsTyped, CutOff
  <2> QED BY <2>1, <2>2 DEF FlightsTyped
<1>6. CASE GatewayAvailable
  <2>1. \A s \in Sessions : flight'[s] \in {flight[s], Joined(flight[s], "available")}
    BY <1>6 DEF GatewayAvailable
  <2>2. \A s \in Sessions : Joined(flight[s], "available") \in Flights
    BY JoinedTyped DEF FlightsTyped, Kinds
  <2> QED BY <2>1, <2>2 DEF FlightsTyped
<1>7. CASE Restart
  BY <1>7 DEF Restart, FlightsTyped
<1>8. \/ \E s \in Sessions : FlightStep(s) \/ StreamEnds(s) \/ WriteFails(s)
      \/ UNCHANGED flight
      \/ \E s \in Sessions, i \in Items : SendItem(s, i)
      \/ \E d \in Sends : DirectCut(d) \/ \E terminal \in BOOLEAN : EndDirect(d, terminal)
      \/ GatewayDown \/ GatewayAvailable \/ Restart
  BY DEF Next, WatchStep, vars, Add, RemoveItem, Update, StartDirect, GatewayUp, TakeNews, ListFails
<1> QED BY <1>1, <1>2, <1>3, <1>4, <1>5, <1>6, <1>7, <1>8

\* The invariant with the places of the messages holds in every state of every execution.
THEOREM OnceAlways == Spec => [](Sound /\ Once /\ FlightsTyped)
<1>1. Init => Sound /\ Once /\ FlightsTyped
  BY InitSound, InitOnce
<1>2. Sound /\ Once /\ FlightsTyped /\ [Next]_vars => (Sound /\ Once /\ FlightsTyped)'
  BY StepSound, StepOnce, StepTyped DEF Sound
<1> QED BY <1>1, <1>2, PTL DEF Spec

\* However many sessions, messages and direct sends there are: as long as no write has failed and
\* the desktop has not been restarted, a message that was answered has left the queue or is being
\* taken out of it, and one marked as being sent has a flight that sends it.
THEOREM SentOnceAlways == Spec => []SentOnce
<1>1. Placed /\ Followed => SentOnce
  <2> SUFFICES ASSUME Placed, Followed, ~faulted, NEW i \in Items
               PROVE  /\ i \in answered => \/ status[i] = "gone"
                                           \/ \E s \in Sessions : /\ flight[s] # None /\ flight[s].item = i
                                                                 /\ flight[s].pc = "acknowledge"
                      /\ status[i] = "sending" =>
                           \E s \in Sessions : flight[s] # None /\ flight[s].item = i /\ InQueue(s, i)
    BY DEF SentOnce
  <2>1. Sending(i) => \E s \in Sessions : flight[s] # None /\ flight[s].item = i /\ InQueue(s, i)
    BY DEF Sending, Placed, Holds
  <2>2. Acknowledging(i) => \E s \in Sessions : /\ flight[s] # None /\ flight[s].item = i
                                               /\ flight[s].pc = "acknowledge"
    BY DEF Acknowledging, Holds
  <2> QED BY <2>1, <2>2 DEF Followed
<1>2. Once => SentOnce
  BY <1>1 DEF Once, SentOnce
<1> QED BY <1>2, OnceAlways, PTL
=============================================================================
