--------------------------- MODULE DeviceAccessProofs ---------------------------
(* For any requests, keys, limits and times: a mapping's limits hold, what is withdrawn stops
   working within the timeout of a request, and no token comes into force whose secret is
   nowhere.  The first two rest on the deadline that a request carries from its arrival: it
   was authorised after that, by a token in force then, and its admission, counted from
   later still, outlasts it. *)
EXTENDS DeviceAccess, FiniteSetTheorems, TLAPS

PCs == Running \cup {"idle", "ended", "done"}
Records == [pc : PCs, token : Tokens, arrived : Int, admitted : Int]
RowStates == {"none", "open", "completed"}

Authorized == {"authorized", "admitted", "upstream"}
Working == {"admitted", "upstream"}

(* What a request, its row and the history of its token keep to. *)
Sound(q) ==
  /\ request[q].pc \in Running =>
       request[q].arrived <= time /\ time <= request[q].arrived + Timeout
  /\ request[q].pc \in Authorized => request[q].arrived <= usable[request[q].token]
  /\ request[q].pc \in Working => row[q] = "open" /\ request[q].arrived <= request[q].admitted
  /\ request[q].pc \in {"idle", "arrived", "authorized"} =>
       row[q] = "none" /\ request[q].admitted = Never
  /\ row[q] = "none" /\ Lease >= Window => request[q].admitted <= time - Window

RequestsAreSound == \A q \in Requests : Sound(q)
UsableIsPast == \A t \in Tokens : usable[t] <= time /\ (InForce(t) => usable[t] = time)

(* The admissions that count against the concurrent requests of a token. *)
Held(t) == {q \in Requests : row[q] = "open" /\ request[q].token = t /\ LeaseEnds(q) > time}

Bounded ==
  \A t \in Tokens :
    /\ Cardinality(Held(t)) <= Concurrent
    /\ Lease >= Window => Cardinality(LastMinute(t)) <= Rpm

ProxyInv == TypeOK /\ UsableIsPast /\ RequestsAreSound /\ Bounded

-----------------------------------------------------------------------------
LEMMA Constants ==
  /\ Rpm \in Nat /\ Concurrent \in Nat /\ Window \in Nat /\ Timeout \in Nat /\ Lease \in Nat
  /\ Rpm > 0 /\ Concurrent > 0 /\ Window > 0 /\ Timeout > 0 /\ Lease > Timeout
  /\ Lease <= 2 * Window /\ MaxTokens \in Nat /\ 1 \in Tokens /\ Tokens \subseteq Nat
  /\ None \notin Tokens /\ Never \in Int
BY AccessAssumption DEF Tokens, Never

(* Sets of requests are finite, and a smaller one has no more members. *)
LEMMA Fewer ==
  ASSUME NEW A \in SUBSET Requests, NEW B \in SUBSET Requests, A \subseteq B
  PROVE  /\ Cardinality(A) \in Nat /\ Cardinality(B) \in Nat
         /\ Cardinality(A) <= Cardinality(B)
<1>1. IsFiniteSet(A) /\ IsFiniteSet(B)
  BY AccessAssumption, FS_Subset
<1>2. Cardinality(A) <= Cardinality(B)
  BY <1>1, FS_Subset
<1> QED BY <1>1, <1>2, FS_CardinalityType

LEMMA OneMore ==
  ASSUME NEW A \in SUBSET Requests, NEW B \in SUBSET Requests, NEW r \in Requests,
         A \subseteq B \cup {r}, NEW n \in Nat, ~(Cardinality(B) >= n)
  PROVE  Cardinality(A) <= n
<1>1. IsFiniteSet(B) /\ Cardinality(B) \in Nat
  BY AccessAssumption, FS_Subset, FS_CardinalityType
<1>2. Cardinality(B \cup {r}) <= Cardinality(B) + 1 /\ Cardinality(B \cup {r}) \in Nat
  BY <1>1, FS_AddElement
<1>3. Cardinality(A) \in Nat /\ Cardinality(A) <= Cardinality(B \cup {r})
  BY Fewer
<1> QED BY <1>1, <1>2, <1>3

(* Where no more admissions count, the bounds stay. *)
LEMMA BoundsStay ==
  ASSUME Bounded, \A t \in Tokens : Held(t)' \subseteq Held(t)
                                    /\ (Lease >= Window => LastMinute(t)' \subseteq LastMinute(t))
  PROVE  Bounded'
<1> SUFFICES ASSUME NEW t \in Tokens
             PROVE  /\ Cardinality(Held(t)') <= Concurrent
                    /\ Lease >= Window => Cardinality(LastMinute(t)') <= Rpm
  BY DEF Bounded
<1>1. Held(t)' \in SUBSET Requests /\ Held(t) \in SUBSET Requests
  BY DEF Held
<1>2. LastMinute(t)' \in SUBSET Requests /\ LastMinute(t) \in SUBSET Requests
  BY DEF LastMinute
<1>3. Cardinality(Held(t)') <= Concurrent
  BY <1>1, Fewer, Constants DEF Bounded
<1>4. ASSUME Lease >= Window PROVE Cardinality(LastMinute(t)') <= Rpm
  BY <1>2, <1>4, Fewer, Constants DEF Bounded
<1> QED BY <1>3, <1>4

-----------------------------------------------------------------------------
LEMMA Initially == Init => ProxyInv
<1> SUFFICES ASSUME Init PROVE ProxyInv
  OBVIOUS
<1>1. TypeOK
  <2>1. [pc |-> "idle", token |-> 1, arrived |-> 0, admitted |-> Never] \in Records
    BY Constants DEF Records, PCs
  <2>2. NoCommand \in [pc : {"idle", "staged", "open", "committing", "unsure"}, token : Tokens]
    BY Constants DEF NoCommand
  <2>3. request \in [Requests -> Records]
    BY <2>1 DEF Init
  <2> QED BY <2>2, <2>3, Constants DEF Init, TypeOK, Records, PCs
<1>2. UsableIsPast
  BY Constants DEF Init, UsableIsPast, InForce, Never
<1>3. RequestsAreSound
  <2> SUFFICES ASSUME NEW q \in Requests PROVE Sound(q)
    BY DEF RequestsAreSound
  <2>1. request[q] = [pc |-> "idle", token |-> 1, arrived |-> 0, admitted |-> Never]
    BY DEF Init
  <2> QED BY <2>1, Constants DEF Init, Sound, Running, Authorized, Working, Never
<1>4. Bounded
  <2> SUFFICES ASSUME NEW t \in Tokens
               PROVE  Cardinality(Held(t)) <= Concurrent /\ Cardinality(LastMinute(t)) <= Rpm
    BY DEF Bounded
  <2>1. Held(t) = {}
    BY DEF Held, Init
  <2>2. LastMinute(t) = {}
    BY Constants DEF LastMinute, Init, Never
  <2> QED BY <2>1, <2>2, FS_EmptySet, Constants
<1> QED BY <1>1, <1>2, <1>3, <1>4 DEF ProxyInv

-----------------------------------------------------------------------------
(* The steps of the world, which leave requests and their rows alone. *)
LEMMA WorldKeepsProxyInv ==
  ASSUME ProxyInv, TypeOK', UNCHANGED proxyVars, Remember, time' >= time,
         \A q \in Requests : request[q].pc \in Running => time' <= request[q].arrived + Timeout
  PROVE  ProxyInv'
<1>1. request' = request /\ row' = row
  BY DEF proxyVars
<1>2. time \in Int /\ time' \in Int /\ usable \in [Tokens -> Int] /\ request \in [Requests -> Records]
  BY DEF ProxyInv, TypeOK, Records, PCs
<1>3. \A t \in Tokens : /\ usable'[t] \in Int /\ usable'[t] <= time' /\ usable[t] <= usable'[t]
                        /\ InForce(t)' => usable'[t] = time'
  BY <1>2 DEF Remember, ProxyInv, UsableIsPast
<1>4. UsableIsPast'
  BY <1>3 DEF UsableIsPast
<1>5. RequestsAreSound'
  <2> SUFFICES ASSUME NEW q \in Requests PROVE Sound(q)'
    BY DEF RequestsAreSound
  <2>1. Sound(q) /\ request[q] \in Records
    BY <1>2 DEF ProxyInv, RequestsAreSound
  <2>2. request[q].token \in Tokens /\ request[q].arrived \in Int /\ request[q].admitted \in Int
    BY <2>1 DEF Records
  <2>3. usable[request[q].token] \in Int /\ usable'[request[q].token] \in Int
        /\ usable[request[q].token] <= usable'[request[q].token]
    BY <1>2, <1>3, <2>2
  <2>4. (request[q].pc \in Running =>
          request[q].arrived <= time /\ time <= request[q].arrived + Timeout)'
    BY <1>1, <1>2, <2>1, <2>2 DEF Sound
  <2>5. (request[q].pc \in Authorized => request[q].arrived <= usable[request[q].token])'
    BY <1>1, <2>1, <2>2, <2>3 DEF Sound
  <2>6. (row[q] = "none" /\ Lease >= Window => request[q].admitted <= time - Window)'
    BY <1>1, <1>2, <2>1, <2>2, Constants DEF Sound
  <2>7. /\ (request[q].pc \in Working => row[q] = "open" /\ request[q].arrived <= request[q].admitted)'
        /\ (request[q].pc \in {"idle", "arrived", "authorized"} =>
               row[q] = "none" /\ request[q].admitted = Never)'
    BY <1>1, <2>1 DEF Sound
  <2> QED BY <2>4, <2>5, <2>6, <2>7 DEF Sound
<1>6. Bounded'
  <2>1. ASSUME NEW t \in Tokens
        PROVE  Held(t)' \subseteq Held(t) /\ LastMinute(t)' \subseteq LastMinute(t)
    <3>1. \A q \in Requests : request[q].admitted \in Int
      BY <1>2 DEF Records
    <3> QED BY <1>1, <1>2, <3>1, Constants DEF Held, LastMinute, LeaseEnds
  <2> QED BY <2>1, BoundsStay DEF ProxyInv
<1> QED BY <1>4, <1>5, <1>6 DEF ProxyInv

-----------------------------------------------------------------------------
(* A request that goes from one state to another. *)
LEMMA MovesFacts ==
  ASSUME ProxyInv, NEW r \in Requests, NEW pc \in PCs, Moves(r, pc)
  PROVE  /\ request \in [Requests -> Records] /\ request' \in [Requests -> Records]
         /\ \A q \in Requests : q # r => request'[q] = request[q]
         /\ request'[r].pc = pc /\ request'[r].token = request[r].token
         /\ request'[r].arrived = request[r].arrived /\ request'[r].admitted = request[r].admitted
<1>1. request \in [Requests -> Records]
  BY DEF ProxyInv, TypeOK, Records, PCs
<1>2. request' = [request EXCEPT ![r].pc = pc]
  BY DEF Moves
<1> QED BY <1>1, <1>2 DEF Records

(* Whatever one request does short of its admission: none counts that did not before, and the
   others are as sound as they were. *)
LEMMA OneStepKeepsProxyInv ==
  ASSUME ProxyInv, TypeOK', UNCHANGED <<worldVars, tokenVars>>, NEW r \in Requests,
         request' \in [Requests -> Records],
         \A q \in Requests : q # r => request'[q] = request[q] /\ row'[q] = row[q],
         request'[r].admitted = request[r].admitted,
         request'[r].token = request[r].token \/ (row'[r] = "none" /\ request[r].admitted = Never),
         row'[r] = "open" => row[r] = "open",
         Sound(r)'
  PROVE  ProxyInv'
<1>1. time' = time /\ usable' = usable /\ time \in Nat
  BY DEF worldVars, ProxyInv, TypeOK
<1>2. UsableIsPast'
  BY <1>1 DEF UsableIsPast, InForce, worldVars, tokenVars, ProxyInv
<1>3. RequestsAreSound'
  <2> SUFFICES ASSUME NEW q \in Requests, q # r PROVE Sound(q)'
    BY DEF RequestsAreSound
  <2>1. request'[q] = request[q] /\ row'[q] = row[q] /\ Sound(q)
    BY DEF ProxyInv, RequestsAreSound
  <2> QED BY <1>1, <2>1 DEF Sound
<1>4. Bounded'
  <2>1. ASSUME NEW t \in Tokens
        PROVE  Held(t)' \subseteq Held(t) /\ LastMinute(t)' \subseteq LastMinute(t)
    <3>1. Held(t)' \subseteq Held(t)
      BY <1>1 DEF Held, LeaseEnds
    <3>2. LastMinute(t)' \subseteq LastMinute(t)
      BY <1>1, Constants DEF LastMinute, Never
    <3> QED BY <3>1, <3>2
  <2> QED BY <2>1, BoundsStay DEF ProxyInv
<1> QED BY <1>2, <1>3, <1>4 DEF ProxyInv

LEMMA ArriveKeepsProxyInv ==
  ASSUME ProxyInv, TypeOK', NEW r \in Requests, NEW t \in Tokens, Arrive(r, t)
  PROVE  ProxyInv'
<1>1. request \in [Requests -> Records] /\ time \in Nat
  BY DEF ProxyInv, TypeOK, Records, PCs
<1>2. "arrived" \in PCs
  BY DEF PCs, Running
<1>3. UNCHANGED <<worldVars, tokenVars>> /\ row' = row /\ request[r].pc = "idle"
      /\ request' = [request EXCEPT ![r] = [pc |-> "arrived", token |-> t, arrived |-> time, admitted |-> Never]]
  BY DEF Arrive
<1>4. row[r] = "none" /\ request[r].admitted = Never /\ Sound(r)
  BY <1>3 DEF ProxyInv, RequestsAreSound, Sound
<1>5. /\ request' \in [Requests -> Records]
      /\ \A q \in Requests : q # r => request'[q] = request[q] /\ row'[q] = row[q]
      /\ request'[r].pc = "arrived" /\ request'[r].arrived = time
      /\ request'[r].admitted = request[r].admitted
  BY <1>1, <1>2, <1>3, <1>4, Constants DEF Records
<1>6. Sound(r)'
  BY <1>1, <1>3, <1>5, <1>4, Constants DEF Sound, worldVars, Running, Authorized, Working
<1> QED BY <1>3, <1>5, <1>4, <1>6, OneStepKeepsProxyInv

(* The moves that leave the rows: to "authorized" only by a token in force. *)
LEMMA MoveKeepsProxyInv ==
  ASSUME ProxyInv, TypeOK', UNCHANGED <<worldVars, tokenVars>>, NEW r \in Requests, NEW pc \in PCs, Moves(r, pc),
         row' = row,
         \/ pc \in {"ended", "done"}
         \/ pc = "upstream" /\ request[r].pc = "admitted"
         \/ /\ pc = "authorized" /\ request[r].pc = "arrived"
            /\ request[r].arrived <= usable[request[r].token]
  PROVE  ProxyInv'
<1>1. /\ request' \in [Requests -> Records] /\ request[r] \in Records
      /\ \A q \in Requests : q # r => request'[q] = request[q]
      /\ request'[r].pc = pc /\ request'[r].token = request[r].token
      /\ request'[r].arrived = request[r].arrived /\ request'[r].admitted = request[r].admitted
  BY MovesFacts
<1>2. Sound(r) /\ time' = time /\ usable' = usable
  BY DEF ProxyInv, RequestsAreSound, worldVars
<1>3. Sound(r)'
  <2>1. CASE pc \in {"ended", "done"}
    <3>1. pc \notin Running /\ pc \notin Authorized /\ pc \notin Working
          /\ pc \notin {"idle", "arrived", "authorized"}
      BY <2>1 DEF Running, Authorized, Working
    <3> QED BY <1>1, <1>2, <3>1 DEF Sound
  <2>2. CASE pc = "upstream" /\ request[r].pc = "admitted"
    <3>1. pc \notin {"idle", "arrived", "authorized"} /\ request[r].pc \in Running \cap Authorized \cap Working
      BY <2>2 DEF Running, Authorized, Working
    <3> QED BY <1>1, <1>2, <3>1 DEF Sound
  <2>3. CASE pc = "authorized" /\ request[r].pc = "arrived" /\ request[r].arrived <= usable[request[r].token]
    <3>1. pc \notin Working /\ request[r].pc \in Running
      BY <2>3 DEF Running, Working
    <3> QED BY <1>1, <1>2, <2>3, <3>1 DEF Sound
  <2> QED BY <2>1, <2>2, <2>3
<1> QED BY <1>1, <1>3, OneStepKeepsProxyInv

LEMMA FinalizeKeepsProxyInv ==
  ASSUME ProxyInv, TypeOK', NEW r \in Requests, Finalize(r)
  PROVE  ProxyInv'
<1>1. "done" \in PCs /\ Moves(r, "done") /\ UNCHANGED <<worldVars, tokenVars>>
  BY DEF PCs, Finalize
<1>2. CASE row' = row
  BY <1>1, <1>2, MoveKeepsProxyInv
<1>3. CASE row[r] = "open" /\ row' = [row EXCEPT ![r] = "completed"]
  <2>1. row \in [Requests -> RowStates]
    BY DEF ProxyInv, TypeOK, RowStates
  <2>2. row'[r] = "completed" /\ \A q \in Requests : q # r => row'[q] = row[q]
    BY <1>3, <2>1
  <2>3. Sound(r)'
    BY <1>1, <2>2, MovesFacts DEF Sound, Running, Authorized, Working
  <2> QED BY <1>1, <2>2, <2>3, MovesFacts, OneStepKeepsProxyInv
<1> QED BY <1>2, <1>3 DEF Finalize

-----------------------------------------------------------------------------
(* An admission is deleted only when its request no longer works, or at least a minute old. *)
LEMMA StaleIsOver ==
  ASSUME ProxyInv, NEW t \in Tokens, NEW q \in Stale(t)
  PROVE  /\ q \in Requests /\ row[q] # "none" /\ request[q].pc \notin Working
         /\ Lease >= Window => request[q].admitted <= time - Window
<1>1. q \in Requests /\ row[q] # "none" /\ Sound(q) /\ request[q] \in Records /\ time \in Nat
  BY DEF Stale, Rows, ProxyInv, RequestsAreSound, TypeOK, Records, PCs
<1>2. request[q].arrived \in Int /\ request[q].admitted \in Int
  BY <1>1 DEF Records
<1>3. request[q].admitted + Lease <= time \/ request[q].admitted < time - 10 * Window
  BY DEF Stale, LeaseEnds
<1>4. ASSUME request[q].pc \in Working PROVE FALSE
  <2>1. request[q].arrived <= request[q].admitted /\ time <= request[q].arrived + Timeout
    BY <1>1, <1>4 DEF Sound, Working, Running
  <2> QED BY <1>1, <1>2, <1>3, <2>1, Constants
<1> QED BY <1>1, <1>2, <1>3, <1>4, Constants

LEMMA AdmitKeepsProxyInv ==
  ASSUME ProxyInv, TypeOK', NEW r \in Requests, Admit(r)
  PROVE  ProxyInv'
<1> DEFINE t == request[r].token
<1>1. UNCHANGED <<worldVars, tokenVars>> /\ request[r].pc = "authorized" /\ time' = time /\ usable' = usable
  BY DEF Admit, worldVars
<1>2. request \in [Requests -> Records] /\ row \in [Requests -> RowStates] /\ time \in Nat
      /\ usable \in [Tokens -> Int]
  BY DEF ProxyInv, TypeOK, Records, PCs, RowStates
<1>3. /\ request[r] \in Records /\ t \in Tokens /\ request[r].arrived \in Int
      /\ \A q \in Requests : request[q].admitted \in Int
  BY <1>2 DEF Records
<1>4. CASE Moves(r, "done") /\ UNCHANGED row
  <2>1. "done" \in PCs
    BY DEF PCs
  <2> QED BY <1>1, <1>4, <2>1, MoveKeepsProxyInv
<1>5. ASSUME ~(Cardinality(Recent(t)) >= Rpm), ~(Cardinality(Holding(t)) >= Concurrent),
             NEW pc \in {"admitted", "done"},
             request' = [request EXCEPT ![r].pc = pc, ![r].admitted = time],
             row' = [q \in Requests |-> IF q = r THEN "open"
                                        ELSE IF q \in Stale(t) THEN "none" ELSE row[q]]
      PROVE  ProxyInv'
  <2>1. /\ \A q \in Requests : q # r => request'[q] = request[q]
        /\ request'[r].pc = pc /\ request'[r].token = t
        /\ request'[r].arrived = request[r].arrived /\ request'[r].admitted = time
    BY <1>2, <1>3, <1>5 DEF Records
  <2>2. row'[r] = "open" /\ \A q \in Requests : q # r =>
          row'[q] = IF q \in Stale(t) THEN "none" ELSE row[q]
    BY <1>5
  <2>3. UsableIsPast'
    BY <1>1 DEF UsableIsPast, InForce, worldVars, tokenVars, ProxyInv
  <2>4. Sound(r)'
    <3>1. Sound(r) /\ usable[t] <= time /\ usable[t] \in Int
      BY <1>2, <1>3 DEF ProxyInv, RequestsAreSound, UsableIsPast
    <3>2. request[r].arrived <= usable[t] /\ time <= request[r].arrived + Timeout
      BY <1>1, <3>1 DEF Sound, Authorized, Running
    <3> QED BY <1>1, <1>2, <1>3, <2>1, <2>2, <3>1, <3>2 DEF Sound
  <2>5. ASSUME NEW q \in Requests, q # r PROVE Sound(q)'
    <3>1. Sound(q) /\ request'[q] = request[q]
      BY <2>1, <2>5 DEF ProxyInv, RequestsAreSound
    <3>2. CASE q \in Stale(t)
      <4>1. /\ row'[q] = "none" /\ row[q] # "none" /\ request[q].pc \notin Working
            /\ Lease >= Window => request[q].admitted <= time - Window
        BY <1>3, <2>2, <2>5, <3>2, StaleIsOver
      <4> QED BY <1>1, <3>1, <4>1 DEF Sound
    <3>3. CASE q \notin Stale(t)
      BY <1>1, <2>2, <2>5, <3>1, <3>3 DEF Sound
    <3> QED BY <3>2, <3>3
  <2>6. RequestsAreSound'
    BY <2>4, <2>5 DEF RequestsAreSound
  <2>7. ASSUME NEW u \in Tokens
        PROVE  /\ Cardinality(Held(u)') <= Concurrent
               /\ Lease >= Window => Cardinality(LastMinute(u)') <= Rpm
    <3>1. Held(u)' \in SUBSET Requests /\ LastMinute(u)' \in SUBSET Requests
          /\ Held(u) \in SUBSET Requests /\ LastMinute(u) \in SUBSET Requests
          /\ Holding(t) \in SUBSET Requests /\ Recent(t) \in SUBSET Requests
      BY DEF Held, LastMinute, Holding, Recent, Rows
    <3>2. CASE u # t
      <4>1. Held(u)' \subseteq Held(u)
        BY <1>1, <2>1, <2>2, <3>2 DEF Held, LeaseEnds
      <4>2. LastMinute(u)' \subseteq LastMinute(u)
        BY <1>1, <2>1, <3>2 DEF LastMinute
      <4>3. /\ Cardinality(Held(u)) <= Concurrent
            /\ Lease >= Window => Cardinality(LastMinute(u)) <= Rpm
        BY DEF ProxyInv, Bounded
      <4>4. Cardinality(Held(u)') \in Nat /\ Cardinality(Held(u)) \in Nat
            /\ Cardinality(Held(u)') <= Cardinality(Held(u))
        BY <3>1, <4>1, Fewer
      <4>5. Cardinality(LastMinute(u)') \in Nat /\ Cardinality(LastMinute(u)) \in Nat
            /\ Cardinality(LastMinute(u)') <= Cardinality(LastMinute(u))
        BY <3>1, <4>2, Fewer
      <4> QED BY <4>3, <4>4, <4>5, Constants
    <3>3. CASE u = t
      <4>1. Held(u)' \subseteq Holding(t) \cup {r}
        <5> SUFFICES ASSUME NEW q \in Requests, q # r, row'[q] = "open", request'[q].token = t,
                            request'[q].admitted + Lease > time
                     PROVE  q \in Holding(t)
          BY <1>1, <3>3 DEF Held, LeaseEnds
        <5>1. q \notin Stale(t) /\ row[q] = "open" /\ request'[q] = request[q]
          BY <2>1, <2>2
        <5> QED BY <5>1 DEF Holding, Rows, LeaseEnds
      <4>2. ASSUME Lease >= Window PROVE LastMinute(u)' \subseteq Recent(t) \cup {r}
        <5> SUFFICES ASSUME NEW q \in Requests, q # r, request'[q].admitted > time - Window,
                            request'[q].token = t
                     PROVE  q \in Recent(t)
          BY <1>1, <3>3 DEF LastMinute
        <5>1. request'[q] = request[q] /\ Sound(q) /\ request[q].admitted \in Int
          BY <1>3, <2>1 DEF ProxyInv, RequestsAreSound
        <5>2. row[q] # "none"
          BY <1>2, <4>2, <5>1, Constants DEF Sound
        <5>3. q \notin Stale(t)
          <6> SUFFICES ASSUME q \in Stale(t) PROVE FALSE
            OBVIOUS
          <6>1. request[q].admitted <= time - Window
            BY <1>3, <4>2, StaleIsOver
          <6> QED BY <1>2, <5>1, <6>1, Constants
        <5> QED BY <5>1, <5>2, <5>3 DEF Recent, Rows
      <4>3. Concurrent \in Nat /\ Rpm \in Nat
        BY Constants
      <4>4. Cardinality(Held(u)') <= Concurrent
        BY <1>5, <3>1, <4>1, <4>3, OneMore
      <4>5. ASSUME Lease >= Window PROVE Cardinality(LastMinute(u)') <= Rpm
        BY <1>5, <3>1, <4>2, <4>3, <4>5, OneMore
      <4> QED BY <4>4, <4>5
    <3> QED BY <3>2, <3>3
  <2>8. Bounded'
    BY <2>7 DEF Bounded
  <2> QED BY <2>3, <2>6, <2>8 DEF ProxyInv
<1>6. CASE Cardinality(Recent(t)) >= Rpm \/ Cardinality(Holding(t)) >= Concurrent
  BY <1>4, <1>6 DEF Admit
<1>7. CASE ~(Cardinality(Recent(t)) >= Rpm \/ Cardinality(Holding(t)) >= Concurrent)
  <2>1. PICK pc \in {"admitted", "done"} :
          request' = [request EXCEPT ![r].pc = pc, ![r].admitted = time]
    BY <1>7 DEF Admit
  <2>2. row' = [q \in Requests |-> IF q = r THEN "open"
                                    ELSE IF q \in Stale(t) THEN "none" ELSE row[q]]
    BY <1>7 DEF Admit
  <2> QED BY <1>5, <1>7, <2>1, <2>2
<1> QED BY <1>6, <1>7

-----------------------------------------------------------------------------
(* Types. *)
CommandRecords == [pc : {"idle", "staged", "open", "committing", "unsure"}, token : Tokens]
Transactions == [key : Keys, token : Tokens, sent : BOOLEAN]

WorldType ==
  /\ time \in Nat /\ licence \in {"active", "disabled", "ended"}
  /\ token \in [Tokens -> {"none", "active", "disabled", "revoked"}] /\ newest \in Tokens
  /\ usable \in [Tokens -> Int]
ProxyType == request \in [Requests -> Records] /\ row \in [Requests -> RowStates]
CommandType ==
  /\ drawn \in Tokens /\ op \in [Keys -> CommandRecords] /\ tx \in Transactions \cup {None}
  /\ done \in [Keys -> Tokens \cup {None}] /\ file \in [Keys -> Tokens \cup {None}]
  /\ delivered \subseteq Tokens

LEMMA TypeParts == TypeOK <=> WorldType /\ ProxyType /\ CommandType
BY DEF TypeOK, WorldType, ProxyType, CommandType, Records, PCs, RowStates, CommandRecords, Transactions

LEMMA TypePartsPrimed == TypeOK' <=> (WorldType /\ ProxyType /\ CommandType)'
BY TypeParts, PTL

ProxyStep(r) ==
  \/ \E t \in Tokens : Arrive(r, t)
  \/ Authorize(r) \/ Admit(r) \/ CallUpstream(r) \/ Ends(r) \/ Finalize(r) \/ Killed(r)

CommandStep(k) ==
  \/ Prepare(k) \/ Begin(k) \/ SendCommit(k) \/ Succeeds(k)
  \/ CommitFails(k) \/ Resolve(k) \/ Dies(k) \/ Recover(k)

LEMMA ProxyKeepsTypes ==
  ASSUME TypeOK, NEW r \in Requests, ProxyStep(r)
  PROVE  TypeOK'
<1>1. request \in [Requests -> Records] /\ row \in [Requests -> RowStates] /\ time \in Nat
  BY TypeParts DEF ProxyType, WorldType
<1>2. UNCHANGED <<worldVars, tokenVars, commandVars>>
  BY DEF ProxyStep, Arrive, Authorize, Admit, CallUpstream, Ends, Finalize, Killed
<1>3. WorldType' /\ CommandType'
  BY <1>2, TypeParts DEF worldVars, tokenVars, commandVars, WorldType, CommandType
<1>4. ASSUME NEW pc \in PCs, Moves(r, pc) PROVE request' \in [Requests -> Records]
  BY <1>1, <1>4 DEF Moves, Records
<1>5. {"authorized", "done", "upstream", "ended", "admitted", "arrived"} \subseteq PCs
  BY DEF PCs, Running
<1>6. request' \in [Requests -> Records]
  <2>1. ASSUME NEW t \in Tokens, Arrive(r, t) PROVE request' \in [Requests -> Records]
    <3>1. [pc |-> "arrived", token |-> t, arrived |-> time, admitted |-> Never] \in Records
      BY <1>1, <1>5, Constants DEF Records
    <3> QED BY <1>1, <2>1, <3>1 DEF Arrive
  <2>2. CASE Admit(r)
    <3>1. CASE Moves(r, "done")
      BY <1>4, <1>5, <3>1
    <3>2. ASSUME NEW pc \in {"admitted", "done"},
                 request' = [request EXCEPT ![r].pc = pc, ![r].admitted = time]
          PROVE  request' \in [Requests -> Records]
      <4>1. [request[r] EXCEPT !.pc = pc, !.admitted = time] \in Records
        <5>1. request[r] \in Records /\ pc \in PCs /\ time \in Int
          BY <1>1, <1>5
        <5> QED BY <5>1 DEF Records
      <4>2. request' = [request EXCEPT ![r] = [request[r] EXCEPT !.pc = pc, !.admitted = time]]
        BY <1>1, <3>2
      <4> QED BY <1>1, <4>1, <4>2
    <3> QED BY <2>2, <3>1, <3>2 DEF Admit
  <2>3. CASE Authorize(r) \/ CallUpstream(r) \/ Ends(r) \/ Finalize(r) \/ Killed(r)
    BY <1>4, <1>5, <2>3 DEF Authorize, CallUpstream, Ends, Finalize, Killed
  <2> QED BY <2>1, <2>2, <2>3 DEF ProxyStep
<1>7. row' \in [Requests -> RowStates]
  <2>1. CASE UNCHANGED row
    BY <1>1, <2>1
  <2>2. CASE row' = [row EXCEPT ![r] = "completed"]
    BY <1>1, <2>2 DEF RowStates
  <2>3. CASE row' = [q \in Requests |-> IF q = r THEN "open"
                                        ELSE IF q \in Stale(request[r].token) THEN "none" ELSE row[q]]
    BY <1>1, <2>3 DEF RowStates
  <2> QED BY <2>1, <2>2, <2>3 DEF ProxyStep, Arrive, Authorize, Admit, CallUpstream, Ends, Finalize, Killed
<1> QED BY <1>3, <1>6, <1>7, TypePartsPrimed DEF ProxyType

LEMMA CommandKeepsTypes ==
  ASSUME TypeOK, NEW k \in Keys, CommandStep(k)
  PROVE  TypeOK'
<1>1. WorldType /\ ProxyType /\ CommandType
  BY TypeParts
<1>2. UNCHANGED <<worldVars, tokenVars, proxyVars>>
  BY DEF CommandStep, Prepare, Begin, SendCommit, Succeeds, CommitFails, Resolve, Dies, Recover
<1>3. WorldType' /\ ProxyType'
  BY <1>1, <1>2 DEF worldVars, tokenVars, proxyVars, WorldType, ProxyType
<1>4. NoCommand \in CommandRecords /\ op[k] \in CommandRecords /\ op[k].token \in Tokens
  BY <1>1, Constants DEF NoCommand, CommandRecords, CommandType
<1>5. ASSUME NEW pc \in {"idle", "staged", "open", "committing", "unsure"}, op' = [op EXCEPT ![k].pc = pc]
      PROVE  op' \in [Keys -> CommandRecords]
  BY <1>1, <1>5 DEF CommandType, CommandRecords
<1>6. ASSUME Returns(k) PROVE op' \in [Keys -> CommandRecords]
  BY <1>1, <1>4, <1>6 DEF Returns, CommandType
<1>7. CommandType'
  <2>1. CASE Prepare(k)
    <3>1. drawn + 1 \in Tokens
      BY <1>1, <2>1, Constants DEF Prepare, CommandType, Tokens
    <3>2. [pc |-> "staged", token |-> drawn + 1] \in CommandRecords
      BY <3>1 DEF CommandRecords
    <3> QED BY <1>1, <2>1, <3>1, <3>2 DEF Prepare, CommandType
  <2>2. CASE Begin(k)
    <3>1. op' \in [Keys -> CommandRecords]
      BY <1>5, <1>6, <2>2 DEF Begin
    <3>2. file' \in [Keys -> Tokens \cup {None}] /\ tx' \in Transactions \cup {None}
      <4>1. [key |-> k, token |-> op[k].token, sent |-> FALSE] \in Transactions
        BY <1>4 DEF Transactions
      <4> QED BY <1>1, <1>4, <2>2, <4>1 DEF Begin, CommandType
    <3> QED BY <1>1, <2>2, <3>1, <3>2 DEF Begin, CommandType
  <2>3. CASE SendCommit(k)
    <3>1. op' \in [Keys -> CommandRecords]
      BY <1>5, <2>3 DEF SendCommit
    <3>2. tx' \in Transactions \cup {None}
      <4>1. ASSUME NEW x \in Transactions PROVE [x EXCEPT !.sent = TRUE] \in Transactions
        BY DEF Transactions
      <4> QED BY <1>1, <2>3, <4>1 DEF SendCommit, CommandType
    <3> QED BY <1>1, <2>3, <3>1, <3>2 DEF SendCommit, CommandType
  <2>4. CASE CommitFails(k)
    BY <1>1, <1>5, <2>4 DEF CommitFails, CommandType
  <2>5. CASE Succeeds(k) \/ Resolve(k) \/ Dies(k)
    BY <1>1, <1>6, <2>5 DEF Succeeds, Resolve, Dies, CommandType
  <2>6. CASE Recover(k)
    <3>1. file[k] \in Tokens
      BY <1>1, <2>6 DEF Recover, CommandType
    <3> QED BY <1>1, <2>6, <3>1 DEF Recover, CommandType
  <2> QED BY <2>1, <2>2, <2>3, <2>4, <2>5, <2>6 DEF CommandStep
<1> QED BY <1>3, <1>7, TypePartsPrimed

LEMMA WorldKeepsTypes ==
  ASSUME TypeOK, Tick \/ MutateLicence \/ MutateDeviceToken \/ Commits \/ RollsBack
  PROVE  TypeOK'
<1>1. WorldType /\ ProxyType /\ CommandType
  BY TypeParts
<1>2. UNCHANGED proxyVars
  BY DEF Tick, MutateLicence, MutateDeviceToken, Commits, RollsBack
<1>3. ProxyType'
  BY <1>1, <1>2 DEF proxyVars, ProxyType
<1>4. time' \in Nat /\ licence' \in {"active", "disabled", "ended"}
  BY <1>1 DEF Tick, MutateLicence, MutateDeviceToken, Commits, RollsBack, worldVars, WorldType
<1>5. usable' \in [Tokens -> Int]
  <2>1. CASE Remember
    BY <1>1, <1>4, <2>1 DEF Remember, WorldType
  <2>2. CASE UNCHANGED worldVars
    BY <1>1, <2>2 DEF worldVars, WorldType
  <2> QED BY <2>1, <2>2 DEF Tick, MutateLicence, MutateDeviceToken, Commits, RollsBack
<1>6. token' \in [Tokens -> {"none", "active", "disabled", "revoked"}] /\ newest' \in Tokens
  <2>1. CASE UNCHANGED tokenVars
    BY <1>1, <2>1 DEF tokenVars, WorldType
  <2>2. CASE MutateDeviceToken
    BY <1>1, <2>2 DEF MutateDeviceToken, WorldType
  <2>3. CASE Commits
    BY <1>1, <2>3, Constants DEF Commits, WorldType, CommandType, Transactions
  <2> QED BY <2>1, <2>2, <2>3 DEF Tick, MutateLicence, RollsBack
<1>7. CommandType'
  <2>1. CASE UNCHANGED commandVars
    BY <1>1, <2>1 DEF commandVars, CommandType
  <2>2. CASE RollsBack
    BY <1>1, <2>2 DEF RollsBack, CommandType
  <2>3. CASE Commits
    <3>1. tx.token \in Tokens \cup {None}
      BY <1>1, <2>3 DEF Commits, CommandType, Transactions
    <3> QED BY <1>1, <2>3, <3>1 DEF Commits, CommandType
  <2> QED BY <2>1, <2>2, <2>3 DEF Tick, MutateLicence, MutateDeviceToken
<1> QED BY <1>3, <1>4, <1>5, <1>6, <1>7, TypePartsPrimed DEF WorldType

-----------------------------------------------------------------------------
LEMMA OthersKeepProxyInv ==
  ASSUME ProxyInv, TypeOK', UNCHANGED <<worldVars, tokenVars, proxyVars>>
  PROVE  ProxyInv'
<1>1. time' = time /\ usable' = usable /\ time \in Nat /\ usable \in [Tokens -> Int]
      /\ UNCHANGED proxyVars
  BY DEF worldVars, ProxyInv, TypeOK
<1>2. \A t \in Tokens : InForce(t)' => usable[t] = time
  BY DEF ProxyInv, UsableIsPast, InForce, worldVars, tokenVars
<1>3. Remember
  BY <1>1, <1>2 DEF Remember
<1>4. \A q \in Requests : request[q].pc \in Running => time' <= request[q].arrived + Timeout
  BY <1>1 DEF ProxyInv, RequestsAreSound, Sound
<1> QED BY <1>1, <1>3, <1>4, WorldKeepsProxyInv

LEMMA NextKeepsProxyInv == ProxyInv /\ [Next]_vars => ProxyInv'
<1> SUFFICES ASSUME ProxyInv, [Next]_vars PROVE ProxyInv'
  OBVIOUS
<1>1. TypeOK
  BY DEF ProxyInv
<1>2. CASE Tick
  <2>1. time' >= time /\ UNCHANGED proxyVars /\ Remember
        /\ \A q \in Requests : request[q].pc \in Running => time' <= request[q].arrived + Timeout
    <3>1. time \in Nat /\ \A q \in Requests : request[q].arrived \in Int
      BY <1>1 DEF TypeOK
    <3> QED BY <1>2, <3>1, Constants DEF Tick
  <2> QED BY <1>1, <1>2, <2>1, WorldKeepsTypes, WorldKeepsProxyInv
<1>3. CASE MutateLicence \/ MutateDeviceToken \/ Commits
  <2>1. time' = time /\ UNCHANGED proxyVars /\ Remember
    BY <1>3 DEF MutateLicence, MutateDeviceToken, Commits
  <2>2. time' >= time
        /\ \A q \in Requests : request[q].pc \in Running => time' <= request[q].arrived + Timeout
    BY <1>1, <2>1 DEF ProxyInv, RequestsAreSound, Sound, TypeOK
  <2> QED BY <1>1, <1>3, <2>1, <2>2, WorldKeepsTypes, WorldKeepsProxyInv
<1>4. CASE RollsBack
  BY <1>1, <1>4, WorldKeepsTypes, OthersKeepProxyInv DEF RollsBack
<1>5. ASSUME NEW k \in Keys, CommandStep(k) PROVE ProxyInv'
  <2>1. UNCHANGED <<worldVars, tokenVars, proxyVars>>
    BY <1>5 DEF CommandStep, Prepare, Begin, SendCommit, Succeeds, CommitFails, Resolve, Dies, Recover
  <2> QED BY <1>1, <1>5, <2>1, CommandKeepsTypes, OthersKeepProxyInv
<1>6. ASSUME NEW r \in Requests, ProxyStep(r) PROVE ProxyInv'
  <2>1. TypeOK' /\ {"authorized", "upstream", "ended", "done"} \subseteq PCs
    BY <1>1, <1>6, ProxyKeepsTypes DEF PCs, Running
  <2>2. ASSUME NEW t \in Tokens, Arrive(r, t) PROVE ProxyInv'
    BY <2>1, <2>2, ArriveKeepsProxyInv
  <2>3. CASE Authorize(r)
    <3>1. CASE Active(request[r].token)
      <4>1. request[r].token \in Tokens /\ request[r].arrived \in Int /\ time \in Int
            /\ request[r].arrived <= time
        BY <1>1, <2>3 DEF Authorize, ProxyInv, RequestsAreSound, Sound, TypeOK, Running
      <4>2. usable[request[r].token] = time
        BY <3>1, <4>1 DEF Active, InForce, ProxyInv, UsableIsPast
      <4>3. UNCHANGED <<worldVars, tokenVars>> /\ row' = row /\ Moves(r, "authorized")
            /\ request[r].pc = "arrived"
        BY <2>3, <3>1 DEF Authorize
      <4> QED BY <2>1, <4>1, <4>2, <4>3, MoveKeepsProxyInv
    <3>2. CASE ~Active(request[r].token)
      BY <2>1, <2>3, <3>2, MoveKeepsProxyInv DEF Authorize
    <3> QED BY <3>1, <3>2
  <2>4. CASE Admit(r)
    BY <2>1, <2>4, AdmitKeepsProxyInv
  <2>5. CASE CallUpstream(r) \/ Ends(r) \/ Killed(r)
    BY <2>1, <2>5, MoveKeepsProxyInv DEF CallUpstream, Ends, Killed
  <2>6. CASE Finalize(r)
    BY <2>1, <2>6, FinalizeKeepsProxyInv
  <2> QED BY <1>6, <2>2, <2>3, <2>4, <2>5, <2>6 DEF ProxyStep
<1>7. CASE UNCHANGED vars
  <2>1. UNCHANGED <<worldVars, tokenVars, proxyVars, commandVars>>
    BY <1>7 DEF vars
  <2>2. TypeOK'
    BY <1>1, <2>1, TypeParts, TypePartsPrimed
       DEF worldVars, tokenVars, proxyVars, commandVars, WorldType, ProxyType, CommandType
  <2> QED BY <2>1, <2>2, OthersKeepProxyInv
<1> QED BY <1>2, <1>3, <1>4, <1>5, <1>6, <1>7 DEF Next, ProxyStep, CommandStep

LEMMA ProxyInvariant == Spec => []ProxyInv
<1>1. Init => ProxyInv
  BY Initially
<1> QED BY <1>1, NextKeepsProxyInv, PTL DEF Spec

-----------------------------------------------------------------------------
(* The limits of a mapping hold, whatever is killed, lost or deleted: a request that works
   holds its admission, whose lease outlasts its deadline (service.go, Admit). *)
THEOREM LimitsAlwaysHold == Spec => []LimitsHold
<1>1. ProxyInv => LimitsHold
  <2> SUFFICES ASSUME ProxyInv, NEW t \in Tokens
               PROVE  /\ Cardinality(AtWork(t)) <= Concurrent
                      /\ Lease >= Window => Cardinality(LastMinute(t)) <= Rpm
    BY DEF LimitsHold
  <2>1. AtWork(t) \subseteq Held(t)
    <3> SUFFICES ASSUME NEW q \in AtWork(t) PROVE q \in Held(t)
      OBVIOUS
    <3>1. q \in Requests /\ request[q].pc \in Working \cap Running /\ request[q].token = t
      BY DEF AtWork, Working, Running
    <3>2. Sound(q) /\ time \in Nat /\ request[q].arrived \in Int /\ request[q].admitted \in Int
      BY <3>1 DEF ProxyInv, RequestsAreSound, TypeOK
    <3> QED BY <3>1, <3>2, Constants DEF Sound, Held, LeaseEnds
  <2>2. AtWork(t) \in SUBSET Requests /\ Held(t) \in SUBSET Requests
    BY DEF AtWork, Held
  <2>3. Cardinality(AtWork(t)) <= Cardinality(Held(t))
        /\ Cardinality(AtWork(t)) \in Nat /\ Cardinality(Held(t)) \in Nat
    BY <2>1, <2>2, Fewer
  <2> QED BY <2>3, Constants DEF ProxyInv, Bounded
<1> QED BY <1>1, ProxyInvariant, PTL

(* What is withdrawn stops working within the timeout of a request: the deadline counts from
   an arrival at which, or after which, the token was in force (ServeHTTP, Authorize). *)
THEOREM WithdrawalAlwaysTakesHold == Spec => []WithdrawalTakesHold
<1>1. ProxyInv => WithdrawalTakesHold
  <2> SUFFICES ASSUME ProxyInv, NEW r \in Requests, request[r].pc = "upstream"
               PROVE  time <= usable[request[r].token] + Timeout
    BY DEF WithdrawalTakesHold
  <2>1. Sound(r) /\ time \in Nat /\ request[r].arrived \in Int
        /\ usable[request[r].token] \in Int
    BY DEF ProxyInv, RequestsAreSound, TypeOK
  <2>2. request[r].pc \in Running /\ request[r].pc \in Authorized
    BY DEF Running, Authorized
  <2> QED BY <2>1, <2>2, Constants DEF Sound
<1> QED BY <1>1, ProxyInvariant, PTL

-----------------------------------------------------------------------------
(* The secret of a reissued token: on its way from the command's file to the drive. *)
CommandsAreSound ==
  \A k \in Keys :
    /\ op[k].pc = "staged" => file[k] = None
    /\ op[k].pc \in {"open", "committing", "unsure"} => file[k] = op[k].token
TransactionIsSound ==
  tx # None => file[tx.key] = tx.token /\ op[tx.key].pc # "unsure"
Kept(t) == t \in delivered \/ \E k \in Keys : file[k] = t /\ done[k] = t
SecretsAreKept == token[newest] # "none" /\ \A t \in Tokens : token[t] # "none" => Kept(t)

SecretInv == TypeOK /\ CommandsAreSound /\ TransactionIsSound /\ SecretsAreKept

LEMMA SecretInitially == Init => SecretInv
<1> SUFFICES ASSUME Init PROVE SecretInv
  OBVIOUS
<1>1. TypeOK
  BY Initially DEF ProxyInv
<1>2. CommandsAreSound
  BY DEF Init, NoCommand, CommandsAreSound
<1>3. TransactionIsSound
  BY DEF Init, TransactionIsSound
<1>4. SecretsAreKept
  BY Constants DEF Init, SecretsAreKept, Kept
<1> QED BY <1>1, <1>2, <1>3, <1>4 DEF SecretInv

(* What a transaction or a file holds is a token, not None. *)
LEMMA SecretTypes ==
  ASSUME SecretInv
  PROVE  /\ op \in [Keys -> CommandRecords] /\ \A k \in Keys : op[k].token \in Tokens
         /\ done \in [Keys -> Tokens \cup {None}] /\ file \in [Keys -> Tokens \cup {None}]
         /\ token \in [Tokens -> {"none", "active", "disabled", "revoked"}] /\ newest \in Tokens
         /\ tx # None => tx \in Transactions /\ tx.key \in Keys /\ tx.token \in Tokens
BY TypeParts DEF SecretInv, CommandType, CommandRecords, WorldType, Transactions

LEMMA CommitKeepsSecrets ==
  ASSUME SecretInv, TypeOK', Commits
  PROVE  SecretInv'
<1>1. /\ tx # None /\ tx' = None /\ UNCHANGED <<op, file, delivered>>
      /\ token' = [token EXCEPT ![newest] = "revoked", ![tx.token] = "active"] /\ newest' = tx.token
      /\ done' = [done EXCEPT ![tx.key] = tx.token]
  BY DEF Commits
<1>2. /\ tx.key \in Keys /\ tx.token \in Tokens /\ newest \in Tokens /\ file[tx.key] = tx.token
      /\ token \in [Tokens -> {"none", "active", "disabled", "revoked"}]
      /\ done \in [Keys -> Tokens \cup {None}]
  BY <1>1, SecretTypes DEF SecretInv, TransactionIsSound
<1>3. CommandsAreSound' /\ TransactionIsSound'
  BY <1>1 DEF SecretInv, CommandsAreSound, TransactionIsSound
<1>4. token'[newest'] # "none"
  BY <1>1, <1>2
<1>5. ASSUME NEW t \in Tokens, token'[t] # "none" PROVE Kept(t)'
  <2>1. CASE t = tx.token
    <3>1. done'[tx.key] = t /\ file'[tx.key] = t
      BY <1>1, <1>2, <2>1
    <3> QED BY <1>2, <3>1 DEF Kept
  <2>2. CASE t # tx.token
    <3>1. Kept(t)
      BY <1>1, <1>2, <1>5, <2>2 DEF SecretInv, SecretsAreKept
    <3>2. ASSUME NEW k \in Keys, file[k] = t, done[k] = t PROVE file'[k] = t /\ done'[k] = t
      <4>1. k # tx.key
        BY <1>2, <2>2, <3>2
      <4> QED BY <1>1, <1>2, <3>2, <4>1
    <3> QED BY <1>1, <3>1, <3>2 DEF Kept
  <2> QED BY <2>1, <2>2
<1> QED BY <1>3, <1>4, <1>5 DEF SecretInv, SecretsAreKept

(* A command that leaves tokens and operations alone keeps the secrets when every file that
   its operation completed with stays, or has been delivered. *)
LEMMA FilesKeepSecrets ==
  ASSUME SecretInv, NEW k \in Keys, UNCHANGED <<token, newest, done>>, delivered \subseteq delivered',
         \A j \in Keys : j # k => file'[j] = file[j],
         file'[k] = file[k] \/ file[k] = None \/ file[k] # done[k] \/ file[k] \in delivered'
  PROVE  SecretsAreKept'
<1>1. token'[newest'] # "none"
  BY DEF SecretInv, SecretsAreKept
<1>2. ASSUME NEW t \in Tokens, token'[t] # "none" PROVE Kept(t)'
  <2>1. Kept(t)
    BY <1>2 DEF SecretInv, SecretsAreKept
  <2>2. t # None
    BY Constants
  <2> QED BY <2>1, <2>2 DEF Kept
<1> QED BY <1>1, <1>2 DEF SecretsAreKept

LEMMA CommandKeepsSecrets ==
  ASSUME "late" \notin Troubles, SecretInv, TypeOK', NEW k \in Keys, CommandStep(k)
  PROVE  SecretInv'
<1>1. /\ op \in [Keys -> CommandRecords] /\ \A j \in Keys : op[j].token \in Tokens
      /\ done \in [Keys -> Tokens \cup {None}] /\ file \in [Keys -> Tokens \cup {None}]
      /\ tx # None => tx.key \in Keys /\ tx.token \in Tokens
  BY SecretTypes
<1>2. CommandsAreSound /\ TransactionIsSound /\ UNCHANGED <<token, newest, done>>
  BY DEF SecretInv, CommandStep, Prepare, Begin, SendCommit, Succeeds, CommitFails, Resolve, Dies,
         Recover, tokenVars
<1>3. op' \in [Keys -> CommandRecords] /\ \A j \in Keys : j # k => op'[j] = op[j]
  BY <1>1, TypePartsPrimed
     DEF CommandType, CommandStep, Prepare, Begin, SendCommit, Succeeds, CommitFails, Resolve, Dies,
         Recover, Returns
<1>4. CASE Prepare(k)
  <2>1. op'[k] = [pc |-> "staged", token |-> drawn + 1] /\ UNCHANGED <<tx, file, delivered>> /\ file[k] = None
    BY <1>1, <1>4 DEF Prepare
  <2>2. CommandsAreSound'
    BY <1>2, <1>3, <2>1 DEF CommandsAreSound
  <2>3. TransactionIsSound'
    BY <1>1, <1>2, <1>3, <2>1 DEF TransactionIsSound
  <2>4. SecretsAreKept'
    BY <1>2, <2>1, FilesKeepSecrets
  <2> QED BY <2>2, <2>3, <2>4 DEF SecretInv
<1>5. ASSUME op' = [op EXCEPT ![k].pc = "open"], file' = [file EXCEPT ![k] = op[k].token],
             tx' = [key |-> k, token |-> op[k].token, sent |-> FALSE],
             op[k].pc = "staged", UNCHANGED delivered
      PROVE  SecretInv'
  <2>1. op'[k].pc = "open" /\ op'[k].token = op[k].token /\ file'[k] = op[k].token /\ file[k] = None
        /\ \A j \in Keys : j # k => file'[j] = file[j]
    BY <1>1, <1>2, <1>5 DEF CommandsAreSound, CommandRecords
  <2>2. CommandsAreSound'
    BY <1>2, <1>3, <2>1 DEF CommandsAreSound
  <2>3. TransactionIsSound'
    BY <1>5, <2>1 DEF TransactionIsSound
  <2>4. SecretsAreKept'
    BY <1>2, <1>5, <2>1, FilesKeepSecrets
  <2> QED BY <2>2, <2>3, <2>4 DEF SecretInv
<1>6. CASE SendCommit(k)
  <2>1. op'[k].pc = "committing" /\ op'[k].token = op[k].token /\ op[k].pc = "open"
        /\ UNCHANGED <<file, delivered>>
    BY <1>1, <1>6 DEF SendCommit, CommandRecords
  <2>2. CommandsAreSound'
    BY <1>2, <1>3, <2>1 DEF CommandsAreSound
  <2>3. tx' # None => tx # None /\ tx'.key = tx.key /\ tx'.token = tx.token
    BY <1>6, SecretTypes DEF SendCommit, Transactions
  <2>4. TransactionIsSound'
    BY <1>1, <1>2, <1>3, <2>1, <2>3 DEF TransactionIsSound
  <2>5. SecretsAreKept'
    BY <1>2, <2>1, FilesKeepSecrets
  <2> QED BY <2>2, <2>4, <2>5 DEF SecretInv
<1>7. CASE CommitFails(k)
  <2>1. op'[k].pc = "unsure" /\ op'[k].token = op[k].token /\ op[k].pc = "committing"
        /\ UNCHANGED <<tx, file, delivered>>
    BY <1>1, <1>7 DEF CommitFails, CommandRecords
  <2>2. ~(tx # None /\ tx.key = k)
    BY <1>7 DEF CommitFails, Over
  <2>3. CommandsAreSound'
    BY <1>2, <1>3, <2>1 DEF CommandsAreSound
  <2>4. TransactionIsSound'
    BY <1>1, <1>2, <1>3, <2>1, <2>2 DEF TransactionIsSound
  <2>5. SecretsAreKept'
    BY <1>2, <2>1, FilesKeepSecrets
  <2> QED BY <2>3, <2>4, <2>5 DEF SecretInv
<1>8. ASSUME Returns(k), UNCHANGED <<tx, delivered>>,
             \/ UNCHANGED file
             \/ op[k].pc = "unsure" /\ done[k] # op[k].token /\ file' = [file EXCEPT ![k] = None]
      PROVE  SecretInv'
  <2>1. op'[k].pc = "idle" /\ \A j \in Keys : j # k => file'[j] = file[j]
    BY <1>1, <1>8 DEF Returns, NoCommand
  <2>2. CommandsAreSound'
    BY <1>2, <1>3, <2>1 DEF CommandsAreSound
  <2>3. ASSUME ~UNCHANGED file PROVE ~(tx # None /\ tx.key = k) /\ file[k] # done[k]
    BY <1>2, <1>8, <2>3 DEF TransactionIsSound, CommandsAreSound
  <2>4. TransactionIsSound'
    BY <1>1, <1>2, <1>3, <1>8, <2>1, <2>3 DEF TransactionIsSound
  <2>5. SecretsAreKept'
    BY <1>2, <1>8, <2>1, <2>3, FilesKeepSecrets
  <2> QED BY <2>2, <2>4, <2>5 DEF SecretInv
<1>9. CASE Recover(k)
  <2>1. /\ UNCHANGED <<op, tx>> /\ op[k].pc = "idle" /\ file' = [file EXCEPT ![k] = None]
        /\ ~(tx # None /\ tx.key = k)
        /\ delivered' = IF done[k] = file[k] THEN delivered \cup {file[k]} ELSE delivered
    BY <1>9 DEF Recover, Over
  <2>2. \A j \in Keys : j # k => file'[j] = file[j]
    BY <1>1, <2>1
  <2>3. CommandsAreSound'
    BY <1>2, <2>1, <2>2 DEF CommandsAreSound
  <2>4. TransactionIsSound'
    BY <1>1, <1>2, <2>1, <2>2 DEF TransactionIsSound
  <2>5. delivered \subseteq delivered' /\ (file[k] # done[k] \/ file[k] \in delivered')
    BY <2>1
  <2>6. SecretsAreKept'
    BY <1>2, <2>2, <2>5, FilesKeepSecrets
  <2> QED BY <2>3, <2>4, <2>6 DEF SecretInv
<1>10. CASE Begin(k)
  BY <1>5, <1>8, <1>10 DEF Begin
<1>11. CASE Succeeds(k) \/ Resolve(k) \/ Dies(k)
  BY <1>8, <1>11 DEF Succeeds, Resolve, Dies
<1> QED BY <1>4, <1>6, <1>7, <1>9, <1>10, <1>11 DEF CommandStep

LEMMA NextKeepsSecrets ==
  ASSUME "late" \notin Troubles, SecretInv, [Next]_vars
  PROVE  SecretInv'
<1>1. TypeOK /\ newest \in Tokens /\ token \in [Tokens -> {"none", "active", "disabled", "revoked"}]
  BY SecretTypes DEF SecretInv
<1>2. ASSUME TypeOK', UNCHANGED <<token, newest, op, tx, done, file, delivered>> PROVE SecretInv'
  BY <1>2 DEF SecretInv, CommandsAreSound, TransactionIsSound, SecretsAreKept, Kept
<1>3. CASE Tick \/ MutateLicence
  BY <1>1, <1>2, <1>3, WorldKeepsTypes DEF Tick, MutateLicence, tokenVars, commandVars
<1>4. CASE MutateDeviceToken
  <2>1. /\ \A t \in Tokens : token'[t] # "none" => token[t] # "none"
        /\ token'[newest] # "none" /\ newest' = newest
    BY <1>1, <1>4 DEF MutateDeviceToken, SecretInv, SecretsAreKept
  <2>2. UNCHANGED <<op, tx, done, file, delivered>> /\ TypeOK'
    BY <1>1, <1>4, WorldKeepsTypes DEF MutateDeviceToken, commandVars
  <2> QED BY <2>1, <2>2 DEF SecretInv, CommandsAreSound, TransactionIsSound, SecretsAreKept, Kept
<1>5. CASE Commits
  BY <1>1, <1>5, WorldKeepsTypes, CommitKeepsSecrets
<1>6. CASE RollsBack
  <2>1. TypeOK' /\ tx' = None /\ UNCHANGED <<token, newest, op, done, file, delivered>>
    BY <1>1, <1>6, WorldKeepsTypes DEF RollsBack, tokenVars
  <2> QED BY <2>1 DEF SecretInv, CommandsAreSound, TransactionIsSound, SecretsAreKept, Kept
<1>7. ASSUME NEW k \in Keys, CommandStep(k) PROVE SecretInv'
  BY <1>1, <1>7, CommandKeepsTypes, CommandKeepsSecrets
<1>8. ASSUME NEW r \in Requests, ProxyStep(r) PROVE SecretInv'
  <2>1. UNCHANGED <<tokenVars, commandVars>>
    BY <1>8 DEF ProxyStep, Arrive, Authorize, Admit, CallUpstream, Ends, Finalize, Killed
  <2> QED BY <1>1, <1>2, <1>8, <2>1, ProxyKeepsTypes DEF tokenVars, commandVars
<1>9. CASE UNCHANGED vars
  <2>1. UNCHANGED <<worldVars, tokenVars, proxyVars, commandVars>>
    BY <1>9 DEF vars
  <2>2. TypeOK'
    BY <1>1, <2>1, TypeParts, TypePartsPrimed
       DEF worldVars, tokenVars, proxyVars, commandVars, WorldType, ProxyType, CommandType
  <2> QED BY <1>2, <2>1, <2>2 DEF tokenVars, commandVars
<1> QED BY <1>3, <1>4, <1>5, <1>6, <1>7, <1>8, <1>9 DEF Next, ProxyStep, CommandStep

(* No token comes into force whose secret nobody has, wherever the reissue, its connection or
   its database stop (stagedSecret, Resolve), unless a COMMIT takes effect after the loss of
   its connection. *)
THEOREM SecretIsAlwaysKept ==
  ASSUME "late" \notin Troubles
  PROVE  Spec => []SecretIsKept
<1>1. SecretInv => SecretIsKept
  BY DEF SecretInv, SecretsAreKept, Kept, SecretIsKept
<1>2. Init => SecretInv
  BY SecretInitially
<1>3. SecretInv /\ [Next]_vars => SecretInv'
  BY NextKeepsSecrets
<1> QED BY <1>1, <1>2, <1>3, PTL DEF Spec

=============================================================================
