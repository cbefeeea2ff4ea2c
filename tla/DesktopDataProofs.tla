--------------------------- MODULE DesktopDataProofs ---------------------------
(* For any number of operations, writes and files: while a lease is held no gateway and no
   tracked write is there, so what a backup copies and a restore replaces stands still; a
   restore reports what it did; and the newest content of a file is never lost.  It begins
   with the coordinator alone, whose calls, counters and turns never disagree. *)
EXTENDS DesktopData, FiniteSetTheorems, TLAPS

-----------------------------------------------------------------------------
(* The coordinator, for any number of writes and leases, whatever its lifecycle does.  The
   counters and the gate are what the code looks at; the argument is that they never
   disagree with the calls they stand for. *)

Inside == {w \in Writers : write[w] = "in"}
Asking == {l \in Leases : lease[l] # "idle"}
Active(l) == lease[l] \in {"draining", "drained", "stopping", "held", "starting"}

(* activeWrites and pendingLeases are the numbers of calls they stand for; however many
   calls there may ever be, finitely many are under way. *)
Counted ==
  /\ IsFiniteSet(Inside) /\ activeWrites = Cardinality(Inside)
  /\ IsFiniteSet(Asking) /\ pendingLeases = Cardinality(Asking)

(* The gate is shut while a lease is asked for and after a restart that failed. *)
GateIsShut == pendingLeases > 0 \/ terminalFailure => writesBlocked

(* Who asks has a turn; who is at work has the first one, and no restart has failed. *)
TurnsAreKept ==
  \A l \in Leases :
    /\ lease[l] # "idle" => \E i \in DOMAIN turns : turns[i] = l
    /\ Active(l) => turns # <<>> /\ Head(turns) = l /\ ~terminalFailure

(* Past the drain no write is counted. *)
DrainedIsEmpty == \A l \in Leases : C!Quiet(l) => activeWrites = 0

Coordinated == C!CoordinatorTypeOK /\ Counted /\ GateIsShut /\ TurnsAreKept /\ DrainedIsEmpty

-----------------------------------------------------------------------------
(* Taking the turn of one lease away leaves the others' turns, in their order. *)
LEMMA OthersKeepTurns ==
  ASSUME C!CoordinatorTypeOK, NEW l \in Leases, \E i \in DOMAIN turns : turns[i] = l
  PROVE  /\ C!Without(l) \in Seq(Leases)
         /\ \A k \in Leases \ {l} :
              /\ (\E i \in DOMAIN turns : turns[i] = k) => \E i \in DOMAIN C!Without(l) : C!Without(l)[i] = k
              /\ turns # <<>> /\ Head(turns) = k => C!Without(l) # <<>> /\ Head(C!Without(l)) = k
<1> DEFINE place == CHOOSE i \in DOMAIN turns : turns[i] = l
           rest == C!Without(l)
<1>1. place \in 1 .. Len(turns) /\ turns[place] = l
  BY DEF C!CoordinatorTypeOK
<1>2. rest = [i \in 1 .. Len(turns) - 1 |-> IF i < place THEN turns[i] ELSE turns[i + 1]]
  BY DEF C!Without
<1> HIDE DEF place, rest
<1>3. Len(turns) \in Nat /\ turns \in [1 .. Len(turns) -> Leases]
  BY DEF C!CoordinatorTypeOK
<1>4. rest \in [1 .. Len(turns) - 1 -> Leases] /\ Len(turns) - 1 \in Nat
  BY <1>1, <1>2, <1>3
<1>5. rest \in Seq(Leases) /\ Len(rest) = Len(turns) - 1 /\ DOMAIN rest = 1 .. Len(turns) - 1
  BY <1>4
<1>6. ASSUME NEW k \in Leases \ {l}, NEW i \in DOMAIN turns, turns[i] = k
      PROVE  \E j \in DOMAIN rest : rest[j] = k
  <2>1. i \in 1 .. Len(turns) /\ i # place
    BY <1>1, <1>3, <1>6
  <2>2. CASE i < place
    <3>1. i \in DOMAIN rest /\ rest[i] = k
      BY <1>1, <1>2, <1>3, <1>5, <1>6, <2>1, <2>2
    <3> QED BY <3>1
  <2>3. CASE i > place
    <3>1. i - 1 \in DOMAIN rest
      BY <1>1, <1>3, <1>5, <2>1, <2>3
    <3>2. rest[i - 1] = k
      BY <1>1, <1>2, <1>3, <1>5, <1>6, <2>1, <2>3, <3>1
    <3> QED BY <3>1, <3>2
  <2> QED BY <1>1, <2>1, <2>2, <2>3
<1>7. ASSUME NEW k \in Leases \ {l}, turns # <<>>, Head(turns) = k
      PROVE  rest # <<>> /\ Head(rest) = k
  <2>1. Len(turns) >= 1 /\ turns[1] = k
    BY <1>3, <1>7 DEF C!CoordinatorTypeOK
  <2>2. place > 1
    BY <1>1, <1>7, <2>1
  <2>3. Len(rest) >= 1
    BY <1>1, <1>3, <1>5, <2>2
  <2>4. rest[1] = k
    BY <1>1, <1>2, <1>3, <1>5, <2>1, <2>2, <2>3
  <2> QED BY <1>5, <2>3, <2>4
<1> QED BY <1>5, <1>6, <1>7 DEF rest

(* A write comes in or goes out; the others only fall asleep, wake or are refused. *)
LEMMA WakingKeepsInside ==
  ASSUME C!CoordinatorTypeOK, NEW blocked, C!WakeIfOpen(blocked)
  PROVE  write' \in [Writers -> {"idle", "asleep", "awake", "in"}] /\ Inside' = Inside
BY DEF C!CoordinatorTypeOK, C!WakeIfOpen, C!wakeWriters, Inside

(* A lease that gives its turn back is counted no longer. *)
LEMMA LeaseGone ==
  ASSUME Coordinated, NEW l \in Leases, lease[l] # "idle",
         lease' = [lease EXCEPT ![l] = "idle"], pendingLeases' = pendingLeases - 1
  PROVE  /\ lease' \in [Leases -> C!LeaseStages]
         /\ pendingLeases' \in Nat /\ pendingLeases \in Nat \ {0}
         /\ IsFiniteSet(Asking') /\ pendingLeases' = Cardinality(Asking')
<1>1. l \in Asking /\ Asking' = Asking \ {l}
  BY DEF Coordinated, C!CoordinatorTypeOK, Asking, C!LeaseStages
<1>2. Cardinality(Asking \ {l}) = Cardinality(Asking) - 1 /\ Cardinality(Asking) \in Nat
      /\ Cardinality(Asking \ {l}) \in Nat /\ IsFiniteSet(Asking \ {l})
  BY <1>1, FS_RemoveElement, FS_CardinalityType DEF Coordinated, Counted
<1> QED BY <1>1, <1>2 DEF Coordinated, Counted, C!CoordinatorTypeOK, C!LeaseStages

(* A stage of a lease that goes on asking changes no number. *)
LEMMA LeaseGoesOn ==
  ASSUME Coordinated, NEW l \in Leases, NEW stage \in C!LeaseStages \ {"idle"}, lease[l] # "idle",
         lease' = [lease EXCEPT ![l] = stage]
  PROVE  lease' \in [Leases -> C!LeaseStages] /\ Asking' = Asking
BY DEF Coordinated, C!CoordinatorTypeOK, Asking, C!LeaseStages

(* Who is at work is alone, and has a turn. *)
LEMMA OneAtWork ==
  ASSUME Coordinated, NEW k \in Leases, NEW l \in Leases, Active(k), Active(l)
  PROVE  k = l
BY DEF Coordinated, TurnsAreKept

(* A lease goes, whoever is at work being the one that goes or having an earlier turn. *)
LEMMA TurnsWithoutOne ==
  ASSUME Coordinated, NEW l \in Leases, lease[l] # "idle",
         lease' = [lease EXCEPT ![l] = "idle"], turns' = C!Without(l),
         Active(l) \/ terminalFailure' = terminalFailure
  PROVE  turns' \in Seq(Leases) /\ TurnsAreKept'
<1>1. C!CoordinatorTypeOK /\ \E i \in DOMAIN turns : turns[i] = l
  BY DEF Coordinated, TurnsAreKept
<1> DEFINE rest == C!Without(l)
<1>2. /\ rest \in Seq(Leases)
      /\ \A k \in Leases \ {l} :
           /\ (\E i \in DOMAIN turns : turns[i] = k) => \E i \in DOMAIN rest : rest[i] = k
           /\ turns # <<>> /\ Head(turns) = k => rest # <<>> /\ Head(rest) = k
  BY <1>1, OthersKeepTurns
<1> HIDE DEF rest
<1>3. turns' = rest
  BY DEF rest
<1>4. ASSUME NEW k \in Leases, lease'[k] # "idle"
      PROVE  k # l /\ lease'[k] = lease[k] /\ \E i \in DOMAIN turns' : turns'[i] = k
  BY <1>2, <1>3, <1>4 DEF Coordinated, C!CoordinatorTypeOK, TurnsAreKept
<1>5. ASSUME NEW k \in Leases, Active(k)'
      PROVE  turns' # <<>> /\ Head(turns') = k /\ ~terminalFailure'
  <2>1. lease'[k] # "idle"
    BY <1>5 DEF Active
  <2>2. k # l /\ Active(k)
    BY <1>4, <1>5, <2>1 DEF Active
  <2>3. ~Active(l)
    BY <2>2, OneAtWork
  <2>4. turns # <<>> /\ Head(turns) = k /\ ~terminalFailure
    BY <2>2 DEF Coordinated, TurnsAreKept
  <2> QED BY <1>2, <1>3, <2>2, <2>3, <2>4
<1>6. ASSUME NEW k \in Leases
      PROVE  (lease[k] # "idle" => \E i \in DOMAIN turns : turns[i] = k)'
  BY <1>4
<1> QED BY <1>2, <1>3, <1>5, <1>6 DEF TurnsAreKept

-----------------------------------------------------------------------------
LEMMA CoordinatedInit == C!CoordinatorInit => Coordinated
<1> SUFFICES ASSUME C!CoordinatorInit PROVE Coordinated
  OBVIOUS
<1>1. Inside = {} /\ Asking = {}
  BY DEF C!CoordinatorInit, Inside, Asking
<1>2. C!CoordinatorTypeOK /\ GateIsShut
  <2>1. turns \in Seq(Leases) /\ pendingLeases = 0 /\ terminalFailure = FALSE
    BY DEF C!CoordinatorInit
  <2>2. writesBlocked \in BOOLEAN /\ terminalFailure \in BOOLEAN /\ recovering \in BOOLEAN
    BY Zenon DEF C!CoordinatorInit
  <2>3. C!CoordinatorTypeOK
    BY <2>1, <2>2 DEF C!CoordinatorInit, C!CoordinatorTypeOK, C!LeaseStages
  <2> QED BY <2>1, <2>3 DEF GateIsShut
<1>3. TurnsAreKept /\ DrainedIsEmpty
  BY DEF C!CoordinatorInit, TurnsAreKept, DrainedIsEmpty, Active, C!Quiet
<1>4. Counted
  BY <1>1, FS_EmptySet DEF C!CoordinatorInit, Counted
<1> QED BY <1>2, <1>3, <1>4 DEF Coordinated

(* A write enters only where no lease asks. *)
LEMMA WriteEntersKeeps == ASSUME Coordinated, NEW w \in Writers, C!WriteEnters(w) PROVE Coordinated'
<1>1. Inside' = Inside \cup {w} /\ w \notin Inside /\ Asking' = Asking
  BY DEF C!WriteEnters, Coordinated, C!CoordinatorTypeOK, Inside, Asking
<1>2. IsFiniteSet(Inside') /\ Cardinality(Inside') = Cardinality(Inside) + 1
  BY <1>1, FS_AddElement DEF Coordinated, Counted
<1>3. Counted'
  BY <1>1, <1>2 DEF C!WriteEnters, Coordinated, Counted
<1>4. pendingLeases = 0
  BY DEF C!WriteEnters, Coordinated, GateIsShut, C!CoordinatorTypeOK
<1>5. \A l \in Leases : lease[l] = "idle"
  BY <1>4, FS_EmptySet DEF Coordinated, Counted, Asking
<1>6. C!CoordinatorTypeOK' /\ GateIsShut' /\ TurnsAreKept' /\ DrainedIsEmpty'
  BY <1>5
      DEF C!WriteEnters, Coordinated, C!CoordinatorTypeOK, GateIsShut, TurnsAreKept, DrainedIsEmpty, Active, C!Quiet
<1> QED BY <1>3, <1>6 DEF Coordinated

LEMMA WriteWaitsKeeps ==
  ASSUME Coordinated, NEW w \in Writers, C!WriteSleeps(w) \/ C!WriteRefused(w) PROVE Coordinated'
<1>1. Inside' = Inside /\ Asking' = Asking
  BY DEF C!WriteSleeps, C!WriteRefused, Coordinated, C!CoordinatorTypeOK, Inside, Asking
<1> QED BY <1>1
    DEF C!WriteSleeps, C!WriteRefused, Coordinated, C!CoordinatorTypeOK, Counted, GateIsShut,
                    TurnsAreKept, DrainedIsEmpty, Active, C!Quiet

(* The last write to leave lets the lease that drains go on. *)
LEMMA WriteLeavesKeeps == ASSUME Coordinated, NEW w \in Writers, C!WriteLeaves(w) PROVE Coordinated'
<1>1. Inside' = Inside \ {w} /\ w \in Inside
  BY DEF C!WriteLeaves, Coordinated, C!CoordinatorTypeOK, Inside
<1>2. /\ IsFiniteSet(Inside') /\ Cardinality(Inside') \in Nat
      /\ Cardinality(Inside') = Cardinality(Inside) - 1
  BY <1>1, FS_RemoveElement, FS_CardinalityType DEF Coordinated, Counted
<1>3. /\ lease' \in [Leases -> C!LeaseStages]
      /\ \A l \in Leases : /\ lease'[l] = "idle" <=> lease[l] = "idle"
                           /\ Active(l)' <=> Active(l)
                           /\ lease'[l] = lease[l] \/ (activeWrites = 1 /\ lease'[l] = "drained")
  BY DEF C!WriteLeaves, Coordinated, C!CoordinatorTypeOK, C!LeaseStages, Active
<1>4. Asking' = Asking
  BY <1>3 DEF Asking
<1>5. Counted'
  BY <1>2, <1>4 DEF C!WriteLeaves, Coordinated, Counted
<1>6. C!CoordinatorTypeOK'
  BY <1>2, <1>3, <1>5 DEF C!WriteLeaves, Coordinated, C!CoordinatorTypeOK, Counted
<1>7. GateIsShut' /\ TurnsAreKept'
  BY <1>3 DEF C!WriteLeaves, Coordinated, GateIsShut, TurnsAreKept
<1>8. DrainedIsEmpty'
  <2> SUFFICES ASSUME NEW l \in Leases, C!Quiet(l)' PROVE activeWrites' = 0
    BY DEF DrainedIsEmpty
  <2>1. activeWrites # 0 /\ activeWrites' = activeWrites - 1
    BY <1>2, <1>5 DEF C!WriteLeaves, Coordinated, Counted, C!CoordinatorTypeOK
  <2>2. ~C!Quiet(l)
    BY <2>1 DEF Coordinated, DrainedIsEmpty
  <2>3. lease'[l] # lease[l]
    BY <2>2 DEF C!Quiet
  <2> QED BY <1>3, <2>1, <2>3
<1> QED BY <1>5, <1>6, <1>7, <1>8 DEF Coordinated

-----------------------------------------------------------------------------
LEMMA AcquireKeeps ==
  ASSUME Coordinated, NEW l \in Leases, NEW aborted \in BOOLEAN, C!Acquire(l, aborted)
      PROVE Coordinated'
<1>1. lease[l] = "idle" /\ Inside' = Inside
  BY DEF C!Acquire, Inside
<1>2. /\ lease' \in [Leases -> C!LeaseStages] /\ lease'[l] \in {"queued", "lost"}
      /\ \A k \in Leases \ {l} : lease'[k] = lease[k]
  BY DEF C!Acquire, Coordinated, C!CoordinatorTypeOK, C!LeaseStages
<1>3. Asking' = Asking \cup {l} /\ l \notin Asking
  BY <1>1, <1>2 DEF Asking
<1>4. IsFiniteSet(Asking') /\ Cardinality(Asking') = Cardinality(Asking) + 1
  BY <1>3, FS_AddElement DEF Coordinated, Counted
<1>5. Counted'
  BY <1>1, <1>4 DEF C!Acquire, Coordinated, Counted
<1>6. /\ turns' \in Seq(Leases) /\ Len(turns') = Len(turns) + 1
      /\ turns'[Len(turns) + 1] = l /\ \A i \in DOMAIN turns : i \in DOMAIN turns' /\ turns'[i] = turns[i]
      /\ Len(turns) + 1 \in DOMAIN turns'
      /\ turns # <<>> => turns' # <<>> /\ Head(turns') = Head(turns)
  BY DEF C!Acquire, Coordinated, C!CoordinatorTypeOK
<1>7. C!CoordinatorTypeOK' /\ GateIsShut'
  BY <1>2, <1>6 DEF C!Acquire, Coordinated, C!CoordinatorTypeOK, GateIsShut
<1>8. TurnsAreKept'
  BY <1>1, <1>2, <1>6 DEF C!Acquire, Coordinated, TurnsAreKept, Active
<1>9. DrainedIsEmpty'
  BY <1>2 DEF C!Acquire, Coordinated, DrainedIsEmpty, C!Quiet
<1> QED BY <1>5, <1>7, <1>8, <1>9 DEF Coordinated

(* A lease's own progress from its turn to the start of the gateway. *)
LEMMA LeaseStepKeeps ==
  ASSUME Coordinated, NEW l \in Leases,
         C!TurnDrains(l) \/ C!LeaseStops(l) \/ C!Stopped(l) \/ C!Release(l)
  PROVE  Coordinated'
<1> USE DEF C!TurnDrains, C!LeaseStops, C!Stopped, C!Release, C!HasTurn
<1>1. PICK stage \in {"draining", "stopping", "held", "starting"} : lease' = [lease EXCEPT ![l] = stage]
  OBVIOUS
<1>2. lease[l] # "idle" /\ stage \in C!LeaseStages \ {"idle"}
  BY DEF C!LeaseStages
<1>3. lease' \in [Leases -> C!LeaseStages] /\ Asking' = Asking
  BY <1>1, <1>2, LeaseGoesOn
<1>4. UNCHANGED <<write, turns, activeWrites, pendingLeases, writesBlocked, terminalFailure, recovering>>
  OBVIOUS
<1>5. Active(l) \/ (lease[l] = "queued" /\ Head(turns) = l /\ ~terminalFailure)
  BY DEF Active
<1>6. turns # <<>> /\ Head(turns) = l /\ ~terminalFailure
  <2>1. turns # <<>>
    BY <1>2 DEF Coordinated, TurnsAreKept, C!CoordinatorTypeOK
  <2> QED BY <1>5, <2>1 DEF Coordinated, TurnsAreKept
<1>7. stage = "draining" \/ activeWrites = 0
  BY <1>1, <1>2 DEF Coordinated, DrainedIsEmpty, C!Quiet, C!CoordinatorTypeOK
<1>8. C!CoordinatorTypeOK' /\ GateIsShut'
  BY <1>3, <1>4 DEF Coordinated, C!CoordinatorTypeOK, GateIsShut
<1>9. Counted'
  <2>1. Inside' = Inside
    BY <1>4 DEF Inside
  <2> QED BY <1>3, <1>4, <2>1 DEF Coordinated, Counted
<1>10. TurnsAreKept'
  BY <1>1, <1>2, <1>4, <1>6 DEF Coordinated, TurnsAreKept, Active, C!CoordinatorTypeOK
<1>11. DrainedIsEmpty'
  BY <1>1, <1>4, <1>7 DEF Coordinated, DrainedIsEmpty, C!Quiet, C!CoordinatorTypeOK
<1> QED BY <1>8, <1>9, <1>10, <1>11 DEF Coordinated

(* The ends of a lease: its turn and its place in the count are given back, and the gate
   opens only if nobody else asks and no restart has failed. *)
LEMMA LeaseEndKeeps ==
  ASSUME Coordinated, NEW l \in Leases, lease[l] # "idle",
         lease' = [lease EXCEPT ![l] = "idle"], turns' = C!Without(l),
         pendingLeases' = pendingLeases - 1, activeWrites' = activeWrites,
         Inside' = Inside, write' \in [Writers -> {"idle", "asleep", "awake", "in"}],
         terminalFailure' \in BOOLEAN, recovering' \in BOOLEAN, writesBlocked' \in BOOLEAN,
         Active(l) \/ terminalFailure' = terminalFailure,
         pendingLeases > 1 \/ terminalFailure' => writesBlocked'
  PROVE  Coordinated'
<1>1. /\ lease' \in [Leases -> C!LeaseStages]
      /\ pendingLeases' \in Nat /\ pendingLeases \in Nat \ {0}
      /\ IsFiniteSet(Asking') /\ pendingLeases' = Cardinality(Asking')
  BY LeaseGone
<1>2. turns' \in Seq(Leases) /\ TurnsAreKept'
  BY TurnsWithoutOne
<1>3. C!CoordinatorTypeOK'
  BY <1>1, <1>2 DEF Coordinated, C!CoordinatorTypeOK
<1>4. Counted' /\ GateIsShut'
  BY <1>1 DEF Coordinated, Counted, GateIsShut, C!CoordinatorTypeOK
<1>5. DrainedIsEmpty'
  BY DEF Coordinated, DrainedIsEmpty, C!Quiet, C!CoordinatorTypeOK
<1> QED BY <1>2, <1>3, <1>4, <1>5 DEF Coordinated

LEMMA AbortQueuedKeeps == ASSUME Coordinated, NEW l \in Leases, C!AbortQueued(l) PROVE Coordinated'
<1>1. PICK open \in BOOLEAN : /\ open = (pendingLeases = 1 /\ ~terminalFailure)
                              /\ writesBlocked' = (writesBlocked /\ ~open) /\ C!WakeIfOpen(~open)
  BY DEF C!AbortQueued
<1>2. write' \in [Writers -> {"idle", "asleep", "awake", "in"}] /\ Inside' = Inside
  BY <1>1, WakingKeepsInside DEF Coordinated
<1>3. pendingLeases > 1 \/ terminalFailure => writesBlocked'
  BY <1>1 DEF Coordinated, GateIsShut, C!CoordinatorTypeOK
<1> QED BY <1>1, <1>2, <1>3, LeaseEndKeeps DEF C!AbortQueued, Coordinated, C!CoordinatorTypeOK

LEMMA TurnRefusedKeeps == ASSUME Coordinated, NEW l \in Leases, C!TurnRefused(l) PROVE Coordinated'
<1>1. pendingLeases > 1 \/ terminalFailure' => writesBlocked'
  BY DEF C!TurnRefused, Coordinated, GateIsShut, C!CoordinatorTypeOK
<1>2. Inside' = Inside
  BY DEF C!TurnRefused, Inside
<1> QED BY <1>1, <1>2, LeaseEndKeeps DEF C!TurnRefused, C!HasTurn, Coordinated, C!CoordinatorTypeOK

LEMMA GiveUpKeeps == ASSUME Coordinated, NEW l \in Leases, Active(l), C!GiveUp(l) PROVE Coordinated'
<1>1. write' \in [Writers -> {"idle", "asleep", "awake", "in"}] /\ Inside' = Inside
  BY WakingKeepsInside DEF C!GiveUp, Coordinated
<1>2. ~terminalFailure
  BY DEF Coordinated, TurnsAreKept
<1>3. lease[l] # "idle"
  BY DEF Active
<1>4. writesBlocked' \in BOOLEAN /\ (pendingLeases > 1 => writesBlocked')
  <2>1. writesBlocked' = (pendingLeases > 1)
    BY DEF C!GiveUp
  <2>2. (pendingLeases > 1) \in BOOLEAN
    BY DEF Coordinated, C!CoordinatorTypeOK
  <2> QED BY <2>1, <2>2, Zenon
<1>5. /\ lease' = [lease EXCEPT ![l] = "idle"] /\ turns' = C!Without(l)
      /\ pendingLeases' = pendingLeases - 1
      /\ UNCHANGED <<activeWrites, terminalFailure, recovering>>
  BY DEF C!GiveUp
<1>6. terminalFailure \in BOOLEAN /\ recovering \in BOOLEAN
  BY DEF Coordinated, C!CoordinatorTypeOK
<1> QED BY <1>1, <1>2, <1>3, <1>4, <1>5, <1>6, LeaseEndKeeps

LEMMA StartedKeeps == ASSUME Coordinated, NEW l \in Leases, C!Started(l) PROVE Coordinated'
<1>1. write' \in [Writers -> {"idle", "asleep", "awake", "in"}] /\ Inside' = Inside
  BY WakingKeepsInside DEF C!Started, Coordinated
<1>2. Active(l) /\ lease[l] # "idle"
  BY DEF C!Started, Active
<1>3. writesBlocked' \in BOOLEAN /\ (pendingLeases > 1 => writesBlocked')
  <2>1. writesBlocked' = (pendingLeases > 1)
    BY DEF C!Started
  <2>2. (pendingLeases > 1) \in BOOLEAN
    BY DEF Coordinated, C!CoordinatorTypeOK
  <2> QED BY <2>1, <2>2, Zenon
<1>4. /\ lease' = [lease EXCEPT ![l] = "idle"] /\ turns' = C!Without(l)
      /\ pendingLeases' = pendingLeases - 1 /\ terminalFailure' = FALSE
      /\ UNCHANGED <<activeWrites, recovering>>
  BY DEF C!Started
<1>5. recovering \in BOOLEAN
  BY DEF Coordinated, C!CoordinatorTypeOK
<1> QED BY <1>1, <1>2, <1>3, <1>4, <1>5, LeaseEndKeeps

LEMMA StartFailedKeeps == ASSUME Coordinated, NEW l \in Leases, C!StartFailed(l) PROVE Coordinated'
<1>1. write' \in [Writers -> {"idle", "asleep", "awake", "in"}] /\ Inside' = Inside
  BY DEF C!StartFailed, C!wakeWriters, Inside, Coordinated, C!CoordinatorTypeOK
<1>2. Active(l) /\ lease[l] # "idle"
  BY DEF C!StartFailed, Active
<1>3. pendingLeases > 0
  BY <1>2, FS_EmptySet, FS_CardinalityType DEF Coordinated, Counted, Asking
<1>4. writesBlocked' = TRUE
  BY <1>3 DEF C!StartFailed, Coordinated, GateIsShut, C!CoordinatorTypeOK
<1> QED BY <1>1, <1>2, <1>4, LeaseEndKeeps DEF C!StartFailed, Coordinated, C!CoordinatorTypeOK

LEMMA RecoveryKeeps ==
  ASSUME Coordinated, C!RecoverCall \/ C!RecoverDone \/ C!RecoverFails PROVE Coordinated'
<1>1. write' \in [Writers -> {"idle", "asleep", "awake", "in"}] /\ Inside' = Inside
  <2>1. CASE C!RecoverDone
    BY <2>1, WakingKeepsInside DEF C!RecoverDone, Coordinated
  <2>2. CASE C!RecoverCall \/ C!RecoverFails
    BY <2>2 DEF C!RecoverCall, C!RecoverFails, Inside, Coordinated, C!CoordinatorTypeOK
  <2> QED BY <2>1, <2>2
<1>2. UNCHANGED <<lease, turns, activeWrites, pendingLeases>> /\ recovering' \in BOOLEAN
      /\ terminalFailure' \in {terminalFailure, FALSE}
  BY DEF C!RecoverCall, C!RecoverDone, C!RecoverFails
<1>3. writesBlocked' \in BOOLEAN /\ (pendingLeases > 0 \/ terminalFailure' => writesBlocked')
  <2>1. CASE C!RecoverDone
    <3>1. writesBlocked' = (pendingLeases > 0) /\ terminalFailure' = FALSE
      BY <2>1 DEF C!RecoverDone
    <3>2. (pendingLeases > 0) \in BOOLEAN
      BY DEF Coordinated, C!CoordinatorTypeOK
    <3> QED BY <3>1, <3>2, Zenon
  <2>2. CASE C!RecoverCall \/ C!RecoverFails
    BY <2>2 DEF C!RecoverCall, C!RecoverFails, Coordinated, GateIsShut, C!CoordinatorTypeOK
  <2> QED BY <2>1, <2>2
<1>4. Asking' = Asking
  BY <1>2 DEF Asking
<1>5. terminalFailure \in BOOLEAN /\ terminalFailure' \in BOOLEAN
  BY <1>2 DEF Coordinated, C!CoordinatorTypeOK
<1>6. C!CoordinatorTypeOK' /\ Counted'
  BY <1>1, <1>2, <1>3, <1>4, <1>5 DEF Coordinated, C!CoordinatorTypeOK, Counted
<1>7. GateIsShut'
  BY <1>2, <1>3 DEF GateIsShut
<1>8. TurnsAreKept'
  BY <1>2, <1>5 DEF Coordinated, TurnsAreKept, Active
<1>9. DrainedIsEmpty'
  BY <1>2 DEF Coordinated, DrainedIsEmpty, C!Quiet
<1> QED BY <1>6, <1>7, <1>8, <1>9 DEF Coordinated

LEMMA CoordinatedNext ==
  ASSUME Coordinated, [C!CoordinatorNext]_C!coordinatorVars PROVE Coordinated'
<1>1. CASE \E w \in Writers : C!WriteEnters(w) \/ C!WriteSleeps(w) \/ C!WriteRefused(w) \/ C!WriteLeaves(w)
  BY <1>1, WriteEntersKeeps, WriteWaitsKeeps, WriteLeavesKeeps
<1>2. CASE \E l \in Leases : \E aborted \in BOOLEAN : C!Acquire(l, aborted)
  BY <1>2, AcquireKeeps
<1>3. CASE \E l \in Leases : C!AbortQueued(l) \/ C!TurnRefused(l) \/ C!Started(l) \/ C!StartFailed(l)
  BY <1>3, AbortQueuedKeeps, TurnRefusedKeeps, StartedKeeps, StartFailedKeeps
<1>4. CASE \E l \in Leases : C!TurnDrains(l) \/ C!LeaseStops(l) \/ C!Stopped(l) \/ C!Release(l)
  BY <1>4, LeaseStepKeeps
<1>5. CASE \E l \in Leases : C!AbortDraining(l) \/ C!StopFailed(l)
  <2>1. PICK l \in Leases : Active(l) /\ C!GiveUp(l)
    BY <1>5 DEF C!AbortDraining, C!StopFailed, Active
  <2> QED BY <2>1, GiveUpKeeps
<1>6. CASE C!RecoverCall \/ C!RecoverDone \/ C!RecoverFails
  BY <1>6, RecoveryKeeps
<1>7. CASE UNCHANGED C!coordinatorVars
  BY <1>7
      DEF C!coordinatorVars, Coordinated, C!CoordinatorTypeOK, Counted, GateIsShut, TurnsAreKept,
              DrainedIsEmpty, Active, C!Quiet, Inside, Asking
<1> QED BY <1>1, <1>2, <1>3, <1>4, <1>5, <1>6, <1>7 DEF C!CoordinatorNext

-----------------------------------------------------------------------------
(* activeWrites, pendingLeases, the gate and the turns never disagree with the calls that
   are under way. *)
THEOREM CoordinatorInvariant == C!CoordinatorSpec => []Coordinated
BY CoordinatedInit, CoordinatedNext, PTL DEF C!CoordinatorSpec

(* No write is counted past the drain, so none is in its operation. *)
LEMMA Excluded == Coordinated => C!LeaseExcludesWrites
<1> SUFFICES ASSUME Coordinated, NEW l \in Leases, C!Quiet(l)
    PROVE \A w \in Writers : write[w] # "in"
  BY DEF C!LeaseExcludesWrites
<1>1. IsFiniteSet(Inside) /\ Cardinality(Inside) = 0
  BY DEF Coordinated, DrainedIsEmpty, Counted
<1>2. Inside = {}
  BY <1>1, FS_EmptySet
<1> QED BY <1>2 DEF Inside

(* From the drain of a lease until its gateway is back no tracked write is in its operation:
   what a backup copies and a restore replaces stands still. *)
THEOREM LeasesAlwaysExcludeWrites == C!CoordinatorSpec => []C!LeaseExcludesWrites
BY CoordinatorInvariant, Excluded, PTL

(* Two leases never drain, stop, hold or start the gateway at the same time. *)
THEOREM AlwaysOneLeaseAtATime == C!CoordinatorSpec => []C!OneLeaseAtATime
<1>1. Coordinated => C!OneLeaseAtATime
  BY OneAtWork DEF C!OneLeaseAtATime, Coordinated, C!CoordinatorTypeOK, C!LeaseStages, Active
<1> QED BY <1>1, CoordinatorInvariant, PTL
-----------------------------------------------------------------------------
(* The coordinator within the desktop. *)

LEMMA CoordinatedInitAgain == C!CoordinatorInit' => Coordinated'
BY CoordinatedInit, PTL

LEMMA CoordinatorSteps ==
  ASSUME Coordinated, C!CoordinatorNext \/ UNCHANGED coordinator
  PROVE  Coordinated'
BY CoordinatedNext DEF coordinator, C!coordinatorVars

(* What the steps of a lease and of a write change. *)
LeaseActs(l) ==
  \/ \E aborted \in BOOLEAN : C!Acquire(l, aborted)
  \/ C!AbortQueued(l) \/ C!TurnRefused(l) \/ C!TurnDrains(l) \/ C!LeaseStops(l)
  \/ C!AbortDraining(l) \/ C!StopFailed(l) \/ C!Stopped(l) \/ C!Release(l)
  \/ C!Started(l) \/ C!StartFailed(l)

WriteActs(w) == C!WriteEnters(w) \/ C!WriteSleeps(w) \/ C!WriteRefused(w) \/ C!WriteLeaves(w)

Places == /\ lease \in [Leases -> C!LeaseStages]
          /\ write \in [Writers -> {"idle", "asleep", "awake", "in"}]

LEMMA PlacesTyped == ASSUME Coordinated PROVE Places
BY DEF Coordinated, C!CoordinatorTypeOK, C!LeaseStages, C!LeaseStages, Places

LEMMA LeaseActsAlone ==
  ASSUME Places, NEW l \in Leases, LeaseActs(l)
  PROVE  /\ \A k \in Leases \ {l} : lease'[k] = lease[k]
         /\ \A w \in Writers : write'[w] = "in" <=> write[w] = "in"
         /\ UNCHANGED recovering /\ C!CoordinatorNext
<1> USE DEF LeaseActs, Places
<1>1. \A k \in Leases \ {l} : lease'[k] = lease[k]
  BY
      DEF C!Acquire, C!AbortQueued, C!TurnRefused, C!TurnDrains, C!LeaseStops, C!AbortDraining, C!StopFailed,
         C!GiveUp, C!Stopped, C!Release, C!Started, C!StartFailed
<1>2. write' = write \/ write' = C!wakeWriters
  BY
      DEF C!Acquire, C!AbortQueued, C!TurnRefused, C!TurnDrains, C!LeaseStops, C!AbortDraining, C!StopFailed,
         C!GiveUp, C!Stopped, C!Release, C!Started, C!StartFailed, C!WakeIfOpen
<1>3. \A w \in Writers : write'[w] = "in" <=> write[w] = "in"
  BY <1>2 DEF C!wakeWriters
<1>4. UNCHANGED recovering
  BY
      DEF C!Acquire, C!AbortQueued, C!TurnRefused, C!TurnDrains, C!LeaseStops, C!AbortDraining, C!StopFailed,
         C!GiveUp, C!Stopped, C!Release, C!Started, C!StartFailed
<1>5. C!CoordinatorNext
  BY DEF C!CoordinatorNext
<1> QED BY <1>1, <1>3, <1>4, <1>5

LEMMA WriteActsAlone ==
  ASSUME Places, NEW w \in Writers, WriteActs(w)
  PROVE  /\ \A v \in Writers \ {w} : write'[v] = write[v]
         /\ \A l \in Leases : lease'[l] = lease[l] \/ (lease[l] = "draining" /\ lease'[l] = "drained")
         /\ UNCHANGED recovering /\ C!CoordinatorNext
<1>1. \A v \in Writers \ {w} : write'[v] = write[v]
  BY DEF WriteActs, Places, C!WriteEnters, C!WriteSleeps, C!WriteRefused, C!WriteLeaves
<1>2. \A l \in Leases : lease'[l] = lease[l] \/ (lease[l] = "draining" /\ lease'[l] = "drained")
  BY DEF WriteActs, Places, C!WriteEnters, C!WriteSleeps, C!WriteRefused, C!WriteLeaves
<1>3. UNCHANGED recovering
  BY DEF WriteActs, C!WriteEnters, C!WriteSleeps, C!WriteRefused, C!WriteLeaves
<1> QED BY <1>1, <1>2, <1>3 DEF C!CoordinatorNext, WriteActs

(* A lease that is past its drain is alone, and no write is in its operation. *)
LEMMA HeldAlone ==
  ASSUME Coordinated, NEW l \in Leases, lease[l] \in {"stopping", "held", "starting"}
  PROVE  /\ \A k \in Leases : lease[k] \in {"stopping", "held", "starting"} => k = l
         /\ \A w \in Writers : write[w] # "in"
<1>1. \A k \in Leases : lease[k] \in {"stopping", "held", "starting"} => k = l
  BY OneAtWork DEF Active
<1>2. C!Quiet(l) /\ (Coordinated => C!LeaseExcludesWrites)
  BY Excluded DEF C!Quiet
<1> QED BY <1>1, <1>2 DEF C!LeaseExcludesWrites

-----------------------------------------------------------------------------
(* The gateway is down while a lease is held. *)

Callers == Leases \cup {Main, Quit}
StopsTyped == stops \in [Callers -> G!StopStages]

(* No lease is asked for before the application runs, and the one whose stop has ended finds
   no child: nobody else starts one then. *)
Shut ==
  /\ app = "starting" => \A l \in Leases : lease[l] = "idle"
  /\ \A l \in Leases : lease[l] = "held" \/ (lease[l] = "stopping" /\ stops[l] = "done") => child = "none"

Guarded == Coordinated /\ recovering = FALSE /\ StopsTyped /\ Shut

(* A stop is over at once if nothing is owned, else it has to wait. *)
LEMMA StopCallEnds ==
  ASSUME StopsTyped, NEW c \in Callers, G!StopCall(c)
  PROVE  /\ StopsTyped' /\ UNCHANGED child
         /\ \A b \in Callers \ {c} : stops'[b] = stops[b]
         /\ stops'[c] = "done" => child = "none"
BY DEF StopsTyped, G!StopCall, G!StopStages

LEMMA ProceedsStops ==
  ASSUME StopsTyped, NEW c \in Callers, Proceeds(c)
  PROVE  /\ StopsTyped' /\ UNCHANGED child
         /\ \A b \in Callers : stops'[b] = "done" => stops[b] = "done" \/ child = "none"
<1>1. CASE G!Ready(c)
  BY <1>1 DEF G!Ready, StopsTyped
<1>2. CASE G!NotReady(c)
  <2>1. G!StopCall(c)
    BY <1>2 DEF G!NotReady
  <2> QED BY <2>1, StopCallEnds
<1>3. CASE G!RolledBack(c)
  BY <1>3 DEF G!RolledBack, StopsTyped, G!StopStages
<1> QED BY <1>1, <1>2, <1>3 DEF Proceeds

LEMMA StopTakenEnds ==
  ASSUME StopsTyped, NEW c \in Callers, G!StopTaken(c)
  PROVE  /\ StopsTyped' /\ UNCHANGED child
         /\ stops'[c] = "idle" /\ \A b \in Callers \ {c} : stops'[b] = stops[b]
BY DEF StopsTyped, G!StopTaken, G!StopStages

(* A step of the gateway's supervisor, the coordinator standing still. *)
LEMMA SupervisorShut ==
  ASSUME Guarded, UNCHANGED coordinator, app' = app \/ app' # "starting", StopsTyped',
         child = "none" => child' = "none",
         \A l \in Leases : stops'[l] = "done" => stops[l] = "done" \/ child' = "none"
  PROVE  Guarded'
<1>1. Coordinated' /\ recovering' = FALSE
  BY CoordinatorSteps DEF Guarded, coordinator
<1>2. Shut'
  BY DEF Guarded, Shut, coordinator
<1> QED BY <1>1, <1>2 DEF Guarded

LEMMA AppStartsShut == ASSUME Guarded, AppStarts PROVE Guarded'
<1>1. Coordinated' /\ recovering' = FALSE
  BY CoordinatorSteps DEF Guarded, AppStarts, coordinator
<1>2. StopsTyped'
  <2>1. CASE Proceeds(Main)
    BY <2>1, ProceedsStops DEF Guarded, Callers
  <2>2. CASE ~Proceeds(Main)
    BY <2>2 DEF AppStarts, Guarded, StopsTyped, G!Spawn, G!StartTaken, gateway
  <2> QED BY <2>1, <2>2
<1>3. Shut'
  BY DEF Guarded, Shut, AppStarts, coordinator
<1> QED BY <1>1, <1>2, <1>3 DEF Guarded

LEMMA AppQuitsShut == ASSUME Guarded, AppQuits PROVE Guarded'
<1>1. UNCHANGED coordinator /\ app' # "starting"
  BY DEF AppQuits
<1>2. CASE G!StopCall(Quit)
  <2>1. /\ StopsTyped' /\ UNCHANGED child
        /\ \A b \in Callers \ {Quit} : stops'[b] = stops[b]
    BY <1>2, StopCallEnds DEF Guarded, Callers
  <2>2. \A l \in Leases : l \in Callers \ {Quit}
    BY DesktopAssumption DEF Callers, Leases, Repair, Quit, Writers
  <2> QED BY <1>1, <2>1, <2>2, SupervisorShut
<1>3. CASE UNCHANGED gateway
  BY <1>1, <1>3, SupervisorShut DEF gateway, Guarded, StopsTyped
<1> QED BY <1>2, <1>3 DEF AppQuits

LEMMA ProcessEventShut == ASSUME Guarded, ProcessEvent PROVE Guarded'
<1>1. UNCHANGED coordinator /\ UNCHANGED app
  BY DEF ProcessEvent
<1>2. CASE G!KillTimesOut
  BY <1>1, <1>2, SupervisorShut DEF G!KillTimesOut, Guarded, StopsTyped, Callers, G!StopStages
<1>3. CASE G!TermTimesOut
  BY <1>1, <1>3, SupervisorShut DEF G!TermTimesOut, Guarded, StopsTyped
<1>4. CASE G!ChildExits
  BY <1>1, <1>4, SupervisorShut DEF G!ChildExits, Guarded, StopsTyped, Callers, G!StopStages
<1>5. CASE G!ChildCloses
  BY <1>1, <1>5, SupervisorShut DEF G!ChildCloses, Guarded, StopsTyped, Callers, G!StopStages
<1> QED BY <1>2, <1>3, <1>4, <1>5 DEF ProcessEvent

LEMMA StartingShut == ASSUME Guarded, NEW l \in Leases, Starting(l) PROVE Guarded'
<1>1. l \in Callers /\ Proceeds(l) /\ UNCHANGED coordinator /\ UNCHANGED app
  BY DEF Starting, Callers
<1>2. /\ StopsTyped' /\ UNCHANGED child
      /\ \A b \in Callers : stops'[b] = "done" => stops[b] = "done" \/ child = "none"
  BY <1>1, ProceedsStops DEF Guarded
<1> QED BY <1>1, <1>2, SupervisorShut DEF Callers

LEMMA CrashShut == ASSUME Guarded, Crash PROVE Guarded'
<1>1. C!CoordinatorInit'
  BY DEF Crash, C!CoordinatorInit, Guarded
<1>2. Coordinated'
  BY <1>1, CoordinatedInitAgain
<1>3. StopsTyped'
  BY DEF Crash, StopsTyped, Guarded, G!StopStages
<1>4. Shut' /\ recovering' = FALSE
  BY DEF Crash, Shut, Guarded
<1> QED BY <1>2, <1>3, <1>4 DEF Guarded

-----------------------------------------------------------------------------
(* A lease or a write moves in the coordinator. *)

LEMMA WriteShut ==
  ASSUME Guarded, NEW w \in Writers, WriteActs(w), UNCHANGED gateway, UNCHANGED app
  PROVE  Guarded'
<1>1. Places
  BY PlacesTyped DEF Guarded
<1>2. /\ \A l \in Leases : lease'[l] = lease[l] \/ (lease[l] = "draining" /\ lease'[l] = "drained")
      /\ UNCHANGED recovering /\ C!CoordinatorNext
  BY <1>1, WriteActsAlone
<1>3. Coordinated' /\ recovering' = FALSE
  BY <1>2, CoordinatorSteps DEF Guarded
<1>4. Shut'
  BY <1>2 DEF Shut, Guarded, gateway
<1> QED BY <1>3, <1>4 DEF Guarded, StopsTyped, gateway

(* One that takes nothing over from its stop, and starts nothing. *)
LEMMA LeaseShut ==
  ASSUME Guarded, NEW l \in Leases, LeaseActs(l), app # "starting", UNCHANGED app, UNCHANGED child,
         StopsTyped', \A k \in Leases \ {l} : stops'[k] = stops[k],
         lease'[l] = "held" \/ (lease'[l] = "stopping" /\ stops'[l] = "done") => child = "none"
  PROVE  Guarded'
<1>1. Places
  BY PlacesTyped DEF Guarded
<1>2. /\ \A k \in Leases \ {l} : lease'[k] = lease[k]
      /\ UNCHANGED recovering /\ C!CoordinatorNext
  BY <1>1, LeaseActsAlone
<1>3. Coordinated' /\ recovering' = FALSE
  BY <1>2, CoordinatorSteps DEF Guarded
<1>4. Shut'
  BY <1>2 DEF Shut, Guarded
<1> QED BY <1>3, <1>4 DEF Guarded

LEMMA AcquireShut ==
  ASSUME Guarded, NEW l \in Leases, NEW aborted \in BOOLEAN, C!Acquire(l, aborted), Running,
         UNCHANGED gateway, UNCHANGED app
  PROVE  Guarded'
<1>1. LeaseActs(l) /\ app # "starting" /\ UNCHANGED child /\ UNCHANGED stops
  BY DEF LeaseActs, Running, gateway
<1>2. lease'[l] \in {"lost", "queued"}
  BY PlacesTyped DEF C!Acquire, Guarded, Places
<1> QED BY <1>1, <1>2, LeaseShut DEF Guarded, StopsTyped

LEMMA LeaseWaitsShut == ASSUME Guarded, NEW l \in Leases, LeaseWaits(l) PROVE Guarded'
<1>0. app # "starting" /\ UNCHANGED app /\ Places
  BY PlacesTyped DEF LeaseWaits, Running, DataButOp, Guarded
<1>1. CASE C!LeaseStops(l) /\ G!StopCall(l)
  <2>1. /\ StopsTyped' /\ UNCHANGED child
        /\ \A b \in Callers \ {l} : stops'[b] = stops[b]
        /\ stops'[l] = "done" => child = "none"
    BY <1>1, StopCallEnds DEF Guarded, Callers
  <2>2. LeaseActs(l) /\ lease'[l] = "stopping"
    BY <1>0, <1>1 DEF LeaseActs, C!LeaseStops, Places
  <2> QED BY <1>0, <2>1, <2>2, LeaseShut DEF Callers
<1>2. CASE UNCHANGED gateway /\ (C!AbortQueued(l) \/ C!AbortDraining(l) \/ C!TurnRefused(l) \/ C!TurnDrains(l))
  <2>1. LeaseActs(l) /\ lease'[l] \in {"idle", "draining"}
    BY <1>0, <1>2
        DEF LeaseActs, Places, C!AbortQueued, C!AbortDraining, C!GiveUp, C!TurnRefused, C!TurnDrains
  <2> QED BY <1>0, <1>2, <2>1, LeaseShut DEF gateway, Guarded, StopsTyped
<1> QED BY <1>1, <1>2 DEF LeaseWaits

LEMMA LeaseStoppedShut == ASSUME Guarded, NEW l \in Leases, LeaseStopped(l) PROVE Guarded'
<1>0. app # "starting" /\ UNCHANGED app /\ Places
  BY PlacesTyped DEF LeaseStopped, Running, DataButOp, Guarded
<1>1. StopsTyped' /\ UNCHANGED child /\ \A k \in Leases \ {l} : stops'[k] = stops[k]
  BY StopTakenEnds DEF LeaseStopped, Guarded, Callers
<1>2. CASE stops[l] = "done" /\ C!Stopped(l)
  <2>1. LeaseActs(l) /\ lease[l] = "stopping" /\ lease'[l] = "held"
    BY <1>0, <1>2 DEF LeaseActs, C!Stopped, Places
  <2>2. child = "none"
    BY <1>2, <2>1 DEF Guarded, Shut
  <2> QED BY <1>0, <1>1, <2>1, <2>2, LeaseShut
<1>3. CASE C!StopFailed(l)
  <2>1. LeaseActs(l) /\ lease'[l] = "idle"
    BY <1>0, <1>3 DEF LeaseActs, C!StopFailed, C!GiveUp, Places
  <2> QED BY <1>0, <1>1, <2>1, LeaseShut
<1> QED BY <1>2, <1>3 DEF LeaseStopped

(* The one start that is not the application's own is that of the lease given back. *)
LEMMA LeaseReleasesShut == ASSUME Guarded, NEW l \in Leases, LeaseReleases(l) PROVE Guarded'
<1>0. app # "starting" /\ UNCHANGED app /\ Places /\ C!Release(l)
  BY PlacesTyped DEF LeaseReleases, Running, DataButOp, Guarded
<1>1. LeaseActs(l) /\ lease[l] = "held" /\ lease'[l] = "starting"
  BY <1>0 DEF LeaseActs, C!Release, Places
<1>2. /\ \A k \in Leases \ {l} : lease'[k] = lease[k]
      /\ UNCHANGED recovering /\ C!CoordinatorNext
  BY <1>0, <1>1, LeaseActsAlone
<1>3. Coordinated' /\ recovering' = FALSE
  BY <1>2, CoordinatorSteps DEF Guarded
<1>4. \A k \in Leases : lease'[k] \notin {"stopping", "held"}
  BY <1>1, <1>2, HeldAlone DEF Guarded
<1>5. UNCHANGED stops
  BY DEF LeaseReleases, G!Spawn, G!SpawnFails
<1> QED BY <1>0, <1>3, <1>4, <1>5 DEF Guarded, Shut, StopsTyped

LEMMA LeaseReleasedShut == ASSUME Guarded, NEW l \in Leases, LeaseReleased(l) PROVE Guarded'
<1>0. app # "starting" /\ UNCHANGED app /\ Places
  BY PlacesTyped DEF LeaseReleased, Running, DataButOp, Guarded
<1>1. UNCHANGED child /\ UNCHANGED stops
  BY DEF LeaseReleased, G!StartTaken
<1>2. LeaseActs(l) /\ lease'[l] = "idle"
  BY <1>0 DEF LeaseReleased, LeaseActs, C!Started, C!StartFailed, Places
<1> QED BY <1>0, <1>1, <1>2, LeaseShut DEF Guarded, StopsTyped

LEMMA OthersShut ==
  ASSUME Guarded, UNCHANGED gateway, UNCHANGED coordinator, UNCHANGED app
  PROVE  Guarded'
BY SupervisorShut DEF Guarded, StopsTyped, gateway

LEMMA GuardedStep == ASSUME Guarded, [Next]_vars PROVE Guarded'
<1>1. CASE AppStarts \/ AppQuits \/ Crash \/ ProcessEvent
  BY <1>1, AppStartsShut, AppQuitsShut, CrashShut, ProcessEventShut
<1>2. CASE \E l \in Leases : LeaseWaits(l) \/ LeaseStopped(l) \/ LeaseReleases(l) \/ LeaseReleased(l) \/ Starting(l)
  BY <1>2, LeaseWaitsShut, LeaseStoppedShut, LeaseReleasesShut, LeaseReleasedShut, StartingShut
<1>3. CASE RepairAsks
  <2>1. Repair \in Leases /\ C!Acquire(Repair, FALSE) /\ UNCHANGED gateway /\ UNCHANGED app /\ Running
    BY <1>3 DEF RepairAsks, Leases
  <2> QED BY <2>1, AcquireShut
<1>4. ASSUME NEW o \in Ops, OpAsks(o) PROVE Guarded'
  <2>1. CASE \E aborted \in BOOLEAN : C!Acquire(o, aborted)
    BY <1>4, <2>1, AcquireShut DEF OpAsks, Leases, DataButOp
  <2>2. CASE UNCHANGED coordinator
    BY <1>4, <2>2, OthersShut DEF OpAsks, DataButOp
  <2> QED BY <1>4, <2>1, <2>2 DEF OpAsks
<1>5. ASSUME NEW o \in Ops, CleanupWrites(o) PROVE Guarded'
  <2>1. WriteActs(o) /\ UNCHANGED gateway /\ UNCHANGED app /\ o \in Writers
    BY <1>5 DEF CleanupWrites, WriteActs, DataButOp, Writers
  <2> QED BY <2>1, WriteShut
<1>6. ASSUME NEW w \in Mutators, MutationWrites(w) PROVE Guarded'
  <2>1. WriteActs(w) /\ UNCHANGED gateway /\ UNCHANGED app /\ w \in Writers
    BY <1>6 DEF MutationWrites, WriteActs, Writers
  <2> QED BY <2>1, WriteShut
<1>7. CASE OpenClawWrites \/ UserAsks \/ (\E o \in Ops : OpWorks(o)) \/ (\E w \in Mutators : MutationWorks(w))
  BY <1>7, OthersShut DEF OpenClawWrites, UserAsks, OpWorks, MutationWorks
<1>8. CASE UNCHANGED vars
  BY <1>8, OthersShut DEF vars
<1> QED BY <1>1, <1>2, <1>3, <1>4, <1>5, <1>6, <1>7, <1>8 DEF Next

LEMMA GuardedInit == Init => Guarded
<1> SUFFICES ASSUME Init PROVE Guarded
  OBVIOUS
<1>1. Coordinated /\ recovering = FALSE
  BY CoordinatedInit DEF Init, C!CoordinatorInit
<1>2. StopsTyped
  BY DEF Init, G!GatewayInit, StopsTyped, Callers, G!StopStages
<1>3. Shut
  BY DEF Init, G!GatewayInit, C!CoordinatorInit, Shut
<1> QED BY <1>1, <1>2, <1>3 DEF Guarded

(* While a lease is held the supervisor owns no gateway and no tracked write is in its operation,
   whatever stops time out, starts fail and roll back, users repair and quit, and crashes come
   between, and whichever of the troubles happen. *)
THEOREM GatewayAlwaysQuiet == Spec => []GatewayQuiet
<1>1. Guarded => GatewayQuiet
  BY HeldAlone DEF GatewayQuiet, Guarded, Shut
<1> QED BY <1>1, GuardedInit, GuardedStep, PTL DEF Spec

-----------------------------------------------------------------------------
(* The records of the operations: what a step makes of the one it moves. *)

OpStates == {"none", "queued", "running", "ended"}
Records == [kind : Kinds, state : OpStates, at : Stages, seen : Contents, copy : Contents,
            todo : SUBSET Files, result : Results, partial : BOOLEAN]
OpsTyped == op \in [Ops -> Records]

(* The operation o alone is moved, and stays of its kind. *)
Moves(o) ==
  /\ OpsTyped' /\ \A p \in Ops \ {o} : op'[p] = op[p]
  /\ op'[o].kind = op[o].kind
Keeps(o) == op'[o].seen = op[o].seen /\ op'[o].copy = op[o].copy

LEMMA RecordsAre ==
  ASSUME NEW r \in Records
  PROVE  /\ r.kind \in Kinds /\ r.state \in OpStates /\ r.at \in Stages /\ r.seen \in Contents
         /\ r.copy \in Contents /\ r.todo \in SUBSET Files /\ r.result \in Results
         /\ r.partial \in BOOLEAN
BY DEF Records

LEMMA AbsentIs == Absent \in Contents /\ \A f \in Files : Absent[f] = 0
BY MaintenanceAssumption DEF Absent, Contents

LEMMA IdleIs ==
  /\ Idle \in Records /\ Idle.at = "idle" /\ Idle.kind = "backup" /\ Idle.state = "none"
  /\ Idle.copy = Absent
<1>1. Idle.at = "idle" /\ Idle.kind = "backup" /\ Idle.state = "none" /\ Idle.copy = Absent
  BY DEF Idle
<1>2. Idle \in Records
  BY AbsentIs DEF Idle, Records, Kinds, OpStates, Stages, Results
<1> QED BY <1>1, <1>2

LEMMA BecomesIs ==
  ASSUME OpsTyped, NEW o \in Ops, NEW r \in Records, Becomes(o, r)
  PROVE  OpsTyped' /\ op'[o] = r /\ \A p \in Ops \ {o} : op'[p] = op[p]
BY DEF OpsTyped, Becomes

LEMMA OverIs ==
  ASSUME OpsTyped, NEW o \in Ops, Over(o)
  PROVE  OpsTyped' /\ op'[o] = Idle /\ \A p \in Ops \ {o} : op'[p] = op[p]
BY BecomesIs, IdleIs DEF Over

LEMMA GoMoves ==
  ASSUME OpsTyped, NEW o \in Ops, NEW stage \in Stages, Go(o, stage)
  PROVE  /\ Moves(o) /\ Keeps(o) /\ op'[o].at = stage /\ op'[o].state = op[o].state
         /\ op'[o].todo = op[o].todo /\ op'[o].result = op[o].result
<1> DEFINE r == op[o]
           q == [r EXCEPT !.at = stage]
<1>1. r \in Records
  BY DEF OpsTyped
<1>2. /\ q \in Records /\ q.at = stage /\ q.kind = r.kind /\ q.state = r.state /\ q.seen = r.seen
      /\ q.copy = r.copy /\ q.todo = r.todo /\ q.result = r.result
  BY <1>1, ZenonT(20) DEF Records
<1>3. Becomes(o, q)
  BY DEF Go
<1> QED BY <1>2, <1>3, BecomesIs DEF Moves, Keeps

LEMMA TodoMoves ==
  ASSUME OpsTyped, NEW o \in Ops, NEW f, Becomes(o, [op[o] EXCEPT !.todo = @ \ {f}])
  PROVE  /\ Moves(o) /\ Keeps(o) /\ op'[o].at = op[o].at /\ op'[o].state = op[o].state
         /\ op'[o].todo = op[o].todo \ {f} /\ op'[o].result = op[o].result
<1> DEFINE r == op[o]
           q == [r EXCEPT !.todo = @ \ {f}]
<1>1. r \in Records
  BY DEF OpsTyped
<1>2. r.todo \ {f} \in SUBSET Files
  BY <1>1, RecordsAre
<1>3. /\ q \in Records /\ q.at = r.at /\ q.kind = r.kind /\ q.state = r.state /\ q.seen = r.seen
      /\ q.copy = r.copy /\ q.todo = r.todo \ {f} /\ q.result = r.result
  BY <1>1, <1>2, ZenonT(20) DEF Records
<1>4. Becomes(o, q)
  OBVIOUS
<1> QED BY <1>3, <1>4, BecomesIs DEF Moves, Keeps

LEMMA GoTodoMoves ==
  ASSUME OpsTyped, NEW o \in Ops, NEW stage \in Stages, NEW todo \in SUBSET Files, GoTodo(o, stage, todo)
  PROVE  /\ Moves(o) /\ Keeps(o) /\ op'[o].at = stage /\ op'[o].state = op[o].state
         /\ op'[o].todo = todo /\ op'[o].result = op[o].result
<1> DEFINE r == op[o]
           q == [r EXCEPT !.at = stage, !.todo = todo]
<1>1. r \in Records
  BY DEF OpsTyped
<1>2. /\ q \in Records /\ q.at = stage /\ q.kind = r.kind /\ q.state = r.state /\ q.seen = r.seen
      /\ q.copy = r.copy /\ q.todo = todo /\ q.result = r.result
  BY <1>1, ZenonT(20) DEF Records
<1>3. Becomes(o, q)
  BY DEF GoTodo
<1> QED BY <1>2, <1>3, BecomesIs DEF Moves, Keeps

LEMMA ResultMoves ==
  ASSUME OpsTyped, NEW o \in Ops, NEW stage \in Stages, NEW result \in Results,
         Becomes(o, [op[o] EXCEPT !.at = stage, !.result = result])
  PROVE  /\ Moves(o) /\ Keeps(o) /\ op'[o].at = stage /\ op'[o].state = op[o].state
         /\ op'[o].result = result
<1> DEFINE r == op[o]
           q == [r EXCEPT !.at = stage, !.result = result]
<1>1. r \in Records
  BY DEF OpsTyped
<1>2. /\ q \in Records /\ q.at = stage /\ q.kind = r.kind /\ q.state = r.state /\ q.seen = r.seen
      /\ q.copy = r.copy /\ q.result = result
  BY <1>1, ZenonT(20) DEF Records
<1>3. Becomes(o, q)
  OBVIOUS
<1> QED BY <1>2, <1>3, BecomesIs DEF Moves, Keeps

LEMMA UndoMoves ==
  ASSUME OpsTyped, NEW o \in Ops, NEW result \in Results, Undo(o, result)
  PROVE  /\ Moves(o) /\ Keeps(o) /\ op'[o].at = "undo" /\ op'[o].state = op[o].state
         /\ op'[o].todo = Present(op[o].copy) /\ op'[o].result = result
<1> DEFINE r == op[o]
           todo == Present(r.copy)
           q == [r EXCEPT !.at = "undo", !.result = result, !.todo = todo]
<1>1. r \in Records /\ todo \in SUBSET Files /\ "undo" \in Stages
  BY DEF OpsTyped, Present, Stages
<1> HIDE DEF todo
<1>2. /\ q \in Records /\ q.at = "undo" /\ q.kind = r.kind /\ q.state = r.state /\ q.seen = r.seen
      /\ q.copy = r.copy /\ q.todo = todo /\ q.result = result
  BY <1>1, ZenonT(20) DEF Records
<1>3. Becomes(o, q)
  BY DEF Undo, todo
<1> QED BY <1>2, <1>3, BecomesIs DEF Moves, Keeps, todo

LEMMA EndMoves ==
  ASSUME OpsTyped, NEW o \in Ops, NEW result \in Results, End(o, result)
  PROVE  /\ Moves(o) /\ Keeps(o) /\ op'[o].at = "done" /\ op'[o].state \in {op[o].state, "ended"}
         /\ op'[o].result = result
<1> DEFINE r == op[o]
           state == IF result \in {"failed", "refused"} \/ r.kind = "reset" THEN r.state ELSE "ended"
           q == [r EXCEPT !.at = "done", !.result = result, !.state = state]
<1>1. r \in Records /\ "done" \in Stages /\ "ended" \in OpStates
  BY DEF OpsTyped, Stages, OpStates
<1>2. state \in OpStates /\ state \in {r.state, "ended"}
  BY <1>1, RecordsAre
<1>3. Becomes(o, q)
  BY DEF End
<1> HIDE DEF state
<1>4. /\ q \in Records /\ q.at = "done" /\ q.kind = r.kind /\ q.state = state /\ q.seen = r.seen
      /\ q.copy = r.copy /\ q.result = result
  BY <1>1, <1>2, ZenonT(20) DEF Records
<1> QED BY <1>2, <1>3, <1>4, BecomesIs DEF Moves, Keeps

LEMMA StateMoves ==
  ASSUME OpsTyped, NEW o \in Ops, NEW stage \in Stages,
         Becomes(o, [op[o] EXCEPT !.state = "running", !.at = stage])
  PROVE  /\ Moves(o) /\ Keeps(o) /\ op'[o].at = stage /\ op'[o].state = "running"
<1> DEFINE r == op[o]
           q == [r EXCEPT !.state = "running", !.at = stage]
<1>1. r \in Records /\ "running" \in OpStates
  BY DEF OpsTyped, OpStates
<1>2. /\ q \in Records /\ q.at = stage /\ q.kind = r.kind /\ q.state = "running" /\ q.seen = r.seen
      /\ q.copy = r.copy
  BY <1>1, ZenonT(20) DEF Records
<1>3. Becomes(o, q)
  OBVIOUS
<1> QED BY <1>2, <1>3, BecomesIs DEF Moves, Keeps

LEMMA SkipMoves ==
  ASSUME OpsTyped, NEW o \in Ops, NEW f,
         Becomes(o, [op[o] EXCEPT !.todo = @ \ {f}, !.partial = TRUE])
  PROVE  /\ Moves(o) /\ Keeps(o) /\ op'[o].at = op[o].at /\ op'[o].state = op[o].state
<1> DEFINE r == op[o]
           todo == r.todo \ {f}
           q == [r EXCEPT !.todo = todo, !.partial = TRUE]
<1>1. r \in Records
  BY DEF OpsTyped
<1>2. todo \in SUBSET Files
  BY <1>1, RecordsAre
<1>3. Becomes(o, q)
  OBVIOUS
<1> HIDE DEF todo
<1>4. /\ q \in Records /\ q.at = r.at /\ q.kind = r.kind /\ q.state = r.state /\ q.seen = r.seen
      /\ q.copy = r.copy
  BY <1>1, <1>2, ZenonT(20) DEF Records
<1> QED BY <1>3, <1>4, BecomesIs DEF Moves, Keeps

LEMMA CopyBegins ==
  ASSUME OpsTyped, NEW o \in Ops,
         Becomes(o, [op[o] EXCEPT !.at = "copy", !.todo = Present(live), !.seen = Absent])
  PROVE  /\ Moves(o) /\ op'[o].at = "copy" /\ op'[o].state = op[o].state
         /\ op'[o].copy = op[o].copy /\ op'[o].todo = Present(live)
<1> DEFINE r == op[o]
           todo == Present(live)
           q == [r EXCEPT !.at = "copy", !.todo = todo, !.seen = Absent]
<1>1. r \in Records /\ todo \in SUBSET Files /\ "copy" \in Stages /\ Absent \in Contents
  BY AbsentIs DEF OpsTyped, Present, Stages
<1>2. Becomes(o, q)
  OBVIOUS
<1> HIDE DEF todo
<1>3. /\ q \in Records /\ q.at = "copy" /\ q.kind = r.kind /\ q.state = r.state
      /\ q.copy = r.copy /\ q.todo = todo
  BY <1>1, ZenonT(20) DEF Records
<1> QED BY <1>2, <1>3, BecomesIs DEF Moves, todo

LEMMA CopyMoves ==
  ASSUME OpsTyped, live \in Contents, NEW o \in Ops, NEW f \in Files,
         Becomes(o, [op[o] EXCEPT !.copy = [@ EXCEPT ![f] = live[f]], !.todo = @ \ {f}])
  PROVE  /\ Moves(o) /\ op'[o].at = op[o].at /\ op'[o].state = op[o].state
         /\ op'[o].todo = op[o].todo \ {f} /\ op'[o].copy = [op[o].copy EXCEPT ![f] = live[f]]
<1> DEFINE r == op[o]
           todo == r.todo \ {f}
           copy == [r.copy EXCEPT ![f] = live[f]]
           q == [r EXCEPT !.copy = copy, !.todo = todo]
<1>1. r \in Records
  BY DEF OpsTyped
<1>2. todo \in SUBSET Files /\ copy \in Contents
  BY <1>1, RecordsAre DEF Contents
<1>3. Becomes(o, q)
  OBVIOUS
<1> HIDE DEF todo, copy
<1>4. /\ q \in Records /\ q.at = r.at /\ q.kind = r.kind /\ q.state = r.state
      /\ q.copy = copy /\ q.todo = todo
  BY <1>1, <1>2, ZenonT(20) DEF Records
<1> QED BY <1>3, <1>4, BecomesIs DEF Moves, todo, copy

LEMMA CommitMoves ==
  ASSUME OpsTyped, NEW o \in Ops, NEW auto \in BOOLEAN,
         Becomes(o, [op[o] EXCEPT !.at = IF auto THEN "retain" ELSE "done", !.copy = Absent,
                       !.state = IF auto THEN @ ELSE "ended", !.result = "completed"])
  PROVE  /\ Moves(o) /\ op'[o].at = (IF auto THEN "retain" ELSE "done")
         /\ op'[o].state = (IF auto THEN op[o].state ELSE "ended")
<1> DEFINE r == op[o]
           at == IF auto THEN "retain" ELSE "done"
           state == IF auto THEN r.state ELSE "ended"
           q == [r EXCEPT !.at = at, !.copy = Absent, !.state = state, !.result = "completed"]
<1>1. r \in Records /\ at \in Stages /\ Absent \in Contents /\ "completed" \in Results
  BY AbsentIs DEF OpsTyped, Stages, Results
<1>2. state \in OpStates
  BY <1>1, RecordsAre DEF OpStates
<1>3. Becomes(o, q)
  OBVIOUS
<1> HIDE DEF at, state
<1>4. q \in Records /\ q.at = at /\ q.kind = r.kind /\ q.state = state
  BY <1>1, <1>2, ZenonT(20) DEF Records
<1> QED BY <1>3, <1>4, BecomesIs DEF Moves, at, state

LEMMA StartIs ==
  ASSUME OpsTyped, live \in Contents, NEW o \in Ops, NEW kind \in Kinds, NEW copy \in Contents,
         StartOperation(o, kind, copy)
  PROVE  /\ OpsTyped' /\ \A p \in Ops \ {o} : op'[p] = op[p]
         /\ op'[o].at = "precheck" /\ op'[o].state = "queued" /\ op'[o].kind = kind /\ op'[o].copy = copy
<1> DEFINE q == [Idle EXCEPT !.kind = kind, !.state = "queued", !.at = "precheck",
                             !.seen = live, !.copy = copy]
<1>1. Idle \in Records /\ "queued" \in OpStates /\ "precheck" \in Stages
  BY IdleIs DEF OpStates, Stages
<1>2. Becomes(o, q)
  BY DEF StartOperation
<1>3. q \in Records /\ q.at = "precheck" /\ q.state = "queued" /\ q.kind = kind /\ q.copy = copy
  BY <1>1, ZenonT(20) DEF Records
<1> QED BY <1>2, <1>3, BecomesIs

LEMMA RestartIs ==
  ASSUME OpsTyped, NEW o \in Ops,
         Becomes(o, [Idle EXCEPT !.kind = op[o].kind, !.state = op[o].state, !.at = "restart",
                       !.result = op[o].result])
  PROVE  Moves(o) /\ op'[o].at = "restart" /\ op'[o].state = op[o].state
<1> DEFINE r == op[o]
           q == [Idle EXCEPT !.kind = r.kind, !.state = r.state, !.at = "restart", !.result = r.result]
<1>1. r \in Records /\ Idle \in Records /\ "restart" \in Stages
  BY IdleIs DEF Stages, OpsTyped
<1>2. r.kind \in Kinds /\ r.state \in OpStates /\ r.result \in Results
  BY <1>1, RecordsAre
<1>3. Becomes(o, q)
  OBVIOUS
<1>4. q \in Records /\ q.at = "restart" /\ q.state = r.state /\ q.kind = r.kind
  BY <1>1, <1>2, ZenonT(20) DEF Records
<1> QED BY <1>3, <1>4, BecomesIs DEF Moves

-----------------------------------------------------------------------------
(* The steps of an operation at work. *)

Outside == {"idle", "precheck", "waiting", "restart", "clear"}
AtWork(o) == op[o].at \notin Outside
Busy(o) == op[o].state \in {"queued", "running"}

DiskTyped == /\ live \in Contents /\ newest \in Contents
             /\ backups \subseteq Backup /\ rollback \in Contents \cup {None}

(* A step of Work finds its operation at work and leaves it there, "done" at the latest. *)
Worked(o) ==
  /\ Moves(o) /\ AtWork(o) /\ op[o].at # "done" /\ op'[o].at \notin Outside
  /\ op'[o].state \in {op[o].state, "running", "ended"}
  /\ op'[o].at # "done" => op'[o].state \in {op[o].state, "running"}

LEMMA StagesAre ==
  /\ {"idle", "precheck", "waiting", "begin", "copy", "unstage", "retain", "retire",
      "prepare", "write", "finish-journal", "finish-sync", "undo", "rewrite",
      "undo-journal", "undo-sync", "delete", "move", "remove", "done", "restart", "clear"} = Stages
  /\ {"none", "completed", "failed", "refused", "cancelled", "needs-recovery"} = Results
BY DEF Stages, Results

LEMMA EndWorked ==
  ASSUME OpsTyped, NEW o \in Ops, NEW result \in Results, End(o, result), AtWork(o), op[o].at # "done"
  PROVE  Worked(o) /\ Keeps(o) /\ op'[o].at = "done" /\ op'[o].result = result
BY EndMoves DEF Worked, Outside

LEMMA GoWorked ==
  ASSUME OpsTyped, NEW o \in Ops, NEW stage \in Stages \ Outside, Go(o, stage), AtWork(o), op[o].at # "done"
  PROVE  Worked(o) /\ Keeps(o) /\ op'[o].at = stage
BY GoMoves DEF Worked

LEMMA ResultWorked ==
  ASSUME OpsTyped, NEW o \in Ops, NEW stage \in Stages \ Outside, NEW result \in Results,
         Becomes(o, [op[o] EXCEPT !.at = stage, !.result = result]), AtWork(o), op[o].at # "done"
  PROVE  Worked(o) /\ Keeps(o) /\ op'[o].at = stage /\ op'[o].result = result
BY ResultMoves DEF Worked

LEMMA TodoWorked ==
  ASSUME OpsTyped, NEW o \in Ops, NEW f, Becomes(o, [op[o] EXCEPT !.todo = @ \ {f}]),
         AtWork(o), op[o].at # "done"
  PROVE  Worked(o)
BY TodoMoves DEF Worked, AtWork

LEMMA BackupWorked ==
  ASSUME OpsTyped, DiskTyped, NEW o \in Ops,
         \/ BackupBegins(o) \/ BackupStops(o) \/ Unstage(o) \/ BackupCommits(o)
         \/ RetireRemoves(o) \/ RetentionEnds(o)
         \/ \E b \in backups : RetireMoves(o, b)
         \/ \E f \in Files : BackupCopies(o, f)
  PROVE  Worked(o)
<1>0. AtWork(o) /\ op[o].at # "done" /\ op[o].kind = "backup"
  BY
      DEF BackupBegins, BackupStops, Unstage, BackupCommits, RetireRemoves, RetentionEnds, RetireMoves,
         BackupCopies, At, AtWork, Outside
<1>s. /\ {"unstage", "retain", "retire"} \subseteq Stages \ Outside
      /\ {"failed", "cancelled", "needs-recovery", "completed"} \subseteq Results
      /\ op[o].result \in Results
  BY RecordsAre DEF Stages, Outside, Results, OpsTyped
<1>1. CASE BackupBegins(o)
  <2>1. CASE Becomes(o, [op[o] EXCEPT !.at = "copy", !.todo = Present(live), !.seen = Absent])
    BY <1>0, <2>1, CopyBegins DEF Worked, Outside
  <2>2. CASE Becomes(o, [op[o] EXCEPT !.at = "unstage", !.result = "failed"])
    BY <1>0, <1>s, <2>2, ResultWorked
  <2> QED BY <1>1, <2>1, <2>2 DEF BackupBegins
<1>2. CASE BackupStops(o)
  BY <1>0, <1>s, <1>2, ResultWorked DEF BackupStops
<1>3. CASE Unstage(o)
  BY <1>0, <1>s, <1>3, EndWorked DEF Unstage
<1>4. CASE BackupCommits(o)
  BY <1>0, <1>4, CommitMoves DEF BackupCommits, Worked, Outside
<1>5. CASE RetireRemoves(o)
  BY <1>0, <1>s, <1>5, EndWorked, GoWorked DEF RetireRemoves
<1>6. CASE RetentionEnds(o)
  BY <1>0, <1>s, <1>6, EndWorked DEF RetentionEnds
<1>7. CASE \E b \in backups : RetireMoves(o, b)
  BY <1>0, <1>s, <1>7, GoWorked DEF RetireMoves
<1>8. CASE \E f \in Files : BackupCopies(o, f)
  <2>1. PICK f \in Files : BackupCopies(o, f)
    BY <1>8
  <2>2. Becomes(o, [op[o] EXCEPT !.copy = [@ EXCEPT ![f] = live[f]], !.todo = @ \ {f}])
    BY <2>1 DEF BackupCopies
  <2> QED BY <1>0, <2>2, CopyMoves DEF Worked, AtWork, DiskTyped
<1> QED BY <1>1, <1>2, <1>3, <1>4, <1>5, <1>6, <1>7, <1>8

LEMMA RestoreWorked ==
  ASSUME OpsTyped, DiskTyped, NEW o \in Ops,
         \/ \E f \in Files : RestoreWrites(o, f) \/ UndoRemoves(o, f) \/ UndoRewrites(o, f)
         \/ RestoreBegins(o) \/ RestorePrepares(o) \/ RestoreStops(o) \/ RestoreWritten(o)
         \/ RestoreUnjournals(o) \/ RestoreSyncs(o) \/ RestoreFinishFails(o)
         \/ UndoRemoved(o) \/ UndoUncopies(o) \/ UndoUnjournals(o) \/ UndoEnds(o) \/ UndoFails(o)
  PROVE  Worked(o) /\ op[o].kind = "restore" /\ Keeps(o)
<1>0. AtWork(o) /\ op[o].at # "done" /\ op[o].kind = "restore"
  BY
      DEF RestoreWrites, UndoRemoves, UndoRewrites, RestoreBegins, RestorePrepares, RestoreStops, RestoreWritten,
         RestoreUnjournals, RestoreSyncs, RestoreFinishFails, UndoRemoved, UndoUncopies, UndoUnjournals, UndoEnds, UndoFails, At, AtWork, Outside
<1>s. /\ {"prepare", "write", "finish-journal", "finish-sync", "undo", "rewrite", "undo-journal", "undo-sync"}
           \subseteq Stages \ Outside
      /\ {"failed", "refused", "cancelled", "needs-recovery", "completed"} \subseteq Results
      /\ op[o].result \in Results
      /\ Present(op[o].copy) \in SUBSET Files /\ Overwritten(o) \in SUBSET Files
  BY RecordsAre DEF Stages, Outside, Results, OpsTyped, Present, Overwritten
<1>u. ASSUME NEW result \in Results, Undo(o, result) PROVE Worked(o) /\ Keeps(o)
  BY <1>0, <1>u, UndoMoves DEF Worked, Outside
<1>g. ASSUME NEW stage \in Stages \ Outside, NEW todo \in SUBSET Files, GoTodo(o, stage, todo)
      PROVE  Worked(o) /\ Keeps(o)
  BY <1>0, <1>g, GoTodoMoves DEF Worked
<1>1. CASE \E f \in Files : RestoreWrites(o, f) \/ UndoRemoves(o, f) \/ UndoRewrites(o, f)
  BY <1>0, <1>1, TodoWorked, TodoMoves DEF RestoreWrites, UndoRemoves, UndoRewrites
<1>2. CASE RestoreBegins(o)
  BY <1>0, <1>s, <1>2, GoWorked, EndWorked DEF RestoreBegins
<1>3. CASE RestorePrepares(o)
  BY <1>0, <1>s, <1>g, <1>3, EndWorked DEF RestorePrepares
<1>r. "cancelled" \in Results /\ "failed" \in Results
  BY <1>s
<1>4. CASE RestoreStops(o)
  <2>1. Undo(o, "cancelled") \/ Undo(o, "failed")
    BY <1>4 DEF RestoreStops
  <2> QED BY <1>0, <1>r, <1>u, <2>1
<1>5. CASE RestoreWritten(o) \/ RestoreUnjournals(o) \/ UndoUncopies(o) \/ UndoUnjournals(o)
  BY <1>0, <1>s, <1>5, GoWorked DEF RestoreWritten, RestoreUnjournals, UndoUncopies, UndoUnjournals
<1>6. CASE RestoreSyncs(o)
  BY <1>0, <1>s, <1>6, EndWorked DEF RestoreSyncs
<1>7. CASE RestoreFinishFails(o)
  <2>1. Undo(o, "failed")
    BY <1>7 DEF RestoreFinishFails
  <2> QED BY <1>0, <1>r, <1>u, <2>1
<1>8. CASE UndoRemoved(o)
  <2>1. GoTodo(o, "rewrite", Overwritten(o)) /\ "rewrite" \in Stages \ Outside
    BY <1>s, <1>8 DEF UndoRemoved
  <2> QED BY <1>0, <1>s, <1>g, <2>1
<1>9. CASE UndoEnds(o) \/ UndoFails(o)
  BY <1>0, <1>s, <1>9, EndWorked DEF UndoEnds, UndoFails
<1> QED BY <1>0, <1>1, <1>2, <1>3, <1>4, <1>5, <1>6, <1>7, <1>8, <1>9

LEMMA ResetWorked ==
  ASSUME OpsTyped, DiskTyped, NEW o \in Ops,
         \/ ResetBegins(o) \/ ResetEnds(o)
         \/ \E f \in Files : ResetDeletes(o, f) \/ ResetSkips(o, f)
  PROVE  Worked(o) /\ op[o].kind = "reset"
<1>0. AtWork(o) /\ op[o].at # "done" /\ op[o].kind = "reset"
  BY DEF ResetBegins, ResetEnds, ResetDeletes, ResetSkips, At, AtWork, Outside
<1>s. /\ "delete" \in Stages \ Outside /\ Present(live) \in SUBSET Files
      /\ {"failed", "cancelled", "needs-recovery", "completed"} \subseteq Results
  BY DEF Stages, Outside, Results, Present
<1>1. CASE ResetBegins(o)
  <2>1. CASE GoTodo(o, "delete", Present(live))
    BY <1>0, <1>s, <2>1, GoTodoMoves DEF Worked
  <2>2. CASE End(o, "failed")
    BY <1>0, <1>s, <2>2, EndWorked
  <2> QED BY <1>1, <2>1, <2>2 DEF ResetBegins
<1>2. CASE ResetEnds(o)
  BY <1>0, <1>s, <1>2, EndWorked DEF ResetEnds
<1>3. CASE \E f \in Files : ResetDeletes(o, f)
  BY <1>0, <1>3, TodoWorked DEF ResetDeletes
<1>4. CASE \E f \in Files : ResetSkips(o, f)
  <2>1. PICK f \in Files : ResetSkips(o, f)
    BY <1>4
  <2>2. CASE Becomes(o, [op[o] EXCEPT !.todo = @ \ {f}, !.partial = TRUE])
    BY <1>0, <2>2, SkipMoves DEF Worked, AtWork
  <2>3. CASE End(o, "failed")
    BY <1>0, <1>s, <2>3, EndWorked
  <2> QED BY <2>1, <2>2, <2>3 DEF ResetSkips
<1> QED BY <1>0, <1>1, <1>2, <1>3, <1>4

LEMMA CleanupWorked ==
  ASSUME OpsTyped, NEW o \in Ops, CleanupBegins(o) \/ CleanupMoves(o) \/ CleanupRemoves(o)
  PROVE  Worked(o) /\ op[o].kind = "cleanup"
<1>0. AtWork(o) /\ op[o].at # "done" /\ op[o].kind = "cleanup"
  BY DEF CleanupBegins, CleanupMoves, CleanupRemoves, At, AtWork, Outside
<1>s. /\ {"move", "remove"} \subseteq Stages \ Outside
      /\ {"failed", "cancelled", "needs-recovery", "completed"} \subseteq Results
  BY DEF Stages, Outside, Results
<1>1. CASE CleanupBegins(o)
  <2>1. CASE Becomes(o, [op[o] EXCEPT !.state = "running", !.at = "move"])
    BY <1>0, <1>s, <2>1, StateMoves DEF Worked
  <2>2. CASE End(o, "failed") \/ End(o, "cancelled")
    BY <1>0, <1>s, <2>2, EndWorked
  <2> QED BY <1>1, <2>1, <2>2 DEF CleanupBegins
<1>2. CASE CleanupMoves(o)
  BY <1>0, <1>s, <1>2, GoWorked DEF CleanupMoves
<1>3. CASE CleanupRemoves(o)
  BY <1>0, <1>s, <1>3, EndWorked DEF CleanupRemoves
<1> QED BY <1>0, <1>1, <1>2, <1>3

LEMMA WorkWorks == ASSUME OpsTyped, DiskTyped, NEW o \in Ops, Work(o) PROVE Worked(o)
<1> QED BY BackupWorked, RestoreWorked, ResetWorked, CleanupWorked DEF Work

-----------------------------------------------------------------------------
(* The steps of a mutation: what they make of the transactions and of the files. *)

Progress == [at : MutationStages, file : Files \cup {None}, version : 0 .. MaxVersion]
Holding == {"verify", "giveback", "unjournal", "create", "check", "drop", "delete", "forget", "restore"}

(* A mutation has a file, and from its staging on to its end a transaction. *)
Workspace ==
  /\ mutation \in [Mutators -> Progress] /\ staged \in [Mutators -> Transactions \cup {None}]
  /\ \A w \in Mutators : ~In(w, "idle") => File(w) \in Files
  /\ \A w \in Mutators : mutation[w].at \in Holding => staged[w] # None

Clocked == clock \in 0 .. MaxVersion
Versions == 0 .. MaxVersion

LEMMA TransactionIs ==
  ASSUME Workspace, NEW w \in Mutators, staged[w] # None
  PROVE  /\ staged[w] \in Transactions /\ staged[w].file \in Files
         /\ staged[w].payload \in Versions /\ staged[w].journal \in BOOLEAN
<1>1. staged[w] \in Transactions
  BY DEF Workspace
<1> QED BY <1>1 DEF Transactions, Versions

LEMMA GotoIs ==
  ASSUME mutation \in [Mutators -> Progress], NEW w \in Mutators, NEW stage \in MutationStages, Goto(w, stage)
  PROVE  /\ mutation' \in [Mutators -> Progress] /\ mutation'[w].at = stage
         /\ mutation'[w].file = mutation[w].file /\ mutation'[w].version = mutation[w].version
         /\ \A v \in Mutators \ {w} : mutation'[v] = mutation[v]
BY DEF Goto, Progress

LEMMA DroppedIs ==
  ASSUME Workspace, NEW w \in Mutators, staged[w] # None, staged' = [staged EXCEPT ![w].payload = 0]
  PROVE  /\ staged' \in [Mutators -> Transactions \cup {None}] /\ staged'[w] \in Transactions
         /\ staged'[w].payload = 0 /\ staged'[w].file = staged[w].file
         /\ staged'[w].journal = staged[w].journal
         /\ \A v \in Mutators \ {w} : staged'[v] = staged[v]
<1>1. staged[w] \in Transactions /\ 0 \in 0 .. MaxVersion
  BY TransactionIs, MaintenanceAssumption
<1> DEFINE q == [staged[w] EXCEPT !.payload = 0]
<1>2. /\ q \in Transactions /\ q.payload = 0 /\ q.file = staged[w].file /\ q.journal = staged[w].journal
  BY <1>1 DEF Transactions
<1>3. staged' = [staged EXCEPT ![w] = q]
  OBVIOUS
<1> HIDE DEF q
<1> QED BY <1>2, <1>3 DEF Workspace

(* The root opened: a file comes back from a stale transaction if it is not there, and the stale
   transactions are gone. *)
LEMMA RecoveredIs ==
  ASSUME Workspace, live \in Contents, RecoverStaged
  PROVE  /\ live' \in Contents
         /\ \A f \in Files : \/ live'[f] = live[f] /\ (live[f] # 0 \/ Back(f) = {})
                             \/ live[f] = 0 /\ \E w \in Back(f) : live'[f] = staged[w].payload
         /\ \A w \in Mutators : staged'[w] = IF Stale(w) THEN None ELSE staged[w]
         /\ staged' \in [Mutators -> Transactions \cup {None}]
<1>1. PICK first \in [Files -> Mutators] :
        /\ \A f \in Files : Back(f) # {} => first[f] \in Back(f)
        /\ live' = [f \in Files |-> IF live[f] = 0 /\ Back(f) # {} THEN staged[first[f]].payload ELSE live[f]]
  BY DEF RecoverStaged, Recovered
<1>2. \A f \in Files : \A w \in Back(f) : staged[w].payload \in Versions
  BY TransactionIs DEF Back, Stale, Staged
<1>3. live' \in Contents
  BY <1>1, <1>2 DEF Contents, Versions
<1>4. ASSUME NEW f \in Files
      PROVE  \/ live'[f] = live[f] /\ (live[f] # 0 \/ Back(f) = {})
             \/ live[f] = 0 /\ \E w \in Back(f) : live'[f] = staged[w].payload
  BY <1>1
<1>5. \A w \in Mutators : staged'[w] = IF Stale(w) THEN None ELSE staged[w]
  BY DEF RecoverStaged
<1>6. staged' \in [Mutators -> Transactions \cup {None}]
  BY DEF RecoverStaged, Workspace
<1> QED BY <1>3, <1>4, <1>5, <1>6

(* A step of the mutation w leaves the others where they are, and goes on. *)
Mutates(w) ==
  /\ Workspace' /\ DiskTyped' /\ Clocked'
  /\ ~In(w, "idle") /\ mutation'[w].at # "idle"
  /\ \A v \in Mutators \ {w} : mutation'[v] = mutation[v]
  /\ UNCHANGED <<diskVars, op>>

LEMMA WorkspaceStays ==
  ASSUME Workspace, NEW w \in Mutators, mutation' \in [Mutators -> Progress],
         staged' \in [Mutators -> Transactions \cup {None}], mutation'[w].file \in Files,
         \A v \in Mutators \ {w} : mutation'[v] = mutation[v],
         \A v \in Mutators \ {w} : staged'[v] = staged[v] \/ mutation[v].at \notin Holding,
         mutation'[w].at \in Holding => staged'[w] # None
  PROVE  Workspace'
BY DEF Workspace, In, File

LEMMA RootMutates ==
  ASSUME Workspace, DiskTyped, Clocked, NEW w \in Mutators, RootOpens(w)
  PROVE  Mutates(w)
<1>1. PICK stage \in {"stage", "rename", "leave"} : Goto(w, stage)
  BY DEF RootOpens
<1>2. /\ mutation' \in [Mutators -> Progress] /\ mutation'[w].at = stage
      /\ mutation'[w].file = mutation[w].file /\ \A v \in Mutators \ {w} : mutation'[v] = mutation[v]
  BY <1>1, GotoIs DEF Workspace, MutationStages
<1>3. UNCHANGED <<newest, clock, diskVars, op>> /\ In(w, "root")
  BY DEF RootOpens, RestOfDisk
<1>4. /\ live' \in Contents /\ staged' \in [Mutators -> Transactions \cup {None}]
      /\ \A v \in Mutators : staged'[v] = staged[v] \/ mutation[v].at \notin Holding
  <2>1. CASE RecoverStaged
    BY <2>1, RecoveredIs DEF DiskTyped, Stale, Holding
  <2>2. CASE UNCHANGED <<live, staged>>
    BY <2>2 DEF DiskTyped, Workspace
  <2> QED BY <2>1, <2>2 DEF RootOpens
<1>5. mutation'[w].file \in Files
  BY <1>2, <1>3 DEF Workspace, In, File
<1>6. Workspace'
  BY <1>2, <1>4, <1>5, WorkspaceStays DEF Holding
<1>7. DiskTyped' /\ Clocked'
  BY <1>3, <1>4 DEF DiskTyped, Clocked, diskVars
<1> QED BY <1>2, <1>3, <1>6, <1>7 DEF Mutates, In

(* One that goes to a stage and touches at most its own transaction. *)
LEMMA GotoMutates ==
  ASSUME Workspace, Clocked, NEW w \in Mutators, ~In(w, "idle"),
         NEW stage \in MutationStages \ {"idle"}, Goto(w, stage),
         staged' \in [Mutators -> Transactions \cup {None}],
         \A v \in Mutators \ {w} : staged'[v] = staged[v],
         stage \in Holding => staged'[w] # None,
         DiskTyped', Clocked', UNCHANGED <<diskVars, op>>
  PROVE  Mutates(w) /\ mutation'[w].at = stage /\ mutation'[w].file = File(w)
         /\ mutation'[w].version = mutation[w].version
<1>1. /\ mutation' \in [Mutators -> Progress] /\ mutation'[w].at = stage
      /\ mutation'[w].file = mutation[w].file /\ \A v \in Mutators \ {w} : mutation'[v] = mutation[v]
      /\ mutation'[w].version = mutation[w].version
  BY GotoIs DEF Workspace
<1>2. mutation'[w].file \in Files
  BY <1>1 DEF Workspace, File
<1>3. Workspace'
  BY <1>1, <1>2, WorkspaceStays
<1> QED BY <1>1, <1>3 DEF Mutates, File

LEMMA LookMutates ==
  ASSUME Workspace, DiskTyped, Clocked, NEW w \in Mutators,
         Verifies(w) \/ Checks(w) \/ ChecksBeforeRename(w)
  PROVE  Mutates(w)
<1>1. /\ UNCHANGED staged /\ DiskTyped' /\ Clocked' /\ UNCHANGED <<diskVars, op>>
      /\ staged' \in [Mutators -> Transactions \cup {None}] /\ ~In(w, "idle")
  BY DEF Verifies, Checks, ChecksBeforeRename, NoFile, DiskTyped, Clocked, Workspace, In, diskVars
<1>2. PICK stage \in {"giveback", "create", "delete", "drop", "restore", "move", "leave"} :
        Goto(w, stage) /\ (stage \in Holding => mutation[w].at \in Holding)
  BY DEF Verifies, Checks, ChecksBeforeRename, In, Holding
<1>3. stage \in Holding => staged'[w] # None
  BY <1>1, <1>2 DEF Workspace
<1>4. stage \in MutationStages \ {"idle"}
  BY DEF MutationStages
<1> QED BY <1>1, <1>2, <1>3, <1>4, GotoMutates

LEMMA StageMutates ==
  ASSUME Workspace, DiskTyped, Clocked, NEW w \in Mutators, StagesTarget(w)
  PROVE  /\ Mutates(w) /\ staged'[w] = [file |-> File(w), payload |-> live[File(w)], journal |-> TRUE]
         /\ mutation'[w].at = (IF live[File(w)] = 0 THEN "unjournal" ELSE "verify")
         /\ mutation'[w].file = File(w)
<1>1. File(w) \in Files /\ ~In(w, "idle")
  BY DEF Workspace, StagesTarget, In
<1> DEFINE t == [file |-> File(w), payload |-> live[File(w)], journal |-> TRUE]
<1>2. t \in Transactions
  BY <1>1 DEF Transactions, DiskTyped, Contents
<1>3. /\ staged' \in [Mutators -> Transactions \cup {None}] /\ staged'[w] = t
      /\ \A v \in Mutators \ {w} : staged'[v] = staged[v]
  BY <1>2 DEF StagesTarget, Workspace
<1>4. t # None
  BY <1>2, NoneIsNoTransaction
<1>5. DiskTyped' /\ Clocked' /\ UNCHANGED <<diskVars, op>>
  BY <1>1, MaintenanceAssumption
      DEF StagesTarget, DiskTyped, Contents, Clocked, RestOfDisk, diskVars
<1>6. Goto(w, IF live[File(w)] = 0 THEN "unjournal" ELSE "verify")
  BY DEF StagesTarget
<1>7. (IF live[File(w)] = 0 THEN "unjournal" ELSE "verify") \in MutationStages \ {"idle"}
  BY DEF MutationStages
<1> HIDE DEF t
<1>8. Mutates(w) /\ mutation'[w].at = (IF live[File(w)] = 0 THEN "unjournal" ELSE "verify")
      /\ mutation'[w].file = File(w)
  BY <1>1, <1>3, <1>4, <1>5, <1>6, <1>7, GotoMutates
<1> QED BY <1>3, <1>8 DEF t

(* A move back. *)
LEMMA MovesBackIs ==
  ASSUME Workspace, DiskTyped, NEW w \in Mutators, mutation[w].at \in Holding, MovesBack(w)
  PROVE  /\ live' \in Contents /\ staged' \in [Mutators -> Transactions \cup {None}] /\ staged'[w] # None
         /\ \A v \in Mutators \ {w} : staged'[v] = staged[v]
         /\ \/ UNCHANGED <<live, staged>> /\ live[File(w)] # 0
            \/ /\ live[File(w)] = 0 /\ live'[File(w)] = staged[w].payload
               /\ \A f \in Files \ {File(w)} : live'[f] = live[f]
               /\ staged'[w].payload = 0 /\ staged'[w].file = staged[w].file
               /\ staged'[w].journal = staged[w].journal
<1>1. staged[w] # None /\ File(w) \in Files /\ staged[w].payload \in Versions
  BY TransactionIs DEF Workspace, Holding, In
<1>2. CASE UNCHANGED <<live, staged>> /\ live[File(w)] # 0
  BY <1>1, <1>2 DEF DiskTyped, Workspace
<1>3. CASE live[File(w)] = 0
  <2>1. live' = [live EXCEPT ![File(w)] = staged[w].payload] /\ staged' = [staged EXCEPT ![w].payload = 0]
    BY <1>3 DEF MovesBack
  <2>2. /\ live' \in Contents /\ live'[File(w)] = staged[w].payload
        /\ \A f \in Files \ {File(w)} : live'[f] = live[f]
    BY <1>1, <2>1 DEF DiskTyped, Contents, Versions
  <2>3. /\ staged' \in [Mutators -> Transactions \cup {None}] /\ staged'[w] \in Transactions
        /\ staged'[w].payload = 0 /\ staged'[w].file = staged[w].file
        /\ staged'[w].journal = staged[w].journal
        /\ \A v \in Mutators \ {w} : staged'[v] = staged[v]
    BY <1>1, <2>1, DroppedIs
  <2> QED BY <1>3, <2>2, <2>3, NoneIsNoTransaction
<1> QED BY <1>2, <1>3 DEF MovesBack

LEMMA GivesBackMutates ==
  ASSUME Workspace, DiskTyped, Clocked, NEW w \in Mutators, GivesBack(w)
  PROVE  Mutates(w) /\ mutation'[w].at = "unjournal" /\ mutation'[w].file = File(w)
<1>1. mutation[w].at \in Holding /\ ~In(w, "idle") /\ MovesBack(w) /\ Goto(w, "unjournal")
  BY DEF GivesBack, In, Holding
<1>2. /\ live' \in Contents /\ staged' \in [Mutators -> Transactions \cup {None}] /\ staged'[w] # None
      /\ \A v \in Mutators \ {w} : staged'[v] = staged[v]
  BY <1>1, MovesBackIs
<1>3. DiskTyped' /\ Clocked' /\ UNCHANGED <<diskVars, op>>
  BY <1>2 DEF GivesBack, DiskTyped, Clocked, RestOfDisk, diskVars
<1>4. "unjournal" \in MutationStages \ {"idle"}
  BY DEF MutationStages
<1> QED BY <1>1, <1>2, <1>3, <1>4, GotoMutates

LEMMA RestoresMutates ==
  ASSUME Workspace, DiskTyped, Clocked, NEW w \in Mutators, Restores(w)
  PROVE  /\ Mutates(w) /\ mutation'[w].at = "forget" /\ mutation'[w].file = File(w)
         /\ staged'[w] # None /\ staged'[w].payload = 0 /\ staged'[w].file = staged[w].file
         /\ \A v \in Mutators \ {w} : staged'[v] = staged[v]
         /\ \/ live[File(w)] = 0 /\ live'[File(w)] = staged[w].payload
               /\ \A f \in Files \ {File(w)} : live'[f] = live[f]
            \/ live[File(w)] # 0 /\ UNCHANGED live
<1>1. mutation[w].at \in Holding /\ ~In(w, "idle") /\ Goto(w, "forget") /\ staged[w] # None
  BY DEF Restores, In, Holding, Workspace
<1>2. /\ live' \in Contents /\ staged' \in [Mutators -> Transactions \cup {None}] /\ staged'[w] # None
      /\ staged'[w].payload = 0 /\ staged'[w].file = staged[w].file
      /\ \A v \in Mutators \ {w} : staged'[v] = staged[v]
      /\ \/ live[File(w)] = 0 /\ live'[File(w)] = staged[w].payload
            /\ \A f \in Files \ {File(w)} : live'[f] = live[f]
         \/ live[File(w)] # 0 /\ UNCHANGED live
  <2>1. CASE live[File(w)] = 0
    BY <1>1, <2>1, MovesBackIs DEF Restores
  <2>2. CASE live[File(w)] # 0
    <3>1. UNCHANGED live /\ staged' = [staged EXCEPT ![w].payload = 0]
      BY <2>2 DEF Restores
    <3> QED BY <1>1, <2>2, <3>1, DroppedIs, NoneIsNoTransaction DEF DiskTyped
  <2> QED BY <2>1, <2>2
<1>3. DiskTyped' /\ Clocked' /\ UNCHANGED <<diskVars, op>>
  BY <1>2 DEF Restores, DiskTyped, Clocked, RestOfDisk, diskVars
<1>4. "forget" \in MutationStages \ {"idle"}
  BY DEF MutationStages
<1>5. Mutates(w) /\ mutation'[w].at = "forget" /\ mutation'[w].file = File(w)
  BY <1>1, <1>2, <1>3, <1>4, GotoMutates
<1> QED BY <1>2, <1>5

LEMMA UnjournalsMutates ==
  ASSUME Workspace, DiskTyped, Clocked, NEW w \in Mutators, Unjournals(w)
  PROVE  /\ Mutates(w) /\ mutation'[w].at = "leave" /\ mutation'[w].file = File(w)
         /\ \A v \in Mutators \ {w} : staged'[v] = staged[v]
         /\ IF staged[w].payload = 0 THEN staged'[w] = None
            ELSE staged'[w] # None /\ staged'[w].file = staged[w].file
<1>1. ~In(w, "idle") /\ Goto(w, "leave") /\ staged[w] \in Transactions
  BY TransactionIs DEF Unjournals, In, Holding, Workspace
<1> DEFINE q == [staged[w] EXCEPT !.journal = FALSE]
<1>2. q \in Transactions /\ q.file = staged[w].file
  BY <1>1 DEF Transactions
<1>3. staged' = [staged EXCEPT ![w] = IF staged[w].payload = 0 THEN None ELSE q]
  BY DEF Unjournals
<1>4. q # None
  BY <1>2, NoneIsNoTransaction
<1> HIDE DEF q
<1>5. /\ staged' \in [Mutators -> Transactions \cup {None}]
      /\ \A v \in Mutators \ {w} : staged'[v] = staged[v]
      /\ IF staged[w].payload = 0 THEN staged'[w] = None
            ELSE staged'[w] # None /\ staged'[w].file = staged[w].file
  BY <1>2, <1>3, <1>4 DEF Workspace
<1>6. DiskTyped' /\ Clocked' /\ UNCHANGED <<diskVars, op>>
  BY DEF Unjournals, DiskTyped, Clocked, NoFile, diskVars
<1>7. "leave" \in MutationStages \ {"idle"} /\ "leave" \notin Holding
  BY DEF MutationStages, Holding
<1>8. Mutates(w) /\ mutation'[w].at = "leave" /\ mutation'[w].file = File(w)
  BY <1>1, <1>5, <1>6, <1>7, GotoMutates
<1> QED BY <1>5, <1>8

LEMMA DropsMutates ==
  ASSUME Workspace, DiskTyped, Clocked, NEW w \in Mutators, Drops(w)
  PROVE  /\ Mutates(w) /\ mutation'[w].at = "forget" /\ mutation'[w].file = File(w)
         /\ staged'[w] # None /\ staged'[w].payload = 0 /\ staged'[w].file = staged[w].file
         /\ \A v \in Mutators \ {w} : staged'[v] = staged[v]
<1>1. /\ ~In(w, "idle") /\ Goto(w, "forget") /\ mutation[w].at \in Holding /\ File(w) \in Files
      /\ staged[w] # None
  BY DEF Drops, In, Holding, Workspace
<1>2. /\ staged' \in [Mutators -> Transactions \cup {None}] /\ staged'[w] # None
      /\ staged'[w].payload = 0 /\ staged'[w].file = staged[w].file
      /\ \A v \in Mutators \ {w} : staged'[v] = staged[v]
  BY <1>1, DroppedIs, NoneIsNoTransaction DEF Drops
<1>3. newest' \in Contents
  BY <1>1, MaintenanceAssumption DEF Drops, DiskTyped, Contents
<1>4. DiskTyped' /\ Clocked' /\ UNCHANGED <<diskVars, op>>
  BY <1>3 DEF Drops, DiskTyped, Clocked, RestOfDisk, diskVars
<1>5. "forget" \in MutationStages \ {"idle"}
  BY DEF MutationStages
<1>6. Mutates(w) /\ mutation'[w].at = "forget" /\ mutation'[w].file = File(w)
  BY <1>1, <1>2, <1>4, <1>5, GotoMutates
<1> QED BY <1>2, <1>6

LEMMA ForgetsMutates ==
  ASSUME Workspace, DiskTyped, Clocked, NEW w \in Mutators, Forgets(w)
  PROVE  /\ Mutates(w) /\ mutation'[w].at = "leave" /\ mutation'[w].file = File(w) /\ staged'[w] = None
         /\ \A v \in Mutators \ {w} : staged'[v] = staged[v]
<1>1. ~In(w, "idle") /\ Goto(w, "leave")
  BY DEF Forgets, In
<1>2. /\ staged' \in [Mutators -> Transactions \cup {None}] /\ staged'[w] = None
      /\ \A v \in Mutators \ {w} : staged'[v] = staged[v]
  BY DEF Forgets, Workspace
<1>3. DiskTyped' /\ Clocked' /\ UNCHANGED <<diskVars, op>>
  BY DEF Forgets, DiskTyped, Clocked, NoFile, diskVars
<1>4. "leave" \in MutationStages \ {"idle"} /\ "leave" \notin Holding
  BY DEF MutationStages, Holding
<1>5. Mutates(w) /\ mutation'[w].at = "leave" /\ mutation'[w].file = File(w)
  BY <1>1, <1>2, <1>3, <1>4, GotoMutates
<1> QED BY <1>2, <1>5

LEMMA CreatesMutates ==
  ASSUME Workspace, DiskTyped, Clocked, NEW w \in Mutators, Creates(w)
  PROVE  /\ Mutates(w) /\ mutation'[w].file = File(w)
         /\ \/ mutation'[w].at = "restore" /\ UNCHANGED <<live, newest>>
            \/ /\ mutation'[w].at = "check" /\ mutation'[w].version # 0 /\ live[File(w)] = 0
               /\ live'[File(w)] = newest'[File(w)]
               /\ \A f \in Files \ {File(w)} : live'[f] = live[f] /\ newest'[f] = newest[f]
<1>1. /\ ~In(w, "idle") /\ mutation[w].at \in Holding /\ File(w) \in Files /\ UNCHANGED staged
      /\ staged[w] # None /\ staged \in [Mutators -> Transactions \cup {None}]
      /\ UNCHANGED <<diskVars, op>>
  BY DEF Creates, In, Holding, Workspace, RestOfDisk
<1>2. CASE live[File(w)] = 0 /\ NextVersion /\ mutation' = [mutation EXCEPT ![w] = [@ EXCEPT !.at = "check", !.version = clock + 1]]
           /\ live' = [live EXCEPT ![File(w)] = clock + 1] /\ newest' = [newest EXCEPT ![File(w)] = clock + 1]
  <2>1. clock + 1 \in 0 .. MaxVersion /\ clock + 1 # 0 /\ Clocked'
    BY <1>2, MaintenanceAssumption DEF NextVersion, Clocked
  <2> DEFINE v == clock + 1
             q == [mutation[w] EXCEPT !.at = "check", !.version = v]
  <2>2. mutation[w] \in Progress /\ "check" \in MutationStages
    BY DEF Workspace, MutationStages
  <2>3. mutation' = [mutation EXCEPT ![w] = q] /\ v \in 0 .. MaxVersion
    BY <1>2, <2>1
  <2> HIDE DEF v
  <2>4. q \in Progress /\ q.at = "check" /\ q.version = v /\ q.file = mutation[w].file
    BY <2>2, <2>3, ZenonT(20) DEF Progress
  <2> HIDE DEF q
  <2>5. /\ mutation' \in [Mutators -> Progress] /\ mutation'[w].at = "check" /\ mutation'[w].file = File(w)
        /\ mutation'[w].version = v /\ \A u \in Mutators \ {w} : mutation'[u] = mutation[u]
    BY <2>3, <2>4 DEF Workspace, File
  <2>6. Workspace'
    BY <1>1, <2>5, WorkspaceStays
  <2>7. /\ live' \in Contents /\ newest' \in Contents /\ live'[File(w)] = newest'[File(w)]
        /\ \A f \in Files \ {File(w)} : live'[f] = live[f] /\ newest'[f] = newest[f]
    BY <1>1, <1>2, <2>1 DEF DiskTyped, Contents
  <2>8. DiskTyped'
    BY <1>1, <2>7 DEF DiskTyped, diskVars
  <2> QED BY <1>1, <1>2, <2>1, <2>5, <2>6, <2>7, <2>8 DEF Mutates, v
<1>3. CASE Goto(w, "restore") /\ UNCHANGED <<live, newest, clock>>
  <2>1. DiskTyped' /\ Clocked'
    BY <1>1, <1>3 DEF DiskTyped, Clocked, diskVars
  <2>2. "restore" \in MutationStages \ {"idle"}
    BY DEF MutationStages
  <2>3. Mutates(w) /\ mutation'[w].at = "restore" /\ mutation'[w].file = File(w)
    BY <1>1, <1>3, <2>1, <2>2, GotoMutates
  <2> QED BY <1>3, <2>3
<1> QED BY <1>2, <1>3 DEF Creates

LEMMA MovesFileIs ==
  ASSUME DiskTyped, NEW from \in Files, NEW to \in Files, from # to, MovesFile(from, to)
  PROVE  /\ live' \in Contents /\ newest' \in Contents
         /\ live'[from] = 0 /\ newest'[from] = 0 /\ live'[to] = live[from] /\ newest'[to] = live[from]
         /\ \A f \in Files \ {from, to} : live'[f] = live[f] /\ newest'[f] = newest[f]
BY MaintenanceAssumption DEF DiskTyped, Contents, MovesFile

LEMMA RenameMutates ==
  ASSUME Workspace, DiskTyped, Clocked, NEW w \in Mutators, NEW g \in Files,
         Renames(w, g) \/ ChecksAfterRename(w, g)
  PROVE  /\ Mutates(w) /\ mutation'[w].file = File(w) /\ UNCHANGED staged
         /\ mutation'[w].at \in {"leave", "identify"}
         /\ \/ UNCHANGED <<live, newest>>
            \/ MovesFile(File(w), g) /\ live[g] = 0
            \/ MovesFile(g, File(w)) /\ live[File(w)] = 0
         /\ g # File(w) /\ File(w) \in Files
<1>1. /\ ~In(w, "idle") /\ File(w) \in Files /\ UNCHANGED staged
      /\ staged \in [Mutators -> Transactions \cup {None}]
      /\ UNCHANGED <<diskVars, op>> /\ UNCHANGED clock /\ g # File(w)
  BY DEF Renames, ChecksAfterRename, In, Workspace, RestOfDisk
<1>2. PICK stage \in {"leave", "identify"} : Goto(w, stage)
  BY DEF Renames, ChecksAfterRename
<1>3. \/ UNCHANGED <<live, newest>>
      \/ MovesFile(File(w), g) /\ live[g] = 0
      \/ MovesFile(g, File(w)) /\ live[File(w)] = 0
  BY DEF Renames, ChecksAfterRename
<1>4. DiskTyped' /\ Clocked'
  <2>1. live' \in Contents /\ newest' \in Contents
    BY <1>1, <1>3, MovesFileIs DEF DiskTyped
  <2> QED BY <1>1, <2>1 DEF DiskTyped, Clocked, diskVars
<1>5. stage \in MutationStages \ {"idle"} /\ stage \notin Holding
  BY DEF MutationStages, Holding
<1>6. Mutates(w) /\ mutation'[w].at = stage /\ mutation'[w].file = File(w)
  BY <1>1, <1>2, <1>4, <1>5, GotoMutates
<1> QED BY <1>1, <1>3, <1>6

LEMMA MutationMutates ==
  ASSUME Workspace, DiskTyped, Clocked, NEW w \in Mutators, MutationStep(w)
  PROVE  Mutates(w)
BY RootMutates, StageMutates, LookMutates, GivesBackMutates, UnjournalsMutates, CreatesMutates, DropsMutates,
   ForgetsMutates, RestoresMutates, RenameMutates DEF MutationStep

-----------------------------------------------------------------------------
(* One operation at a time, where its lease or its tracked write lets it be. *)

LEMMA WorkTyped ==
  ASSUME OpsTyped, DiskTyped, NEW o \in Ops, Work(o)
  PROVE  DiskTyped' /\ UNCHANGED clock
<1>0. op[o] \in Records /\ op[o].copy \in Contents /\ 0 \in 0 .. MaxVersion
  BY RecordsAre, MaintenanceAssumption DEF OpsTyped
<1>1. CASE BackupCommits(o)
  BY <1>0, <1>1 DEF BackupCommits, DiskTyped, Backup
<1>2. CASE \/ BackupBegins(o) \/ BackupStops(o) \/ Unstage(o) \/ RetireRemoves(o) \/ RetentionEnds(o)
           \/ (\E b \in backups : RetireMoves(o, b)) \/ (\E f \in Files : BackupCopies(o, f))
  BY <1>2
      DEF BackupBegins, BackupStops, Unstage, RetireRemoves, RetentionEnds, RetireMoves, BackupCopies,
              OnlyOp, diskVars, DiskTyped
<1>3. CASE \E f \in Files : RestoreWrites(o, f) \/ UndoRemoves(o, f) \/ UndoRewrites(o, f)
  <2>1. PICK f \in Files : RestoreWrites(o, f) \/ UndoRemoves(o, f) \/ UndoRewrites(o, f)
    BY <1>3
  <2>2. live' \in Contents
    BY <1>0, <2>1 DEF RestoreWrites, UndoRemoves, UndoRewrites, HasCopy, DiskTyped, Contents
  <2> QED BY <2>1, <2>2 DEF RestoreWrites, UndoRemoves, UndoRewrites, DiskTyped, diskVars
<1>4. CASE RestoreBegins(o)
  BY <1>4, AbsentIs DEF RestoreBegins, DiskTyped
<1>5. CASE RestorePrepares(o)
  <2>1. rollback' \in Contents \cup {None} /\ newest' \in Contents
    BY <1>0, <1>5 DEF RestorePrepares, DiskTyped, Contents
  <2> QED BY <1>5, <2>1 DEF RestorePrepares, DiskTyped
<1>6. CASE RestoreWritten(o)
  <2>1. newest' \in Contents
    BY <1>0, <1>6 DEF RestoreWritten, DiskTyped, Contents
  <2> QED BY <1>6, <2>1 DEF RestoreWritten, DiskTyped
<1>r. \A copies \in Remains : copies \in Contents \cup {None}
  BY <1>0 DEF Remains, DiskTyped, Contents
<1>7. CASE \/ RestoreStops(o) \/ RestoreUnjournals(o) \/ RestoreSyncs(o) \/ RestoreFinishFails(o)
           \/ UndoRemoved(o) \/ UndoUncopies(o) \/ UndoUnjournals(o) \/ UndoEnds(o) \/ UndoFails(o)
  <2>1. rollback' \in Remains \cup {rollback, None}
    BY <1>7
        DEF RestoreStops, RestoreUnjournals, RestoreSyncs, RestoreFinishFails, UndoRemoved,
            UndoUncopies, UndoUnjournals, UndoEnds, UndoFails, OnlyOp, diskVars
  <2>2. rollback' \in Contents \cup {None}
    BY <1>r, <2>1 DEF DiskTyped
  <2> QED
    BY <1>7, <2>2
        DEF RestoreStops, RestoreUnjournals, RestoreSyncs, RestoreFinishFails, UndoRemoved,
            UndoUncopies, UndoUnjournals, UndoEnds, UndoFails, OnlyOp, diskVars, DiskTyped
<1>8. CASE \E f \in Files : ResetDeletes(o, f)
  BY <1>0, <1>8 DEF ResetDeletes, DiskTyped, Contents, diskVars
<1>9. CASE \/ ResetBegins(o) \/ ResetEnds(o) \/ (\E f \in Files : ResetSkips(o, f))
           \/ CleanupBegins(o) \/ CleanupMoves(o) \/ CleanupRemoves(o)
  BY <1>9
      DEF ResetBegins, ResetEnds, ResetSkips, CleanupBegins, CleanupMoves, CleanupRemoves, OnlyOp, diskVars,
              DiskTyped
<1> QED BY <1>1, <1>2, <1>3, <1>4, <1>5, <1>6, <1>7, <1>8, <1>9 DEF Work

Placed(o) ==
  /\ lease[o] \in {"queued", "draining", "drained", "stopping"} => op[o].at = "waiting"
  /\ lease[o] = "held" => AtWork(o)
  /\ lease[o] = "starting" => op[o].at = "restart"
  /\ lease[o] \notin {"idle", "lost"} => op[o].kind # "cleanup"
  /\ AtWork(o) => IF op[o].kind = "cleanup" THEN write[o] = "in" ELSE lease[o] = "held"

Pausing == {"idle", "done", "restart", "clear"}
Turns ==
  /\ \A o, p \in Ops : Busy(o) /\ Busy(p) => o = p
  /\ \A o \in Ops : op[o].at \notin Pausing => Busy(o)

Control ==
  /\ \A o \in Ops : Placed(o)
  /\ \A w \in Mutators : ~In(w, "idle") => write[w] = "in"
  /\ Turns

(* Nothing of the operation p is touched, but for a drain that ends. *)
Apart(p) ==
  /\ op'[p] = op[p]
  /\ lease'[p] = lease[p] \/ (lease[p] = "draining" /\ lease'[p] = "drained")
  /\ write'[p] = "in" <=> write[p] = "in"

LEMMA ApartPlaced == ASSUME NEW p \in Ops, Placed(p), Apart(p) PROVE Placed(p)'
BY DEF Placed, Apart, AtWork

LEMMA AllApart ==
  ASSUME Control, \A p \in Ops : Apart(p), \A w \in Mutators : ~In(w, "idle")' => write'[w] = "in"
  PROVE  Control'
<1>1. \A p \in Ops : Placed(p)'
  BY ApartPlaced DEF Control
<1>2. Turns'
  BY DEF Control, Turns, Apart, Busy
<1> QED BY <1>1, <1>2 DEF Control

LEMMA OneMoves ==
  ASSUME Control, NEW o \in Ops, \A p \in Ops \ {o} : Apart(p), Placed(o)',
         \A w \in Mutators : In(w, "idle") <=> In(w, "idle")',
         \A w \in Mutators : write'[w] = "in" <=> write[w] = "in",
         Busy(o)' => Busy(o) \/ \A p \in Ops : ~Busy(p), op'[o].at \notin Pausing => Busy(o)'
  PROVE  Control'
<1>1. \A p \in Ops : Placed(p)'
  BY ApartPlaced DEF Control
<1>2. ASSUME NEW p \in Ops, p # o PROVE (Busy(p) <=> Busy(p)') /\ op'[p].at = op[p].at
  BY <1>2 DEF Busy, Apart
<1>3. Turns'
  <2>1. ASSUME NEW p \in Ops, NEW q \in Ops, Busy(p)', Busy(q)' PROVE p = q
    BY <1>2, <2>1 DEF Control, Turns
  <2>2. \A p \in Ops : op'[p].at \notin Pausing => Busy(p)'
    BY <1>2 DEF Control, Turns
  <2> QED BY <2>1, <2>2 DEF Turns
<1> QED BY <1>1, <1>3 DEF Control

Desk == Guarded /\ OpsTyped /\ DiskTyped /\ Clocked /\ Workspace /\ Control

(* The steps that move neither an operation nor a lease nor a write. *)
LEMMA Aside ==
  ASSUME Desk, UNCHANGED <<op, write, lease, mutation>>
  PROVE  OpsTyped' /\ Control'
<1>1. \A p \in Ops : Apart(p)
  BY DEF Apart
<1>2. \A w \in Mutators : ~In(w, "idle")' => write'[w] = "in"
  BY DEF Desk, Control, In
<1> QED BY <1>1, <1>2, AllApart DEF Desk, OpsTyped

LEMMA WorkControlled ==
  ASSUME Desk, NEW o \in Ops, Work(o), UNCHANGED <<write, lease, mutation>>
  PROVE  OpsTyped' /\ Control'
<1>1. Worked(o)
  BY WorkWorks DEF Desk
<1>2. \A p \in Ops \ {o} : Apart(p)
  BY <1>1 DEF Worked, Moves, Apart
<1>3. AtWork(o) /\ AtWork(o)' /\ op'[o].kind = op[o].kind
  BY <1>1 DEF Worked, Moves, AtWork
<1>4. Placed(o)'
  BY <1>3 DEF Desk, Control, Placed, AtWork, Outside
<1>5. Busy(o)
  BY <1>1 DEF Worked, Desk, Control, Turns, AtWork, Outside, Pausing
<1>6. op'[o].at \notin Pausing => Busy(o)'
  BY <1>1, <1>5 DEF Worked, Busy, Pausing
<1>7. \A w \in Mutators : In(w, "idle") <=> In(w, "idle")'
  BY DEF In
<1> QED BY <1>1, <1>2, <1>4, <1>5, <1>6, <1>7, OneMoves DEF Desk, Worked, Moves

LEMMA StartsControlled ==
  ASSUME Desk, NEW o \in Ops, Starts(o), UNCHANGED <<write, lease, mutation>>
  PROVE  OpsTyped' /\ Control' /\ UNCHANGED <<live, newest, clock, diskVars>>
<1>1. PICK kind \in Kinds, copy \in Contents : StartOperation(o, kind, copy)
  <2>1. \A b \in backups : b.copy \in Contents
    BY DEF Desk, DiskTyped, Backup
  <2> QED BY <2>1, AbsentIs DEF Starts, Kinds
<1>2. /\ OpsTyped' /\ \A p \in Ops \ {o} : op'[p] = op[p]
      /\ op'[o].at = "precheck" /\ op'[o].state = "queued"
  BY <1>1, StartIs DEF Desk, DiskTyped
<1>3. op[o].at = "idle" /\ \A p \in Ops : ~Busy(p)
  BY <1>1 DEF StartOperation, Busy
<1>4. \A p \in Ops \ {o} : Apart(p)
  BY <1>2 DEF Apart
<1>5. Placed(o)'
  <2>1. lease[o] \in C!LeaseStages
    BY PlacesTyped DEF Desk, Guarded, Places, Leases
  <2>2. lease[o] \in {"idle", "lost"}
    BY <1>3, <2>1 DEF C!LeaseStages, Desk, Control, Placed, AtWork, Outside
  <2> QED BY <1>2, <2>2 DEF Placed, AtWork, Outside
<1>6. \A w \in Mutators : In(w, "idle") <=> In(w, "idle")'
  BY DEF In
<1>7. Busy(o)'
  BY <1>2 DEF Busy
<1>8. Control'
  BY <1>3, <1>4, <1>5, <1>6, <1>7, OneMoves DEF Desk
<1>9. UNCHANGED <<live, newest, clock, diskVars>>
  BY <1>1 DEF StartOperation, OnlyOp
<1> QED BY <1>2, <1>8, <1>9

(* A lease moves, and takes its operation along. *)
LEMMA OpsAreLeases == \A o \in Ops : o \in Leases /\ o \in Writers /\ o # Repair
BY DesktopAssumption DEF Leases, Writers

LEMMA LeaseAlone ==
  ASSUME Desk, NEW l \in Leases, LeaseActs(l), UNCHANGED mutation
  PROVE  /\ \A p \in Ops \ {l} : lease'[p] = lease[p]
         /\ \A w \in Writers : write'[w] = "in" <=> write[w] = "in"
         /\ \A w \in Mutators : write'[w] = "in" <=> write[w] = "in"
         /\ \A w \in Mutators : In(w, "idle") <=> In(w, "idle")'
         /\ lease[l] \in C!LeaseStages /\ lease \in [Leases -> C!LeaseStages]
<1>1. Places
  BY PlacesTyped DEF Desk, Guarded
<1> QED BY <1>1, LeaseActsAlone DEF Leases, Writers, In, Places

(* It moves alone where the operation stands still. *)
LEMMA LeaseControlled ==
  ASSUME Desk, NEW l \in Leases, LeaseActs(l), UNCHANGED mutation, UNCHANGED op,
         l \in Ops => Placed(l)'
  PROVE  Control'
<1>1. \A p \in Ops \ {l} : Apart(p)
  BY LeaseAlone, OpsAreLeases DEF Apart
<1>2. \A p \in Ops : Placed(p)'
  BY <1>1, ApartPlaced DEF Desk, Control
<1>3. \A w \in Mutators : ~In(w, "idle")' => write'[w] = "in"
  BY LeaseAlone DEF Desk, Control
<1>4. Turns'
  BY DEF Desk, Control, Turns, Busy
<1> QED BY <1>2, <1>3, <1>4 DEF Control

LEMMA OpControlled ==
  ASSUME Desk, NEW o \in Ops, LeaseActs(o), UNCHANGED mutation,
         \A p \in Ops \ {o} : op'[p] = op[p], Placed(o)', Busy(o)' => Busy(o),
         op'[o].at \notin Pausing => Busy(o)'
  PROVE  Control'
<1>1. \A p \in Ops \ {o} : Apart(p)
  BY LeaseAlone, OpsAreLeases DEF Apart
<1>2. \A w \in Mutators : /\ In(w, "idle") <=> In(w, "idle")'
                          /\ write'[w] = "in" <=> write[w] = "in"
  BY LeaseAlone, OpsAreLeases
<1> QED BY <1>1, <1>2, OneMoves DEF Desk

(* An operation whose lease is over is over. *)
LEMMA OverControlled ==
  ASSUME Desk, NEW o \in Ops, LeaseActs(o), UNCHANGED mutation, Over(o), lease'[o] \in {"idle", "lost"}
  PROVE  OpsTyped' /\ Control'
<1>1. OpsTyped' /\ op'[o] = Idle /\ \A p \in Ops \ {o} : op'[p] = op[p]
  BY OverIs DEF Desk
<1>2. Placed(o)' /\ ~Busy(o)' /\ op'[o].at \in Pausing
  BY <1>1, IdleIs DEF Placed, Busy, AtWork, Outside, Pausing
<1> QED BY <1>1, <1>2, OpControlled

LEMMA RejectedControlled ==
  ASSUME Desk, NEW l \in Leases, LeaseActs(l), UNCHANGED mutation, Rejected(l), lease'[l] = "idle"
  PROVE  OpsTyped' /\ Control'
<1>1. CASE l = Repair
  <2>1. UNCHANGED op /\ l \notin Ops
    BY <1>1, OpsAreLeases DEF Rejected, OpOf
  <2> QED BY <2>1, LeaseControlled DEF OpsTyped, Desk
<1>2. CASE l # Repair
  <2>1. l \in Ops /\ Over(l)
    BY <1>2 DEF Rejected, OpOf, Over, Leases
  <2> QED BY <2>1, OverControlled
<1> QED BY <1>1, <1>2

LEMMA OpAsksControlled ==
  ASSUME Desk, NEW o \in Ops, OpAsks(o)
  PROVE  OpsTyped' /\ Control'
<1>0. o \in Leases /\ UNCHANGED mutation /\ op[o].at = "precheck" /\ op[o].kind # "cleanup" /\ Places
  BY OpsAreLeases, PlacesTyped DEF OpAsks, DataButOp, workspaceVars, Desk, Guarded
<1>1. CASE Over(o) /\ UNCHANGED coordinator
  <2>1. OpsTyped' /\ op'[o] = Idle /\ \A p \in Ops \ {o} : op'[p] = op[p]
    BY <1>1, OverIs DEF Desk
  <2>2. \A p \in Ops \ {o} : Apart(p)
    BY <1>1, <2>1 DEF Apart, coordinator
  <2>3. lease[o] \in {"idle", "lost"}
    BY <1>0 DEF C!LeaseStages, Desk, Control, Placed, AtWork, Outside, Places
  <2>4. Placed(o)' /\ ~Busy(o)' /\ op'[o].at \in Pausing
    BY <1>1, <2>1, <2>3, IdleIs DEF Placed, Busy, AtWork, Outside, Pausing, coordinator
  <2>5. \A w \in Mutators : /\ In(w, "idle") <=> In(w, "idle")'
                            /\ write'[w] = "in" <=> write[w] = "in"
    BY <1>0, <1>1 DEF In, coordinator
  <2> QED BY <2>1, <2>2, <2>4, <2>5, OneMoves DEF Desk
<1>2. CASE C!Acquire(o, FALSE) /\ Becomes(o, [op[o] EXCEPT !.state = "running", !.at = "waiting"])
  <2>1. "waiting" \in Stages
    BY DEF Stages
  <2>2. Moves(o) /\ op'[o].at = "waiting" /\ op'[o].state = "running"
    BY <1>2, <2>1, StateMoves DEF Desk
  <2>3. LeaseActs(o) /\ lease'[o] = "queued"
    BY <1>0, <1>2 DEF LeaseActs, C!Acquire, Places
  <2>4. Placed(o)'
    BY <1>0, <2>2, <2>3 DEF Placed, AtWork, Outside, Moves
  <2>5. Busy(o) /\ Busy(o)'
    BY <1>0, <2>2 DEF Busy, Desk, Control, Turns, Pausing
  <2> QED BY <1>0, <2>2, <2>3, <2>4, <2>5, OpControlled DEF Moves
<1>3. CASE C!Acquire(o, TRUE) /\ Over(o)
  <2>1. LeaseActs(o) /\ lease'[o] = "lost"
    BY <1>0, <1>3 DEF LeaseActs, C!Acquire, Places
  <2> QED BY <1>0, <1>3, <2>1, OverControlled
<1> QED BY <1>1, <1>2, <1>3 DEF OpAsks

LEMMA RepairControlled == ASSUME Desk, RepairAsks PROVE OpsTyped' /\ Control'
<1>1. Repair \in Leases /\ LeaseActs(Repair) /\ UNCHANGED mutation /\ UNCHANGED op /\ Repair \notin Ops
  BY OpsAreLeases DEF RepairAsks, LeaseActs, Leases, data, maintenanceVars, workspaceVars
<1> QED BY <1>1, LeaseControlled DEF OpsTyped, Desk

LEMMA LeaseWaitsControlled ==
  ASSUME Desk, NEW l \in Leases, LeaseWaits(l)
  PROVE  OpsTyped' /\ Control'
<1>0. UNCHANGED mutation /\ Places
  BY PlacesTyped DEF LeaseWaits, DataButOp, workspaceVars, Desk, Guarded
<1>1. CASE (C!AbortQueued(l) \/ C!AbortDraining(l) \/ C!TurnRefused(l)) /\ Rejected(l)
  <2>1. LeaseActs(l) /\ lease'[l] = "idle"
    BY <1>0, <1>1 DEF LeaseActs, Places, C!AbortQueued, C!AbortDraining, C!GiveUp, C!TurnRefused
  <2> QED BY <1>0, <1>1, <2>1, RejectedControlled
<1>2. CASE (C!TurnDrains(l) \/ C!LeaseStops(l)) /\ UNCHANGED op
  <2>1. LeaseActs(l) /\ lease[l] \in {"queued", "drained"} /\ lease'[l] \in {"draining", "stopping"}
    BY <1>0, <1>2 DEF LeaseActs, Places, C!TurnDrains, C!LeaseStops, C!HasTurn
  <2>2. l \in Ops => Placed(l)'
    BY <1>2, <2>1 DEF Desk, Control, Placed, AtWork, Outside
  <2> QED BY <1>0, <1>2, <2>1, <2>2, LeaseControlled DEF OpsTyped, Desk
<1> QED BY <1>1, <1>2 DEF LeaseWaits

LEMMA LeaseStoppedControlled ==
  ASSUME Desk, NEW l \in Leases, LeaseStopped(l)
  PROVE  OpsTyped' /\ Control'
<1>0. UNCHANGED mutation /\ Places
  BY PlacesTyped DEF LeaseStopped, DataButOp, workspaceVars, Desk, Guarded
<1>1. CASE C!StopFailed(l) /\ Rejected(l)
  <2>1. LeaseActs(l) /\ lease'[l] = "idle"
    BY <1>0, <1>1 DEF LeaseActs, Places, C!StopFailed, C!GiveUp
  <2> QED BY <1>0, <1>1, <2>1, RejectedControlled
<1>2. CASE C!Stopped(l) /\ OpOf(l, [op[l] EXCEPT !.at = "begin"])
  <2>1. LeaseActs(l) /\ lease[l] = "stopping" /\ lease'[l] = "held"
    BY <1>0, <1>2 DEF LeaseActs, Places, C!Stopped
  <2>2. CASE l = Repair
    <3>1. UNCHANGED op /\ l \notin Ops
      BY <1>2, <2>2, OpsAreLeases DEF OpOf
    <3> QED BY <1>0, <2>1, <3>1, LeaseControlled DEF OpsTyped, Desk
  <2>3. CASE l # Repair
    <3>1. l \in Ops /\ Go(l, "begin") /\ "begin" \in Stages
      BY <1>2, <2>3 DEF OpOf, Leases, Go, Stages
    <3>2. Moves(l) /\ op'[l].at = "begin" /\ op'[l].state = op[l].state
      BY <3>1, GoMoves DEF Desk
    <3>3. op[l].at = "waiting" /\ op[l].kind # "cleanup"
      BY <2>1, <3>1 DEF Desk, Control, Placed
    <3>4. Placed(l)'
      BY <2>1, <3>2, <3>3 DEF Placed, AtWork, Outside, Moves
    <3>5. Busy(l) /\ Busy(l)'
      BY <3>1, <3>2, <3>3 DEF Busy, Desk, Control, Turns, Pausing
    <3> QED BY <1>0, <2>1, <3>1, <3>2, <3>4, <3>5, OpControlled DEF Moves
  <2> QED BY <2>2, <2>3
<1> QED BY <1>1, <1>2 DEF LeaseStopped

LEMMA LeaseReleasesControlled ==
  ASSUME Desk, NEW l \in Leases, LeaseReleases(l)
  PROVE  OpsTyped' /\ Control'
<1>0. UNCHANGED mutation /\ Places
  BY PlacesTyped DEF LeaseReleases, DataButOp, workspaceVars, Desk, Guarded
<1>1. LeaseActs(l) /\ lease[l] = "held" /\ lease'[l] = "starting"
  BY <1>0 DEF LeaseReleases, LeaseActs, Places, C!Release
<1>2. CASE l = Repair
  <2>1. UNCHANGED op /\ l \notin Ops
    BY <1>2, OpsAreLeases DEF LeaseReleases, OpOf
  <2> QED BY <1>0, <1>1, <2>1, LeaseControlled DEF OpsTyped, Desk
<1>3. CASE l # Repair
  <2>1. l \in Ops /\ Becomes(l, [Idle EXCEPT !.kind = op[l].kind, !.state = op[l].state, !.at = "restart",
                                   !.result = op[l].result])
    BY <1>3 DEF LeaseReleases, OpOf, Leases
  <2>2. Moves(l) /\ op'[l].at = "restart" /\ op'[l].state = op[l].state
    BY <2>1, RestartIs DEF Desk
  <2>3. Placed(l)'
    BY <1>1, <2>1, <2>2 DEF Desk, Control, Placed, AtWork, Outside, Moves
  <2>4. (Busy(l)' => Busy(l)) /\ op'[l].at \in Pausing
    BY <2>2 DEF Busy, Pausing
  <2> QED BY <1>0, <1>1, <2>1, <2>2, <2>3, <2>4, OpControlled DEF Moves
<1> QED BY <1>2, <1>3

LEMMA LeaseReleasedControlled ==
  ASSUME Desk, NEW l \in Leases, LeaseReleased(l)
  PROVE  OpsTyped' /\ Control'
<1>0. UNCHANGED mutation /\ Places
  BY PlacesTyped DEF LeaseReleased, DataButOp, workspaceVars, Desk, Guarded
<1>1. LeaseActs(l) /\ lease[l] = "starting" /\ lease'[l] = "idle"
  BY <1>0 DEF LeaseReleased, LeaseActs, Places, C!Started, C!StartFailed
<1>2. CASE Rejected(l)
  BY <1>0, <1>1, <1>2, RejectedControlled
<1>3. CASE OpOf(l, [op[l] EXCEPT !.at = "clear"]) /\ l # Repair
  <2>1. l \in Ops /\ Go(l, "clear") /\ "clear" \in Stages
    BY <1>3 DEF OpOf, Leases, Go, Stages
  <2>2. Moves(l) /\ op'[l].at = "clear" /\ op'[l].state = op[l].state
    BY <2>1, GoMoves DEF Desk
  <2>3. Placed(l)' /\ (Busy(l)' => Busy(l)) /\ op'[l].at \in Pausing
    BY <1>1, <2>2 DEF Placed, AtWork, Outside, Busy, Pausing
  <2> QED BY <1>0, <1>1, <2>1, <2>2, <2>3, OpControlled DEF Moves
<1> QED BY <1>2, <1>3 DEF LeaseReleased, Rejected, OpOf

(* A write moves, with the cleanup or the mutation in it. *)
LEMMA CleanupWritesControlled ==
  ASSUME Desk, NEW o \in Ops, CleanupWrites(o)
  PROVE  OpsTyped' /\ Control'
<1>0. o \in Writers /\ UNCHANGED mutation /\ Places /\ WriteActs(o) /\ op[o].kind = "cleanup"
  BY OpsAreLeases, PlacesTyped DEF CleanupWrites, DataButOp, workspaceVars, Desk, Guarded, WriteActs
<1>1. /\ \A v \in Writers \ {o} : write'[v] = write[v]
      /\ \A l \in Leases : lease'[l] = lease[l] \/ (lease[l] = "draining" /\ lease'[l] = "drained")
  BY <1>0, WriteActsAlone
<1>2. \A w \in Mutators : /\ In(w, "idle") <=> In(w, "idle")'
                          /\ write'[w] = "in" <=> write[w] = "in"
  BY <1>0, <1>1, DesktopAssumption DEF In, Writers
<1>3. lease[o] \in {"idle", "lost"} /\ lease'[o] = lease[o]
  BY <1>0, <1>1, OpsAreLeases DEF Desk, Control, Placed, Places, C!LeaseStages
<1>4. ASSUME \A p \in Ops \ {o} : op'[p] = op[p], Placed(o)', Busy(o)' => Busy(o),
             op'[o].at \notin Pausing => Busy(o)'
      PROVE  Control'
  <2>1. \A p \in Ops \ {o} : Apart(p)
    BY <1>1, <1>4, OpsAreLeases DEF Apart
  <2> QED BY <1>2, <1>4, <2>1, OneMoves DEF Desk
<1>5. CASE Over(o)
  <2>1. OpsTyped' /\ op'[o] = Idle /\ \A p \in Ops \ {o} : op'[p] = op[p]
    BY <1>5, OverIs DEF Desk
  <2>2. Placed(o)' /\ ~Busy(o)' /\ op'[o].at \in Pausing
    BY <1>3, <2>1, IdleIs DEF Placed, Busy, AtWork, Outside, Pausing
  <2> QED BY <1>4, <2>1, <2>2
<1>6. CASE op[o].at = "precheck" /\ C!WriteEnters(o) /\ Go(o, "begin")
  <2>1. "begin" \in Stages
    BY DEF Stages
  <2>2. Moves(o) /\ op'[o].at = "begin" /\ op'[o].state = op[o].state
    BY <1>6, <2>1, GoMoves DEF Desk
  <2>3. write'[o] = "in"
    BY <1>0, <1>6 DEF C!WriteEnters, Places
  <2>4. Placed(o)'
    BY <1>0, <1>3, <2>2, <2>3 DEF Placed, AtWork, Moves
  <2>5. Busy(o) /\ Busy(o)'
    BY <1>6, <2>2 DEF Busy, Desk, Control, Turns, Pausing
  <2> QED BY <1>4, <2>2, <2>4, <2>5 DEF Moves
<1>7. CASE op[o].at = "precheck" /\ UNCHANGED op
  <2>1. Placed(o)'
    BY <1>3, <1>7 DEF Placed, AtWork, Outside
  <2>2. OpsTyped' /\ (Busy(o) <=> Busy(o)') /\ (op'[o].at \notin Pausing => Busy(o))
    BY <1>7 DEF Desk, OpsTyped, Busy, Control, Turns
  <2> QED BY <1>4, <1>7, <2>1, <2>2
<1> QED BY <1>5, <1>6, <1>7 DEF CleanupWrites

LEMMA BeginsIs ==
  ASSUME Desk, NEW w \in Mutators, NEW f \in Files, In(w, "idle"), Begins(w, f), UNCHANGED staged
  PROVE  Workspace' /\ mutation'[w].at = "root" /\ mutation'[w].file = f
         /\ \A v \in Mutators \ {w} : mutation'[v] = mutation[v]
<1>1. PICK version \in {0, live[f]} \cup {staged[v].payload : v \in Staged} :
        mutation' = [mutation EXCEPT ![w] = [at |-> "root", file |-> f, version |-> version]]
  BY DEF Begins
<1>2. version \in 0 .. MaxVersion
  BY TransactionIs, MaintenanceAssumption DEF Desk, DiskTyped, Contents, Staged, Versions
<1> DEFINE q == [at |-> "root", file |-> f, version |-> version]
<1>3. q \in Progress
  BY <1>2 DEF Progress, MutationStages
<1> HIDE DEF q
<1>4. /\ mutation' \in [Mutators -> Progress] /\ mutation'[w] = q
      /\ \A v \in Mutators \ {w} : mutation'[v] = mutation[v]
  BY <1>1, <1>3 DEF Desk, Workspace, q
<1>5. q.at = "root" /\ q.file = f
  BY DEF q
<1>6. Workspace'
  BY <1>4, <1>5, WorkspaceStays DEF Desk, Workspace, Holding
<1> QED BY <1>4, <1>5, <1>6

LEMMA MutationWritesControlled ==
  ASSUME Desk, NEW w \in Mutators, MutationWrites(w)
  PROVE  Control' /\ Workspace'
<1>0. w \in Writers /\ Places /\ WriteActs(w) /\ UNCHANGED <<op, staged>> /\ w \notin Ops
  BY PlacesTyped, DesktopAssumption DEF MutationWrites, NoFile, Desk, Guarded, WriteActs, Writers
<1>1. /\ \A v \in Writers \ {w} : write'[v] = write[v]
      /\ \A l \in Leases : lease'[l] = lease[l] \/ (lease[l] = "draining" /\ lease'[l] = "drained")
  BY <1>0, WriteActsAlone
<1>2. \A p \in Ops : Apart(p)
  BY <1>0, <1>1, OpsAreLeases DEF Apart
<1>3. ASSUME \A v \in Mutators \ {w} : mutation'[v] = mutation[v], ~In(w, "idle")' => write'[w] = "in"
      PROVE  Control'
  <2>1. \A v \in Mutators : ~In(v, "idle")' => write'[v] = "in"
    BY <1>1, <1>3 DEF Desk, Control, In, Writers
  <2> QED BY <1>2, <2>1, AllApart DEF Desk
<1>4. CASE C!WriteEnters(w) /\ In(w, "idle") /\ \E f \in Files : Begins(w, f)
  <2>1. write'[w] = "in"
    BY <1>0, <1>4 DEF C!WriteEnters, Places
  <2> QED BY <1>0, <1>3, <1>4, <2>1, BeginsIs
<1>5. CASE In(w, "idle") /\ UNCHANGED mutation
  BY <1>0, <1>3, <1>5 DEF In, Desk, Workspace, File
<1>6. CASE In(w, "leave") /\ C!WriteLeaves(w) /\ MutationOver(w)
  <2>1. /\ mutation' \in [Mutators -> Progress] /\ mutation'[w] = NoMutation /\ mutation'[w].at = "idle"
        /\ \A v \in Mutators \ {w} : mutation'[v] = mutation[v]
    BY <1>6, MaintenanceAssumption
        DEF Desk, Workspace, MutationOver, Progress, MutationStages, NoMutation
  <2>2. Workspace'
    BY <1>0, <2>1 DEF Desk, Workspace, In, File, Holding
  <2> QED BY <1>3, <2>1, <2>2 DEF In
<1> QED BY <1>4, <1>5, <1>6 DEF MutationWrites

LEMMA ResetClearsControlled ==
  ASSUME Desk, NEW o \in Ops, ResetClears(o), UNCHANGED <<write, lease, mutation>>
  PROVE  OpsTyped' /\ Control'
<1>1. OpsTyped' /\ op'[o] = Idle /\ \A p \in Ops \ {o} : op'[p] = op[p]
  BY OverIs DEF Desk, ResetClears
<1>2. \A p \in Ops \ {o} : Apart(p)
  BY <1>1 DEF Apart
<1>3. lease[o] \in {"idle", "lost"}
  BY PlacesTyped, OpsAreLeases
     DEF ResetClears, At, C!LeaseStages, Desk, Guarded, Control, Placed, AtWork, Outside, Places
<1>4. Placed(o)' /\ ~Busy(o)' /\ op'[o].at \in Pausing
  BY <1>1, <1>3, IdleIs DEF Placed, Busy, AtWork, Outside, Pausing
<1>5. \A w \in Mutators : /\ In(w, "idle") <=> In(w, "idle")'
                          /\ write'[w] = "in" <=> write[w] = "in"
  BY DEF In
<1> QED BY <1>1, <1>2, <1>4, <1>5, OneMoves DEF Desk

LEMMA CrashControlled == ASSUME Desk, Crash PROVE OpsTyped' /\ Control' /\ Workspace'
<1>1. \A o \in Ops : op'[o] = Idle /\ lease'[o] = "idle"
  BY OpsAreLeases DEF Crash
<1>2. OpsTyped'
  BY IdleIs DEF Crash, OpsTyped
<1>3. \A w \in Mutators : mutation'[w].at = "idle"
  BY DEF Crash, NoMutation
<1>4. \A o \in Ops : Placed(o)' /\ ~Busy(o)' /\ op'[o].at \in Pausing
  BY <1>1, IdleIs DEF Placed, Busy, AtWork, Outside, Pausing
<1>5. Control'
  BY <1>3, <1>4 DEF Control, Turns, In
<1>6. mutation' \in [Mutators -> Progress]
  BY MaintenanceAssumption DEF Crash, NoMutation, Progress, MutationStages
<1>7. Workspace'
  BY <1>3, <1>6 DEF Workspace, Crash, Desk, In, File, Holding
<1> QED BY <1>2, <1>5, <1>7

LEMMA WorkspaceSame == ASSUME Workspace, UNCHANGED <<mutation, staged>> PROVE Workspace'
BY DEF Workspace, In, File

LEMMA DiskSame ==
  ASSUME DiskTyped, Clocked, UNCHANGED <<live, newest, clock, diskVars>>
  PROVE  DiskTyped' /\ Clocked'
BY DEF DiskTyped, Clocked, diskVars

LEMMA GatewayWritesTyped ==
  ASSUME DiskTyped, Clocked, NEW f \in Files, GatewayWrites(f)
  PROVE  /\ DiskTyped' /\ Clocked' /\ UNCHANGED <<diskVars, op, mutation, staged>>
         /\ live'[f] = newest'[f] /\ \A g \in Files \ {f} : live'[g] = live[g] /\ newest'[g] = newest[g]
<1>1. clock + 1 \in 0 .. MaxVersion /\ Clocked'
  BY MaintenanceAssumption DEF NextVersion, Clocked, GatewayWrites
<1>2. /\ live' \in Contents /\ newest' \in Contents /\ live'[f] = newest'[f]
      /\ \A g \in Files \ {f} : live'[g] = live[g] /\ newest'[g] = newest[g]
  BY <1>1 DEF GatewayWrites, DiskTyped, Contents
<1>3. UNCHANGED <<diskVars, op, mutation, staged>>
  BY DEF GatewayWrites, RestOfDisk, workspaceVars
<1> QED BY <1>1, <1>2, <1>3 DEF DiskTyped, diskVars

LEMMA ReadTyped ==
  ASSUME Workspace, DiskTyped, Clocked, ReadOpensRoot
  PROVE  DiskTyped' /\ Clocked' /\ Workspace' /\ UNCHANGED <<newest, clock, mutation, diskVars, op>>
<1>1. UNCHANGED <<newest, clock, mutation, diskVars, op>>
  BY DEF ReadOpensRoot, RestOfDisk
<1>2. /\ live' \in Contents /\ staged' \in [Mutators -> Transactions \cup {None}]
      /\ \A v \in Mutators : staged'[v] = staged[v] \/ mutation[v].at \notin Holding
  BY RecoveredIs DEF ReadOpensRoot, DiskTyped, Stale, Holding
<1>3. Workspace'
  BY <1>1, <1>2 DEF Workspace, In, File
<1> QED BY <1>1, <1>2, <1>3 DEF DiskTyped, Clocked, diskVars

LEMMA DeskStep == ASSUME Desk, [Next]_vars PROVE Desk'
<1>0. Guarded'
  BY GuardedStep DEF Desk
<1> DEFINE Rest == OpsTyped' /\ DiskTyped' /\ Clocked' /\ Workspace' /\ Control'
<1> SUFFICES Rest
  BY <1>0 DEF Desk
<1>a. ASSUME OpsTyped', Control', UNCHANGED <<mutation, staged>>, UNCHANGED <<live, newest, clock, diskVars>>
      PROVE  Rest
  BY <1>a, WorkspaceSame, DiskSame DEF Desk
<1>1. CASE AppStarts \/ AppQuits \/ ProcessEvent \/ UNCHANGED vars
           \/ \E l \in Leases : Starting(l)
  <2>1. UNCHANGED <<op, write, lease, mutation>>
    BY <1>1
        DEF AppStarts, AppQuits, ProcessEvent, Starting, vars, coordinator, data, maintenanceVars, workspaceVars
  <2>2. UNCHANGED <<mutation, staged>> /\ UNCHANGED <<live, newest, clock, diskVars>>
    BY <1>1
        DEF AppStarts, AppQuits, ProcessEvent, Starting, vars, data, maintenanceVars, workspaceVars
  <2> QED BY <1>a, <2>1, <2>2, Aside
<1>2. CASE Crash
  <2>1. UNCHANGED <<live, newest, clock, diskVars>>
    BY <1>2 DEF Crash
  <2> QED BY <1>2, <2>1, CrashControlled, DiskSame DEF Desk
<1>3. CASE OpenClawWrites
  <2>1. PICK f \in Files : GatewayWrites(f)
    BY <1>3 DEF OpenClawWrites
  <2>2. DiskTyped' /\ Clocked' /\ UNCHANGED <<diskVars, op, mutation, staged>>
    BY <2>1, GatewayWritesTyped DEF Desk
  <2>3. UNCHANGED <<op, write, lease, mutation>>
    BY <1>3, <2>2 DEF OpenClawWrites, coordinator
  <2> QED BY <2>2, <2>3, Aside, WorkspaceSame DEF Desk
<1>4. CASE UserAsks
  <2>0. UNCHANGED <<write, lease>>
    BY <1>4 DEF UserAsks, coordinator
  <2>1. ASSUME NEW o \in Ops, Starts(o), UNCHANGED workspaceVars PROVE Rest
    <3>1. UNCHANGED <<mutation, staged>>
      BY <2>1 DEF workspaceVars
    <3> QED BY <1>a, <2>0, <2>1, <3>1, StartsControlled
  <2>2. CASE ReadOpensRoot
    <3>1. DiskTyped' /\ Clocked' /\ Workspace' /\ UNCHANGED <<newest, clock, mutation, diskVars, op>>
      BY <2>2, ReadTyped DEF Desk
    <3> QED BY <2>0, <3>1, Aside
  <2> QED BY <1>4, <2>1, <2>2 DEF UserAsks
<1>5. CASE RepairAsks
  <2>1. UNCHANGED <<mutation, staged>> /\ UNCHANGED <<live, newest, clock, diskVars>>
    BY <1>5 DEF RepairAsks, data, maintenanceVars, workspaceVars
  <2> QED BY <1>5, <1>a, <2>1, RepairControlled
<1>6. ASSUME NEW l \in Leases, LeaseWaits(l) \/ LeaseStopped(l) \/ LeaseReleases(l) \/ LeaseReleased(l)
      PROVE  Rest
  <2>1. UNCHANGED <<mutation, staged>> /\ UNCHANGED <<live, newest, clock, diskVars>>
    BY <1>6 DEF LeaseWaits, LeaseStopped, LeaseReleases, LeaseReleased, DataButOp, workspaceVars
  <2> QED BY <1>6, <1>a, <2>1, LeaseWaitsControlled, LeaseStoppedControlled, LeaseReleasesControlled,
             LeaseReleasedControlled
<1>7. ASSUME NEW o \in Ops, OpAsks(o) \/ CleanupWrites(o) PROVE Rest
  <2>1. UNCHANGED <<mutation, staged>> /\ UNCHANGED <<live, newest, clock, diskVars>>
    BY <1>7 DEF OpAsks, CleanupWrites, DataButOp, workspaceVars
  <2> QED BY <1>7, <1>a, <2>1, OpAsksControlled, CleanupWritesControlled
<1>8. ASSUME NEW o \in Ops, OpWorks(o) PROVE Rest
  <2>1. UNCHANGED <<mutation, staged>> /\ UNCHANGED <<write, lease, mutation>>
    BY <1>8 DEF OpWorks, workspaceVars, coordinator
  <2>2. CASE Work(o)
    BY <2>1, <2>2, WorkControlled, WorkTyped, WorkspaceSame DEF Desk, Clocked
  <2>3. CASE ResetClears(o)
    <3>1. DiskTyped' /\ Clocked'
      BY <2>3 DEF ResetClears, DiskTyped, Clocked, Desk
    <3> QED BY <2>1, <2>3, <3>1, ResetClearsControlled, WorkspaceSame DEF Desk
  <2> QED BY <1>8, <2>2, <2>3 DEF OpWorks
<1>9. ASSUME NEW w \in Mutators, MutationWrites(w) PROVE Rest
  <2>1. UNCHANGED op /\ UNCHANGED <<live, newest, clock, diskVars>>
    BY <1>9 DEF MutationWrites, NoFile
  <2> QED BY <1>9, <2>1, MutationWritesControlled, DiskSame DEF Desk, OpsTyped
<1>10. ASSUME NEW w \in Mutators, MutationWorks(w) PROVE Rest
  <2>1. MutationStep(w) /\ UNCHANGED <<write, lease>>
    BY <1>10 DEF MutationWorks, coordinator
  <2>2. Mutates(w)
    BY <2>1, MutationMutates DEF Desk
  <2>3. \A p \in Ops : Apart(p)
    BY <2>1, <2>2 DEF Apart, Mutates
  <2>4. \A v \in Mutators : ~In(v, "idle")' => write'[v] = "in"
    BY <2>1, <2>2 DEF Mutates, Desk, Control, In
  <2> QED BY <2>2, <2>3, <2>4, AllApart DEF Mutates, Desk, OpsTyped
<1> QED BY <1>1, <1>2, <1>3, <1>4, <1>5, <1>6, <1>7, <1>8, <1>9, <1>10 DEF Next

LEMMA DeskInit == Init => Desk
<1> SUFFICES ASSUME Init PROVE Desk
  OBVIOUS
<1>1. OpsTyped /\ DiskTyped /\ Clocked
  <2>1. 1 \in 0 .. MaxVersion /\ 1 \in 1 .. MaxBackups
    BY MaintenanceAssumption
  <2> QED BY <2>1, IdleIs DEF Init, MaintenanceInit, OpsTyped, DiskTyped, Clocked, Contents, Backup
<1>2. Workspace
  BY MaintenanceAssumption
     DEF Init, WorkspaceInit, Workspace, NoMutation, Progress, MutationStages, In, File, Holding
<1>3. Control
  <2>1. \A o \in Ops : op[o] = Idle /\ lease[o] = "idle"
    BY OpsAreLeases DEF Init, MaintenanceInit, C!CoordinatorInit
  <2>2. \A w \in Mutators : In(w, "idle")
    BY DEF Init, WorkspaceInit, NoMutation, In
  <2> QED BY <2>1, <2>2, IdleIs DEF Control, Placed, Turns, Busy, AtWork, Outside, Pausing
<1> QED BY <1>1, <1>2, <1>3, GuardedInit DEF Desk

-----------------------------------------------------------------------------
(* What an operation under its lease may count on. *)

Leased(o) == AtWork(o) /\ op[o].kind # "cleanup"
Still == UNCHANGED <<live, newest, clock, backups, rollback, journal>>

LEMMA LeasedAlone ==
  ASSUME Desk, NEW o \in Ops, Leased(o)
  PROVE  /\ lease[o] = "held" /\ child = "none" /\ \A w \in Writers : write[w] # "in"
         /\ \A p \in Ops \ {o} : ~AtWork(p)
         /\ \A w \in Mutators : In(w, "idle")
<1>1. lease[o] = "held" /\ o \in Leases
  BY OpsAreLeases DEF Desk, Control, Placed, Leased
<1>2. child = "none"
  BY <1>1 DEF Desk, Guarded, Shut
<1>3. /\ \A k \in Leases : lease[k] \in {"stopping", "held", "starting"} => k = o
      /\ \A w \in Writers : write[w] # "in"
  BY <1>1, HeldAlone DEF Desk, Guarded
<1>4. ASSUME NEW p \in Ops \ {o}, AtWork(p) PROVE FALSE
  <2>1. write[p] = "in" \/ lease[p] = "held"
    BY <1>4 DEF Desk, Control, Placed
  <2> QED BY <1>3, <2>1, OpsAreLeases
<1>5. \A w \in Mutators : In(w, "idle")
  BY <1>3 DEF Desk, Control, Writers
<1> QED BY <1>1, <1>2, <1>3, <1>4, <1>5

LEMMA OthersStay ==
  ASSUME OpsTyped, NEW o \in Ops, NEW l, l # o,
         UNCHANGED op \/ Over(l) \/ Rejected(l) \/ \E r : Becomes(l, r) \/ OpOf(l, r)
  PROVE  op'[o] = op[o]
BY DEF OpsTyped, Becomes, OpOf, Rejected, Over

(* Everything that happens to the record of an operation. *)
Arrives(o) ==
  \/ op'[o] = op[o]
  \/ op'[o].at \in {"idle", "restart", "clear"}
  \/ op'[o].at = "precheck" /\ (op'[o].kind = "backup" => op'[o].copy = Absent)
  \/ /\ op'[o].kind = op[o].kind /\ Keeps(o) /\ Still
     /\ \/ op[o].at = "precheck" /\ op'[o].at = "waiting" /\ ~journal
        \/ op[o].at = "waiting" /\ op'[o].at = "begin"
        \/ op[o].at = "precheck" /\ op'[o].at = "begin" /\ op[o].kind = "cleanup"
  \/ Work(o) /\ UNCHANGED workspaceVars

LEMMA StepArrives == ASSUME Desk, [Next]_vars, NEW o \in Ops PROVE Arrives(o)
<1> USE DEF Arrives
<1>1. CASE UNCHANGED op
  BY <1>1
<1>2. CASE AppStarts \/ AppQuits \/ ProcessEvent \/ OpenClawWrites \/ RepairAsks \/ UNCHANGED vars
           \/ \E l \in Leases : Starting(l)
  <2>1. UNCHANGED op
    BY <1>2
        DEF AppStarts, AppQuits, ProcessEvent, OpenClawWrites, RepairAsks, Starting, vars, data, maintenanceVars,
                GatewayWrites, RestOfDisk
  <2> QED BY <2>1
<1>3. CASE Crash
  <2>1. op'[o] = Idle
    BY <1>3 DEF Crash
  <2> QED BY <2>1, IdleIs
<1>4. CASE UserAsks
  <2>1. CASE ReadOpensRoot
    BY <2>1 DEF ReadOpensRoot, RestOfDisk
  <2>2. ASSUME NEW p \in Ops, Starts(p) PROVE Arrives(o)
    <3>1. PICK kind \in Kinds, copy \in Contents : StartOperation(p, kind, copy) /\ (kind = "backup" => copy = Absent)
      <4>1. \A b \in backups : b.copy \in Contents
        BY DEF Desk, DiskTyped, Backup
      <4> QED BY <2>2, <4>1, AbsentIs DEF Starts, Kinds
    <3>2. /\ \A q \in Ops \ {p} : op'[q] = op[q]
          /\ op'[p].at = "precheck" /\ op'[p].kind = kind /\ op'[p].copy = copy
      BY <3>1, StartIs DEF Desk, DiskTyped
    <3> QED BY <3>1, <3>2
  <2> QED BY <1>4, <2>1, <2>2 DEF UserAsks
<1>5. ASSUME NEW p \in Ops, OpAsks(p) PROVE Arrives(o)
  <2>1. CASE p # o
    BY <1>5, <2>1, OthersStay DEF OpAsks, Desk
  <2>2. CASE Over(p) /\ p = o
    BY <2>2, OverIs, IdleIs DEF Desk
  <2>3. CASE p = o /\ ~Over(o)
    <3>1. /\ Becomes(o, [op[o] EXCEPT !.state = "running", !.at = "waiting"]) /\ ~Refused(op[o].kind)
          /\ op[o].at = "precheck" /\ Still
      BY <1>5, <2>3 DEF OpAsks, DataButOp, Still, diskVars
    <3>2. "waiting" \in Stages
      BY DEF Stages
    <3>3. Moves(o) /\ Keeps(o) /\ op'[o].at = "waiting"
      BY <3>1, <3>2, StateMoves DEF Desk
    <3>4. ~journal
      BY <3>1 DEF Refused, Damaged
    <3> QED BY <3>1, <3>3, <3>4 DEF Moves
  <2> QED BY <2>1, <2>2, <2>3
<1>6. ASSUME NEW p \in Ops, CleanupWrites(p) PROVE Arrives(o)
  <2>1. CASE p # o
    BY <1>6, <2>1, OthersStay DEF CleanupWrites, Desk, Go
  <2>2. CASE Over(p) /\ p = o
    BY <2>2, OverIs, IdleIs DEF Desk
  <2>3. CASE p = o /\ Go(o, "begin") /\ op[o].at = "precheck" /\ op[o].kind = "cleanup"
    <3>1. "begin" \in Stages
      BY DEF Stages
    <3>2. Moves(o) /\ Keeps(o) /\ op'[o].at = "begin"
      BY <2>3, <3>1, GoMoves DEF Desk
    <3>3. Still
      BY <1>6 DEF CleanupWrites, DataButOp, Still, diskVars
    <3> QED BY <2>3, <3>2, <3>3 DEF Moves
  <2> QED BY <1>6, <2>1, <2>2, <2>3, <1>1 DEF CleanupWrites
<1>7. ASSUME NEW p \in Ops, OpWorks(p) PROVE Arrives(o)
  <2>1. CASE Work(p)
    <3>1. Worked(p)
      BY <2>1, WorkWorks DEF Desk
    <3>2. UNCHANGED workspaceVars
      BY <1>7 DEF OpWorks
    <3> QED BY <2>1, <3>1, <3>2 DEF Worked, Moves
  <2>2. CASE ResetClears(p)
    BY <2>2, OverIs, IdleIs DEF ResetClears, Desk
  <2> QED BY <1>7, <2>1, <2>2 DEF OpWorks
<1>8. ASSUME NEW w \in Mutators, MutationWrites(w) \/ MutationWorks(w) PROVE Arrives(o)
  <2>1. CASE MutationWrites(w)
    BY <2>1 DEF MutationWrites, NoFile
  <2>2. CASE MutationWorks(w)
    BY <2>2, MutationMutates DEF MutationWorks, Mutates, Desk
  <2> QED BY <1>8, <2>1, <2>2
<1>9. ASSUME NEW l \in Leases, LeaseWaits(l) \/ LeaseStopped(l) \/ LeaseReleases(l) \/ LeaseReleased(l)
      PROVE  Arrives(o)
  <2>1. CASE l # o
    BY <1>9, <2>1, OthersStay DEF LeaseWaits, LeaseStopped, LeaseReleases, LeaseReleased, Desk
  <2>2. CASE l = o /\ LeaseWaits(o)
    <3>1. UNCHANGED op \/ Over(o)
      BY <2>2, OpsAreLeases DEF LeaseWaits, Rejected, OpOf, Over
    <3> QED BY <3>1, OverIs, IdleIs DEF Desk
  <2>3. CASE l = o /\ LeaseStopped(o)
    <3>1. CASE C!Stopped(o) /\ Go(o, "begin")
      <4>1. "begin" \in Stages
        BY DEF Stages
      <4>2. Moves(o) /\ Keeps(o) /\ op'[o].at = "begin"
        BY <3>1, <4>1, GoMoves DEF Desk
      <4>3. Still
        BY <2>3 DEF LeaseStopped, DataButOp, Still, diskVars
      <4>4. op[o].at = "waiting"
        BY <3>1 DEF C!Stopped, Desk, Control, Placed
      <4> QED BY <4>2, <4>3, <4>4 DEF Moves
    <3>2. CASE Over(o)
      BY <3>2, OverIs, IdleIs DEF Desk
    <3> QED BY <2>3, <3>1, <3>2, OpsAreLeases DEF LeaseStopped, Rejected, OpOf, Over, Go
  <2>4. CASE l = o /\ LeaseReleases(o)
    <3>1. Becomes(o, [Idle EXCEPT !.kind = op[o].kind, !.state = op[o].state, !.at = "restart",
                       !.result = op[o].result])
      BY <2>4, OpsAreLeases DEF LeaseReleases, OpOf
    <3> QED BY <3>1, RestartIs DEF Desk
  <2>5. CASE l = o /\ LeaseReleased(o)
    <3>1. Go(o, "clear") \/ Over(o)
      BY <2>5, OpsAreLeases DEF LeaseReleased, Rejected, OpOf, Over, Go
    <3>2. "clear" \in Stages
      BY DEF Stages
    <3> QED BY <3>1, <3>2, OverIs, IdleIs, GoMoves DEF Desk
  <2> QED BY <1>9, <2>1, <2>2, <2>3, <2>4, <2>5
<1> QED BY <1>2, <1>3, <1>4, <1>5, <1>6, <1>7, <1>8, <1>9 DEF Next

(* As long as it is at work nobody else touches a file, unless the process ends or reads of the
   renderer put staged files back. *)
LEMMA StandsStill ==
  ASSUME Desk, [Next]_vars, ~Trouble("read"), NEW o \in Ops, Leased(o)
  PROVE  Still \/ (Work(o) /\ UNCHANGED workspaceVars) \/ op'[o].at = "idle"
<1>0. /\ lease[o] = "held" /\ child = "none" /\ \A w \in Writers : write[w] # "in"
      /\ \A p \in Ops \ {o} : ~AtWork(p)
      /\ \A w \in Mutators : In(w, "idle")
  BY LeasedAlone
<1> USE DEF Still, diskVars
<1>1. CASE AppStarts \/ AppQuits \/ ProcessEvent \/ RepairAsks \/ UNCHANGED vars
           \/ \E l \in Leases : Starting(l)
  BY <1>1 DEF AppStarts, AppQuits, ProcessEvent, RepairAsks, Starting, vars, data, maintenanceVars
<1>2. CASE OpenClawWrites
  BY <1>0, <1>2 DEF OpenClawWrites
<1>3. CASE Crash
  BY <1>3, IdleIs DEF Crash
<1>4. CASE UserAsks
  <2>1. op[o].at # "idle"
    BY DEF Leased, AtWork, Outside
  <2> QED BY <1>4, <2>1 DEF UserAsks, Starts, StartOperation, OnlyOp
<1>5. CASE \/ \E p \in Ops : OpAsks(p) \/ CleanupWrites(p)
           \/ \E l \in Leases : LeaseWaits(l) \/ LeaseStopped(l) \/ LeaseReleases(l) \/ LeaseReleased(l)
  BY <1>5
      DEF OpAsks, CleanupWrites, LeaseWaits, LeaseStopped, LeaseReleases, LeaseReleased, DataButOp
<1>6. ASSUME NEW p \in Ops, OpWorks(p) PROVE Still \/ (Work(o) /\ UNCHANGED workspaceVars)
  <2>1. CASE Work(p) /\ UNCHANGED workspaceVars
    <3>1. AtWork(p)
      BY <2>1, WorkWorks DEF Desk, Worked
    <3> QED BY <1>0, <2>1, <3>1
  <2>2. CASE ResetClears(p)
    BY <2>2 DEF ResetClears
  <2> QED BY <1>6, <2>1, <2>2 DEF OpWorks
<1>7. ASSUME NEW w \in Mutators, MutationWrites(w) PROVE Still
  BY <1>7 DEF MutationWrites, NoFile
<1>8. ASSUME NEW w \in Mutators, MutationWorks(w) PROVE FALSE
  BY <1>0, <1>8, MutationMutates DEF MutationWorks, Desk, Mutates
<1> QED BY <1>1, <1>2, <1>3, <1>4, <1>5, <1>6, <1>7, <1>8 DEF Next

-----------------------------------------------------------------------------
(* A backup is a snapshot. *)

BackupSound(o) == op[o].kind = "backup" =>
  /\ op[o].at \in {"precheck", "waiting", "begin"} => op[o].copy = Absent
  /\ op[o].at = "copy" => \A f \in Files \ op[o].todo : op[o].copy[f] = live[f]

Snapshots == Desk /\ \A o \in Ops : BackupSound(o)

LEMMA BackupWorkSound ==
  ASSUME Desk, NEW o \in Ops, BackupSound(o), Work(o)
  PROVE  BackupSound(o)'
<1>0. OpsTyped /\ live \in Contents /\ Worked(o)
  BY WorkWorks DEF Desk, DiskTyped
<1>1. SUFFICES ASSUME op'[o].kind = "backup", op'[o].at \in {"begin", "copy"}
      PROVE  /\ op'[o].at = "copy"
             /\ \A f \in Files \ op'[o].todo : op'[o].copy[f] = live'[f]
  BY <1>0 DEF BackupSound, Worked, Outside
<1>2. op[o].kind = "backup"
  BY <1>0, <1>1 DEF Worked, Moves
<1>3. CASE BackupBegins(o)
  <2>1. CASE Becomes(o, [op[o] EXCEPT !.at = "unstage", !.result = "failed"])
    <3>1. "unstage" \in Stages /\ "failed" \in Results
      BY DEF Stages, Results
    <3> QED BY <1>0, <1>1, <2>1, <3>1, ResultMoves
  <2>2. CASE Becomes(o, [op[o] EXCEPT !.at = "copy", !.todo = Present(live), !.seen = Absent])
    <3>1. op'[o].at = "copy" /\ op'[o].copy = op[o].copy /\ op'[o].todo = Present(live)
      BY <1>0, <2>2, CopyBegins
    <3>2. op[o].copy = Absent /\ UNCHANGED live
      BY <1>2, <1>3 DEF BackupBegins, At, BackupSound
    <3>3. \A f \in Files : Absent[f] = 0
      BY AbsentIs
    <3> QED BY <3>1, <3>2, <3>3 DEF Present
  <2> QED BY <1>3, <2>1, <2>2 DEF BackupBegins
<1>4. CASE \E f \in Files : BackupCopies(o, f)
  <2>1. PICK f \in Files : BackupCopies(o, f)
    BY <1>4
  <2>2. /\ op'[o].at = op[o].at /\ op'[o].todo = op[o].todo \ {f}
        /\ op'[o].copy = [op[o].copy EXCEPT ![f] = live[f]]
    BY <1>0, <2>1, CopyMoves DEF BackupCopies
  <2>3. op[o].at = "copy" /\ UNCHANGED live /\ op[o].copy \in Contents
    BY <1>0, <2>1, RecordsAre DEF BackupCopies, At, OnlyOp, OpsTyped
  <2>4. ASSUME NEW g \in Files \ op'[o].todo PROVE op'[o].copy[g] = live'[g]
    <3>1. CASE g = f
      BY <2>2, <2>3, <3>1 DEF Contents
    <3>2. CASE g # f
      BY <1>2, <2>2, <2>3, <2>4, <3>2 DEF Contents, BackupSound
    <3> QED BY <3>1, <3>2
  <2> QED BY <2>2, <2>3, <2>4
<1>5. CASE \/ BackupStops(o) \/ Unstage(o) \/ BackupCommits(o) \/ RetireRemoves(o) \/ RetentionEnds(o)
           \/ \E b \in backups : RetireMoves(o, b)
  <2>1. /\ {"unstage", "retain", "retire"} \subseteq Stages
        /\ {"failed", "cancelled", "needs-recovery", "completed"} \subseteq Results /\ op[o].result \in Results
    BY <1>0, RecordsAre DEF Stages, Results, OpsTyped
  <2>2. op'[o].at \in {"unstage", "done", "retain", "retire"}
    <3>1. CASE BackupStops(o)
      BY <1>0, <2>1, <3>1, ResultMoves DEF BackupStops
    <3>2. CASE BackupCommits(o)
      BY <1>0, <3>2, CommitMoves DEF BackupCommits
    <3>3. CASE Unstage(o) \/ RetireRemoves(o) \/ RetentionEnds(o) \/ \E b \in backups : RetireMoves(o, b)
      BY <1>0, <2>1, <3>3, EndMoves, GoMoves DEF Unstage, RetireRemoves, RetentionEnds, RetireMoves
    <3> QED BY <1>5, <3>1, <3>2, <3>3
  <2> QED BY <1>1, <2>2
<1> QED BY <1>0, <1>2, <1>3, <1>4, <1>5, RestoreWorked, ResetWorked, CleanupWorked DEF Work, Desk

LEMMA SnapshotsStep == ASSUME Snapshots, ~Trouble("read"), [Next]_vars PROVE Snapshots'
<1>1. ASSUME NEW o \in Ops PROVE BackupSound(o)'
  <2>1. Arrives(o) /\ BackupSound(o) /\ Desk
    BY StepArrives DEF Snapshots
  <2>2. CASE Work(o)
    BY <2>1, <2>2, BackupWorkSound
  <2>3. CASE ~Work(o) /\ op'[o] = op[o] /\ op[o].kind = "backup" /\ op[o].at = "copy"
    <3>1. Leased(o)
      BY <2>3 DEF Leased, AtWork, Outside
    <3>2. UNCHANGED live
      BY <2>1, <2>3, <3>1, StandsStill DEF Still
    <3> QED BY <2>1, <2>3, <3>2 DEF BackupSound
  <2>4. CASE ~Work(o) /\ ~(op'[o] = op[o] /\ op[o].kind = "backup" /\ op[o].at = "copy")
    BY <2>1, <2>4 DEF BackupSound, Arrives, Keeps
  <2> QED BY <2>2, <2>3, <2>4
<1> QED BY <1>1, DeskStep DEF Snapshots

(* What a step adds to the backups is a commit. *)
LEMMA StepBackups ==
  ASSUME Desk, [Next]_vars
  PROVE  backups' \subseteq backups \/ \E o \in Ops : BackupCommits(o)
<1>1. ASSUME NEW o \in Ops, OpWorks(o) PROVE backups' \subseteq backups \/ BackupCommits(o)
  <2>1. CASE ResetClears(o)
    BY <2>1 DEF ResetClears
  <2>2. CASE Work(o)
    BY <2>2
        DEF Work, BackupBegins, BackupStops, Unstage, RetireRemoves, RetentionEnds, RetireMoves, BackupCopies,
                RestoreWrites, UndoRemoves, UndoRewrites, ResetDeletes, ResetSkips, RestoreBegins, RestorePrepares,
                RestoreStops, RestoreWritten, RestoreUnjournals, RestoreSyncs, RestoreFinishFails, UndoRemoved,
                UndoUncopies, UndoUnjournals, UndoEnds, UndoFails, ResetBegins, ResetEnds, CleanupBegins, CleanupMoves, CleanupRemoves,
                OnlyOp, diskVars
  <2> QED BY <1>1, <2>1, <2>2 DEF OpWorks
<1>2. ASSUME NEW w \in Mutators, MutationWrites(w) \/ MutationWorks(w) PROVE UNCHANGED backups
  BY <1>2, MutationMutates DEF MutationWrites, MutationWorks, NoFile, Mutates, diskVars, Desk
<1>3. CASE UserAsks \/ OpenClawWrites \/ Crash
  BY <1>3
      DEF UserAsks, Starts, StartOperation, OnlyOp, ReadOpensRoot, RestOfDisk, OpenClawWrites, GatewayWrites,
              Crash, diskVars
<1>4. CASE \/ AppStarts \/ AppQuits \/ ProcessEvent \/ RepairAsks \/ UNCHANGED vars
           \/ \E p \in Ops : OpAsks(p) \/ CleanupWrites(p)
           \/ \E l \in Leases : LeaseWaits(l) \/ LeaseStopped(l) \/ LeaseReleases(l) \/ LeaseReleased(l) \/ Starting(l)
  BY <1>4
      DEF AppStarts, AppQuits, ProcessEvent, RepairAsks, Starting, vars, data, maintenanceVars, diskVars,
              OpAsks, CleanupWrites, LeaseWaits, LeaseStopped, LeaseReleases, LeaseReleased, DataButOp
<1> QED BY <1>1, <1>2, <1>3, <1>4 DEF Next

(* A backup is committed only as a snapshot, whatever mutations, writes of OpenClaw, other operations,
   repairs, stops and crashes come between its copies; reads of the workspace, which take no tracked
   write and may put a staged file back under it, are left out. *)
THEOREM BackupIsAlwaysSnapshot == ASSUME ~Trouble("read") PROVE Spec => BackupIsSnapshot
<1>1. Init => Snapshots
  <2> SUFFICES ASSUME Init PROVE Snapshots
    OBVIOUS
  <2>1. \A o \in Ops : BackupSound(o)
    BY IdleIs DEF Init, MaintenanceInit, BackupSound
  <2> QED BY <2>1, DeskInit DEF Snapshots
<1>2. Snapshots /\ [Next]_vars => Snapshots'
  BY SnapshotsStep
<1>3. ASSUME Snapshots, [Next]_vars
    PROVE [\A b \in backups' \ backups : b.copy = live]_maintenanceVars
  <2>1. ASSUME NEW o \in Ops, BackupCommits(o), NEW b \in backups' \ backups PROVE b.copy = live
    <3>1. b.copy = op[o].copy /\ op[o].at = "copy" /\ op[o].todo = {} /\ op[o].kind = "backup"
      BY <2>1 DEF BackupCommits, At
    <3>2. op[o].copy \in Contents /\ live \in Contents
      BY <1>3, RecordsAre DEF Snapshots, Desk, OpsTyped, DiskTyped
    <3>3. \A f \in Files : op[o].copy[f] = live[f]
      BY <1>3, <3>1 DEF Snapshots, BackupSound
    <3> QED BY <3>1, <3>2, <3>3 DEF Contents
  <2> QED BY <1>3, <2>1, StepBackups DEF Snapshots
<1> QED BY <1>1, <1>2, <1>3, PTL DEF Spec, BackupIsSnapshot

-----------------------------------------------------------------------------
(* A restore reports what it did. *)

(* The rollback copies and the journal are there; the files the backup does not name are untouched. *)
Kept(o) == /\ journal /\ rollback # None
           /\ \A f \in Files : rollback[f] = IF op[o].copy[f] # 0 THEN op[o].seen[f] ELSE 0
Spared(o) == \A f \in Files : op[o].copy[f] = 0 => live[f] = op[o].seen[f]

Reported(o) ==
  CASE op[o].result = "completed" -> \A f \in Present(op[o].copy) : live[f] = op[o].copy[f]
    [] op[o].result = "needs-recovery" ->
         \/ live = op[o].seen
         \/ journal /\ rollback # None /\ \A f \in Overwritten(o) : rollback[f] = op[o].seen[f]
    [] op[o].result = "refused" -> TRUE
    [] OTHER -> live = op[o].seen

RestoreSound(o) == op[o].kind = "restore" =>
  /\ op[o].at \in {"waiting", "begin"} => ~journal
  /\ op[o].at = "prepare" => live = op[o].seen /\ rollback = Absent /\ ~journal
  /\ op[o].at \in {"write", "undo", "rewrite"} =>
       Kept(o) /\ Spared(o) /\ op[o].todo \subseteq Present(op[o].copy)
  /\ op[o].at = "write" => \A f \in Present(op[o].copy) :
       live[f] = IF f \in op[o].todo THEN op[o].seen[f] ELSE op[o].copy[f]
  /\ op[o].at = "undo" => \A f \in Present(op[o].copy) \ op[o].todo : live[f] = 0
  /\ op[o].at = "rewrite" => \A f \in Present(op[o].copy) \ op[o].todo : live[f] = op[o].seen[f]
  /\ op[o].at \in {"undo", "rewrite", "undo-journal", "undo-sync"} => op[o].result \in {"cancelled", "failed"}
  /\ op[o].at \in {"undo-journal", "undo-sync"} => live = op[o].seen
  /\ op[o].at \in {"finish-journal", "finish-sync"} =>
       \A f \in Present(op[o].copy) : live[f] = op[o].copy[f]
  /\ op[o].at = "done" => Reported(o)

Reporting == Desk /\ \A o \in Ops : RestoreSound(o)

LEMMA RestoreFiles ==
  ASSUME Desk, NEW o \in Ops
  PROVE  /\ op[o].copy \in Contents /\ op[o].seen \in Contents /\ op[o].todo \in SUBSET Files
         /\ live \in Contents /\ op[o].result \in Results /\ OpsTyped
BY RecordsAre DEF Desk, OpsTyped, DiskTyped

LEMMA WritesSound ==
  ASSUME Desk, NEW o \in Ops, RestoreSound(o), NEW f \in Files,
         RestoreWrites(o, f) \/ UndoRemoves(o, f) \/ UndoRewrites(o, f)
  PROVE  RestoreSound(o)'
<1>0. /\ op[o].copy \in Contents /\ op[o].seen \in Contents /\ op[o].todo \in SUBSET Files
      /\ live \in Contents /\ OpsTyped
  BY RestoreFiles
<1>1. /\ Moves(o) /\ Keeps(o) /\ op'[o].at = op[o].at /\ op'[o].todo = op[o].todo \ {f}
      /\ op'[o].result = op[o].result
  BY <1>0, TodoMoves DEF RestoreWrites, UndoRemoves, UndoRewrites
<1>2. /\ op[o].kind = "restore" /\ f \in op[o].todo /\ UNCHANGED <<rollback, journal>>
      /\ op[o].at \in {"write", "undo", "rewrite"}
      /\ live' = [live EXCEPT ![f] = live'[f]]
  BY <1>0 DEF RestoreWrites, UndoRemoves, UndoRewrites, At, diskVars, Contents
<1>3. Kept(o) /\ Spared(o) /\ op[o].todo \subseteq Present(op[o].copy)
  BY <1>2 DEF RestoreSound
<1>4. live'[f] = IF op[o].at = "write" THEN op[o].copy[f] ELSE IF op[o].at = "undo" THEN 0 ELSE op[o].seen[f]
  <2>1. CASE RestoreWrites(o, f)
    BY <1>0, <2>1 DEF RestoreWrites, At, Contents
  <2>2. CASE UndoRemoves(o, f)
    BY <1>0, <2>2 DEF UndoRemoves, At, Contents
  <2>3. CASE UndoRewrites(o, f)
    <3>1. rollback[f] = op[o].seen[f]
      BY <1>2, <1>3 DEF Kept, Present
    <3> QED BY <1>0, <2>3, <3>1 DEF UndoRewrites, At, Contents
  <2> QED BY <2>1, <2>2, <2>3
<1>5. f \in Files /\ op[o].copy[f] # 0 /\ \A g \in Files \ {f} : live'[g] = live[g]
  BY <1>0, <1>2, <1>3 DEF Present, Contents
<1>6. Kept(o)' /\ Spared(o)' /\ op'[o].todo \subseteq Present(op'[o].copy)
  BY <1>1, <1>2, <1>3, <1>5 DEF Kept, Spared, Keeps
<1>7. op'[o].at = "write" => \A g \in Present(op'[o].copy) :
        live'[g] = IF g \in op'[o].todo THEN op'[o].seen[g] ELSE op'[o].copy[g]
  BY <1>1, <1>2, <1>4, <1>5 DEF RestoreSound, Keeps, Present
<1>8. op'[o].at = "undo" => \A g \in Present(op'[o].copy) \ op'[o].todo : live'[g] = 0
  BY <1>1, <1>2, <1>4, <1>5 DEF RestoreSound, Keeps, Present
<1>9. op'[o].at = "rewrite" => \A g \in Present(op'[o].copy) \ op'[o].todo : live'[g] = op'[o].seen[g]
  BY <1>1, <1>2, <1>4, <1>5 DEF RestoreSound, Keeps, Present
<1>10. op'[o].at \in {"undo", "rewrite"} => op'[o].result \in {"cancelled", "failed"}
  BY <1>1, <1>2 DEF RestoreSound
<1> QED BY <1>1, <1>2, <1>6, <1>7, <1>8, <1>9, <1>10 DEF RestoreSound

LEMMA PreparesSound ==
  ASSUME Desk, NEW o \in Ops, RestoreSound(o), RestoreBegins(o) \/ RestorePrepares(o)
  PROVE  RestoreSound(o)'
<1>0. /\ op[o].copy \in Contents /\ op[o].seen \in Contents /\ op[o].todo \in SUBSET Files
      /\ live \in Contents /\ OpsTyped
  BY RestoreFiles
<1>s. /\ {"prepare", "write"} \subseteq Stages /\ {"refused", "failed"} \subseteq Results
      /\ Present(op[o].copy) \in SUBSET Files
  BY DEF Stages, Results, Present
<1>1. CASE RestoreBegins(o)
  <2>1. op[o].kind = "restore" /\ ~journal /\ UNCHANGED <<live, journal>>
    BY <1>1 DEF RestoreBegins, At, RestoreSound
  <2>2. CASE live = op[o].seen /\ rollback' = Absent /\ Go(o, "prepare")
    <3>1. Moves(o) /\ Keeps(o) /\ op'[o].at = "prepare"
      BY <1>0, <1>s, <2>2, GoMoves
    <3> QED BY <2>1, <2>2, <3>1 DEF RestoreSound, Keeps, Moves
  <2>3. CASE End(o, "refused")
    <3>1. Moves(o) /\ op'[o].at = "done" /\ op'[o].result = "refused"
      BY <1>0, <1>s, <2>3, EndMoves
    <3> QED BY <3>1 DEF RestoreSound, Reported
  <2> QED BY <1>1, <2>2, <2>3 DEF RestoreBegins
<1>2. CASE RestorePrepares(o)
  <2>1. op[o].kind = "restore" /\ live = op[o].seen /\ UNCHANGED live
    BY <1>2 DEF RestorePrepares, At, RestoreSound
  <2>2. CASE /\ rollback' = [f \in Files |-> IF op[o].copy[f] # 0 THEN live[f] ELSE 0]
             /\ journal' = TRUE /\ GoTodo(o, "write", Present(op[o].copy))
    <3>1. Moves(o) /\ Keeps(o) /\ op'[o].at = "write" /\ op'[o].todo = Present(op[o].copy)
      BY <1>0, <1>s, <2>2, GoTodoMoves
    <3>2. rollback' \in Contents
      BY <1>0, <2>2, MaintenanceAssumption DEF Contents
    <3>3. rollback' # None
      BY <3>2, MaintenanceAssumption
    <3>4. Kept(o)'
      BY <2>1, <2>2, <3>1, <3>3 DEF Kept, Keeps
    <3> QED BY <2>1, <3>1, <3>4 DEF RestoreSound, Spared, Keeps, Moves
  <2>3. CASE End(o, "failed")
    <3>1. Moves(o) /\ Keeps(o) /\ op'[o].at = "done" /\ op'[o].result = "failed"
      BY <1>0, <1>s, <2>3, EndMoves
    <3> QED BY <2>1, <3>1 DEF RestoreSound, Reported, Keeps
  <2> QED BY <1>2, <2>2, <2>3 DEF RestorePrepares
<1> QED BY <1>1, <1>2

LEMMA FinishSound ==
  ASSUME Desk, NEW o \in Ops, RestoreSound(o),
         RestoreStops(o) \/ RestoreWritten(o) \/ RestoreUnjournals(o) \/ RestoreSyncs(o)
  PROVE  RestoreSound(o)'
<1>0. OpsTyped
  BY RestoreFiles
<1>s. /\ {"finish-journal", "finish-sync"} \subseteq Stages
      /\ "cancelled" \in Results /\ "failed" \in Results /\ "completed" \in Results
  BY DEF Stages, Results
<1>1. CASE RestoreStops(o)
  <2>1. /\ op[o].kind = "restore" /\ op[o].at = "write" /\ UNCHANGED <<live, rollback, journal>>
        /\ Kept(o) /\ Spared(o)
    BY <1>1 DEF RestoreStops, At, OnlyOp, diskVars, RestoreSound
  <2>2. PICK result \in {"cancelled", "failed"} : Undo(o, result)
    BY <1>1 DEF RestoreStops
  <2>3. /\ Moves(o) /\ Keeps(o) /\ op'[o].at = "undo" /\ op'[o].todo = Present(op[o].copy)
        /\ op'[o].result = result
    BY <1>0, <1>s, <2>2, UndoMoves
  <2>4. Kept(o)' /\ Spared(o)'
    BY <2>1, <2>3 DEF Kept, Spared, Keeps
  <2> QED BY <2>3, <2>4 DEF RestoreSound, Keeps, Moves
<1>2. CASE RestoreWritten(o)
  <2>1. /\ op[o].kind = "restore" /\ UNCHANGED live
        /\ \A f \in Present(op[o].copy) : live[f] = op[o].copy[f]
    BY <1>2 DEF RestoreWritten, At, RestoreSound
  <2>2. Moves(o) /\ Keeps(o) /\ op'[o].at = "finish-journal"
    BY <1>0, <1>s, <1>2, GoMoves DEF RestoreWritten
  <2> QED BY <2>1, <2>2 DEF RestoreSound, Keeps
<1>3. CASE RestoreUnjournals(o)
  <2>1. /\ UNCHANGED live /\ \A f \in Present(op[o].copy) : live[f] = op[o].copy[f]
    BY <1>3 DEF RestoreUnjournals, At, RestoreSound
  <2>2. Moves(o) /\ Keeps(o) /\ op'[o].at = "finish-sync"
    BY <1>0, <1>s, <1>3, GoMoves DEF RestoreUnjournals
  <2> QED BY <2>1, <2>2 DEF RestoreSound, Keeps
<1>4. CASE RestoreSyncs(o)
  <2>1. /\ UNCHANGED live /\ \A f \in Present(op[o].copy) : live[f] = op[o].copy[f]
    BY <1>4 DEF RestoreSyncs, At, RestoreSound, OnlyOp
  <2>2. Moves(o) /\ Keeps(o) /\ op'[o].at = "done" /\ op'[o].result = "completed"
    BY <1>0, <1>s, <1>4, EndMoves DEF RestoreSyncs
  <2> QED BY <2>1, <2>2 DEF RestoreSound, Keeps, Reported
<1> QED BY <1>1, <1>2, <1>3, <1>4

\* The files the backup names are back, the others were never touched.
LEMMA UndoneSound ==
  ASSUME Desk, NEW o \in Ops, RestoreSound(o), At(o, "restore", "rewrite"), op[o].todo = {}
  PROVE  live = op[o].seen
<1>1. op[o].seen \in Contents /\ live \in Contents
  BY RestoreFiles
<1>2. \A f \in Files : live[f] = op[o].seen[f]
  BY DEF At, RestoreSound, Spared, Present
<1> QED BY <1>1, <1>2 DEF Contents

LEMMA UndoSound ==
  ASSUME Desk, NEW o \in Ops, RestoreSound(o),
         UndoRemoved(o) \/ UndoUncopies(o) \/ UndoUnjournals(o) \/ UndoEnds(o) \/ UndoFails(o)
  PROVE  RestoreSound(o)'
<1>0. /\ op[o].copy \in Contents /\ op[o].seen \in Contents /\ live \in Contents /\ OpsTyped
      /\ op[o].result \in Results
  BY RestoreFiles
<1>1. /\ op[o].kind = "restore" /\ op[o].at \in {"undo", "rewrite", "undo-journal", "undo-sync"}
      /\ op[o].at \in {"undo", "rewrite"} => Kept(o) /\ Spared(o)
      /\ op[o].result \in {"cancelled", "failed"} /\ UNCHANGED live
  BY DEF UndoRemoved, UndoUncopies, UndoUnjournals, UndoEnds, UndoFails, At, OnlyOp, RestoreSound
<1>s. /\ {"rewrite", "undo-journal", "undo-sync"} \subseteq Stages /\ "needs-recovery" \in Results
      /\ Overwritten(o) \in SUBSET Files
  BY DEF Stages, Results, Overwritten
<1>2. CASE UndoRemoved(o)
  <2>1. /\ Moves(o) /\ Keeps(o) /\ op'[o].at = "rewrite" /\ op'[o].todo = Overwritten(o)
        /\ op'[o].result = op[o].result
    BY <1>0, <1>2, <1>s, GoTodoMoves DEF UndoRemoved
  <2>2. op[o].at = "undo" /\ op[o].todo = {} /\ UNCHANGED <<rollback, journal>>
        /\ \A f \in Present(op[o].copy) : live[f] = 0
    BY <1>1, <1>2 DEF UndoRemoved, At, OnlyOp, diskVars, RestoreSound
  <2>3. Kept(o)' /\ Spared(o)'
    BY <1>1, <2>1, <2>2 DEF Kept, Spared, Keeps
  <2>4. \A f \in Present(op'[o].copy) \ op'[o].todo : live'[f] = op'[o].seen[f]
    BY <1>1, <2>1, <2>2 DEF Present, Overwritten, Keeps
  <2>5. op'[o].todo \subseteq Present(op'[o].copy)
    BY <2>1 DEF Present, Overwritten, Keeps
  <2> QED BY <1>1, <2>1, <2>3, <2>4, <2>5 DEF RestoreSound
<1>3. CASE UndoUncopies(o) \/ UndoUnjournals(o)
  <2>1. PICK stage \in {"undo-journal", "undo-sync"} : Go(o, stage)
    BY <1>3 DEF UndoUncopies, UndoUnjournals
  <2>2. Moves(o) /\ Keeps(o) /\ op'[o].at = stage /\ op'[o].result = op[o].result
    BY <1>0, <1>s, <2>1, GoMoves
  <2>3. live = op[o].seen
    BY <1>3, UndoneSound DEF UndoUncopies, UndoUnjournals, At, RestoreSound
  <2> QED BY <1>1, <2>2, <2>3 DEF RestoreSound, Keeps
<1>4. CASE UndoEnds(o)
  <2>1. Moves(o) /\ Keeps(o) /\ op'[o].at = "done" /\ op'[o].result = op[o].result
    BY <1>0, <1>4, EndMoves DEF UndoEnds
  <2>2. live = op[o].seen
    BY <1>4 DEF UndoEnds, At, RestoreSound
  <2> QED BY <1>1, <2>1, <2>2 DEF RestoreSound, Reported, Keeps
<1>5. CASE UndoFails(o)
  <2>1. Moves(o) /\ Keeps(o) /\ op'[o].at = "done" /\ op'[o].result = "needs-recovery"
    BY <1>0, <1>5, <1>s, EndMoves DEF UndoFails
  <2>2. CASE op[o].at \in {"undo-journal", "undo-sync"}
    <3>1. live' = op'[o].seen
      BY <1>1, <2>1, <2>2 DEF RestoreSound, Keeps
    <3> QED BY <2>1, <3>1 DEF RestoreSound, Reported
  <2>3. CASE op[o].at = "rewrite" /\ op[o].todo = {}
    <3>1. live' = op'[o].seen
      BY <1>1, <2>1, <2>3, UndoneSound DEF At, Keeps
    <3> QED BY <2>1, <3>1 DEF RestoreSound, Reported
  <2>4. CASE op[o].at = "undo" \/ (op[o].at = "rewrite" /\ op[o].todo # {})
    <3>1. UNCHANGED <<rollback, journal>>
      BY <1>5, <2>4 DEF UndoFails
    <3>2. \A f \in Overwritten(o)' : f \in Files /\ op[o].copy[f] # 0
      BY <2>1 DEF Overwritten, Keeps
    <3>3. journal' /\ rollback' # None /\ \A f \in Overwritten(o)' : rollback'[f] = op'[o].seen[f]
      BY <1>1, <2>1, <2>4, <3>1, <3>2 DEF Kept, Keeps
    <3> QED BY <2>1, <3>3 DEF RestoreSound, Reported
  <2> QED BY <1>1, <2>2, <2>3, <2>4
<1> QED BY <1>2, <1>3, <1>4, <1>5

LEMMA RestoreWorkSound ==
  ASSUME Desk, ~Trouble("finish"), NEW o \in Ops, RestoreSound(o), Work(o)
  PROVE  RestoreSound(o)'
<1>0. op'[o].kind = op[o].kind /\ OpsTyped /\ DiskTyped
  BY WorkWorks DEF Desk, Worked, Moves
<1>1. CASE op[o].kind # "restore"
  BY <1>0, <1>1 DEF RestoreSound
<1>2. CASE op[o].kind = "restore"
  <2>1. \/ \E f \in Files : RestoreWrites(o, f) \/ UndoRemoves(o, f) \/ UndoRewrites(o, f)
        \/ RestoreBegins(o) \/ RestorePrepares(o) \/ RestoreStops(o) \/ RestoreWritten(o)
        \/ RestoreUnjournals(o) \/ RestoreSyncs(o) \/ UndoRemoved(o)
        \/ UndoUncopies(o) \/ UndoUnjournals(o) \/ UndoEnds(o) \/ UndoFails(o)
    <3>1. ~(\/ BackupBegins(o) \/ BackupStops(o) \/ Unstage(o) \/ BackupCommits(o)
            \/ RetireRemoves(o) \/ RetentionEnds(o) \/ (\E b \in backups : RetireMoves(o, b))
            \/ \E f \in Files : BackupCopies(o, f))
      BY <1>2
          DEF BackupBegins, BackupStops, Unstage, BackupCommits, RetireRemoves, RetentionEnds, RetireMoves,
                  BackupCopies, At
    <3>2. ~(\/ ResetBegins(o) \/ ResetEnds(o) \/ CleanupBegins(o) \/ CleanupMoves(o) \/ CleanupRemoves(o)
            \/ \E f \in Files : ResetDeletes(o, f) \/ ResetSkips(o, f))
      BY <1>2
          DEF ResetBegins, ResetEnds, ResetDeletes, ResetSkips, CleanupBegins, CleanupMoves, CleanupRemoves, At
    <3>3. ~RestoreFinishFails(o)
      BY DEF RestoreFinishFails
    <3> QED BY <3>1, <3>2, <3>3 DEF Work
  <2> QED BY <2>1, WritesSound, PreparesSound, FinishSound, UndoSound
<1> QED BY <1>1, <1>2

(* Only a restore writes a journal. *)
LEMMA StepJournal ==
  ASSUME Desk, [Next]_vars, ~journal, journal'
  PROVE  \E o \in Ops : RestorePrepares(o)
<1>1. ASSUME NEW o \in Ops, OpWorks(o) PROVE RestorePrepares(o)
  <2>1. CASE ResetClears(o)
    BY <2>1 DEF ResetClears
  <2>2. CASE Work(o)
    BY <2>2
        DEF Work, BackupBegins, BackupStops, Unstage, BackupCommits, RetireRemoves, RetentionEnds, RetireMoves,
                BackupCopies, RestoreWrites, UndoRemoves, UndoRewrites, ResetDeletes, ResetSkips, RestoreBegins,
                RestoreStops, RestoreWritten, RestoreUnjournals, RestoreSyncs, RestoreFinishFails, UndoRemoved,
                UndoUncopies, UndoUnjournals, UndoEnds, UndoFails, ResetBegins, ResetEnds, CleanupBegins, CleanupMoves, CleanupRemoves,
                OnlyOp, diskVars
  <2> QED BY <1>1, <2>1, <2>2 DEF OpWorks
<1>2. ASSUME NEW w \in Mutators, MutationWrites(w) \/ MutationWorks(w) PROVE UNCHANGED journal
  BY <1>2, MutationMutates DEF MutationWrites, MutationWorks, NoFile, Mutates, diskVars, Desk
<1>3. CASE UserAsks \/ OpenClawWrites \/ Crash
  BY <1>3
      DEF UserAsks, Starts, StartOperation, OnlyOp, ReadOpensRoot, RestOfDisk, OpenClawWrites, GatewayWrites,
              Crash, diskVars
<1>4. CASE \/ AppStarts \/ AppQuits \/ ProcessEvent \/ RepairAsks \/ UNCHANGED vars
           \/ \E p \in Ops : OpAsks(p) \/ CleanupWrites(p)
           \/ \E l \in Leases : LeaseWaits(l) \/ LeaseStopped(l) \/ LeaseReleases(l) \/ LeaseReleased(l) \/ Starting(l)
  BY <1>4
      DEF AppStarts, AppQuits, ProcessEvent, RepairAsks, Starting, vars, data, maintenanceVars, diskVars,
              OpAsks, CleanupWrites, LeaseWaits, LeaseStopped, LeaseReleases, LeaseReleased, DataButOp
<1> QED BY <1>1, <1>2, <1>3, <1>4 DEF Next

LEMMA RestoresStep ==
  ASSUME Reporting, ~Trouble("finish"), ~Trouble("read"), [Next]_vars
  PROVE  Reporting'
<1>1. ASSUME NEW o \in Ops PROVE RestoreSound(o)'
  <2>1. Arrives(o) /\ RestoreSound(o) /\ Desk
    BY StepArrives DEF Reporting
  <2>2. CASE Work(o)
    BY <2>1, <2>2, RestoreWorkSound
  <2>3. CASE ~Work(o) /\ op'[o] = op[o] /\ Leased(o)
    <3>1. Still
      <4>1. op'[o].at # "idle"
        BY <2>3 DEF Leased, AtWork, Outside
      <4> QED BY <2>1, <2>3, <4>1, StandsStill
    <3> QED BY <2>1, <2>3, <3>1 DEF RestoreSound, Still, Kept, Spared, Reported, Overwritten
  <2>4. CASE ~Work(o) /\ op'[o] = op[o] /\ ~Leased(o)
    <3>1. op[o].kind = "restore" /\ op[o].at \in {"waiting", "begin"} => ~journal'
      <4> SUFFICES ASSUME op[o].kind = "restore", op[o].at \in {"waiting", "begin"}, journal'
          PROVE FALSE
        OBVIOUS
      <4>1. PICK p \in Ops : RestorePrepares(p)
        BY <2>1, StepJournal DEF RestoreSound
      <4>2. Busy(p) /\ Busy(o) /\ p # o
        BY <2>1, <4>1 DEF Desk, Control, Turns, Pausing, RestorePrepares, At
      <4> QED BY <2>1, <4>2 DEF Desk, Control, Turns
    <3> QED BY <2>1, <2>4, <3>1 DEF RestoreSound, Leased, AtWork, Outside
  <2>5. CASE ~Work(o) /\ op'[o] # op[o]
    BY <2>1, <2>5 DEF RestoreSound, Arrives, Keeps, Still
  <2> QED BY <2>2, <2>3, <2>4, <2>5
<1> QED BY <1>1, DeskStep DEF Reporting

(* What a restore reports is so: completed, the files of the backup; cancelled or failed, the files it
   found; to be recovered, either the files it found, or its journal and a rollback copy of each file it
   overwrote - whichever step of the restore or of its rollback fails, the removal of the copies half way
   included.  Left out, because there it is not so: the reads of the renderer, as above, and a failure
   of the finish of a restore that was written, when its rollback copies are gone. *)
THEOREM RestoreAlwaysReports ==
  ASSUME ~Trouble("finish"), ~Trouble("read") PROVE Spec => []RestoreReport
<1>1. Init => Reporting
  <2> SUFFICES ASSUME Init PROVE Reporting
    OBVIOUS
  <2>1. \A o \in Ops : RestoreSound(o)
    BY IdleIs DEF Init, MaintenanceInit, RestoreSound
  <2> QED BY <2>1, DeskInit DEF Reporting
<1>2. Reporting /\ [Next]_vars => Reporting'
  BY RestoresStep
<1>3. Reporting => RestoreReport
  BY DEF Reporting, RestoreSound, RestoreReport, Reported, At
<1> QED BY <1>1, <1>2, <1>3, PTL DEF Spec

-----------------------------------------------------------------------------
(* The newest content of a file is never lost. *)

Here(f) == newest[f] = 0 \/ live[f] = newest[f] \/ (journal /\ rollback # None /\ rollback[f] = newest[f])
Kept1(w, f) == /\ staged[w] # None /\ staged[w].journal /\ staged[w].file = f /\ staged[w].payload = newest[f]
Found(f) == Here(f) \/ (live[f] = 0 /\ \E w \in Mutators : Kept1(w, f))

(* A mutation between the opening of its root and its end. *)
Past(w) == mutation[w].at \notin {"idle", "root", "leave"}

Apiece ==
  /\ \A v, w \in Mutators : ~In(w, "idle") /\ ~In(v, "idle") /\ File(v) = File(w) => v = w
  /\ \A v, w \in Mutators : Past(w) /\ staged[v] # None /\ staged[v].file = File(w) => v = w
  /\ \A v, w \in Mutators : staged[v] # None /\ staged[w] # None /\ staged[v].file = staged[w].file => v = w

StageSound(w) ==
  /\ Past(w) /\ staged[w] # None => staged[w].file = File(w)
  /\ In(w, "check") => mutation[w].version # 0
  /\ In(w, "forget") => staged[w].payload = 0
  /\ In(w, "drop") \/ (In(w, "unjournal") /\ staged[w].payload # 0) => Here(File(w))
  /\ mutation[w].at \in {"stage", "rename", "move", "identify"} => staged[w] = None

Staging == Apiece /\ \A w \in Mutators : StageSound(w)

RestoreNewest(o) == op[o].kind = "restore" =>
  /\ op[o].at \in {"write", "undo", "rewrite"} =>
       \A f \in Present(op[o].copy) : newest[f] \in {0, op[o].seen[f]}
  /\ op[o].at \in {"finish-journal", "undo-journal", "undo-sync"} => rollback = None

Lasting ==
  /\ Reporting /\ Staging /\ \A f \in Files : Found(f)
  /\ \A o \in Ops : RestoreNewest(o)

(* A step of the mutation w, which touches its own file and its own transaction only. *)
Own(w) ==
  /\ \A v \in Mutators \ {w} : mutation'[v] = mutation[v] /\ staged'[v] = staged[v]
  /\ \A f \in Files \ {File(w)} : live'[f] = live[f] /\ newest'[f] = newest[f]
  /\ UNCHANGED <<rollback, journal>>
  /\ mutation'[w].file = File(w) /\ mutation'[w].at # "idle"

LEMMA OwnLasts ==
  ASSUME Workspace, Staging, \A f \in Files : Found(f), NEW w \in Mutators, Past(w), Own(w),
         staged'[w] # None => staged'[w].file = File(w), StageSound(w)', Found(File(w))'
  PROVE  Staging' /\ \A f \in Files : Found(f)'
<1>1. File(w) \in Files /\ (staged[w] # None => staged[w].file = File(w)) /\ ~In(w, "idle")
  BY DEF Workspace, Past, Staging, StageSound, In
<1>2. ASSUME NEW f \in Files, f # File(w) PROVE (Here(f) => Here(f)') /\ Found(f)'
  <2>1. Here(f) => Here(f)'
    BY <1>2 DEF Here, Own
  <2>2. ASSUME NEW v \in Mutators, Kept1(v, f), live[f] = 0 PROVE Found(f)'
    <3>1. v # w
      BY <1>1, <1>2, <2>2 DEF Kept1
    <3>2. Kept1(v, f)' /\ live'[f] = 0
      BY <1>2, <2>2, <3>1 DEF Kept1, Own
    <3> QED BY <3>2 DEF Found
  <2> QED BY <2>1, <2>2 DEF Found
<1>3. \A v \in Mutators \ {w} :
        /\ File(v)' = File(v) /\ (In(v, "idle") <=> In(v, "idle")') /\ (Past(v) <=> Past(v)')
        /\ staged'[v] = staged[v]
  BY DEF Own, File, In, Past
<1>4. File(w)' = File(w) /\ ~In(w, "idle")'
  BY DEF Own, File, In
<1>5. Apiece'
  <2>1. ASSUME NEW u \in Mutators, NEW v \in Mutators, ~In(u, "idle")', ~In(v, "idle")', File(u)' = File(v)'
        PROVE  u = v
    BY <1>1, <1>3, <1>4, <2>1 DEF Staging, Apiece
  <2>2. ASSUME NEW v \in Mutators, NEW u \in Mutators, Past(u)', staged'[v] # None, staged'[v].file = File(u)'
        PROVE  v = u
    <3>1. CASE v = w /\ u # w
      <4>1. File(u)' = File(w)' /\ ~In(u, "idle")'
        BY <1>4, <2>2, <3>1 DEF Past, In, File
      <4> QED BY <1>4, <2>1, <3>1, <4>1
    <3>2. CASE v # w
      BY <1>1, <1>3, <1>4, <2>2, <3>2 DEF Staging, Apiece
    <3> QED BY <3>1, <3>2
  <2>3. ASSUME NEW v \in Mutators, staged'[v] # None, staged'[w] # None, staged'[v].file = staged'[w].file
        PROVE  v = w
    BY <1>3, <2>3 DEF Staging, Apiece
  <2>4. ASSUME NEW u \in Mutators, NEW v \in Mutators, staged'[u] # None, staged'[v] # None,
               staged'[u].file = staged'[v].file
        PROVE  u = v
    BY <1>3, <2>3, <2>4 DEF Staging, Apiece
  <2> QED BY <2>1, <2>2, <2>4 DEF Apiece
<1>6. ASSUME NEW v \in Mutators, v # w PROVE StageSound(v)'
  <2>1. StageSound(v) /\ mutation'[v] = mutation[v] /\ staged'[v] = staged[v] /\ File(v)' = File(v)
    BY <1>3, <1>6 DEF Staging, Own
  <2>2. ~In(v, "idle") => File(v) \in Files /\ File(v) # File(w)
    BY <1>1, <1>6 DEF Workspace, Staging, Apiece
  <2>3. ~In(v, "idle") /\ Here(File(v)) => Here(File(v))'
    <3>1. ASSUME NEW f \in Files, f # File(w), Here(f), File(v) = f PROVE Here(File(v))'
      BY <2>1, <3>1 DEF Here, Own
    <3> QED BY <2>2, <3>1
  <2> QED BY <2>1, <2>3 DEF StageSound, In, Past
<1>7. \A f \in Files : Found(f)'
  <2>1. Found(File(w))' => \A f \in Files : f = File(w) => Found(f)'
    BY <1>4 DEF Found, Here, Kept1
  <2> QED BY <1>2, <2>1
<1> QED BY <1>5, <1>6, <1>7 DEF Staging

LEMMA Sole ==
  ASSUME Workspace, Staging, NEW w \in Mutators, Past(w), NEW v \in Mutators, Kept1(v, File(w))
  PROVE  v = w
BY DEF Staging, Apiece, Kept1

(* What the mutation knows of its own file. *)
LEMMA Known ==
  ASSUME Lasting, NEW w \in Mutators
  PROVE  /\ Workspace /\ DiskTyped /\ Clocked /\ Staging /\ StageSound(w) /\ \A f \in Files : Found(f)
         /\ ~In(w, "idle") => File(w) \in Files /\ Found(File(w))
         /\ Past(w) => \/ Here(File(w))
                       \/ live[File(w)] = 0 /\ staged[w] # None /\ staged[w].payload = newest[File(w)]
<1>1. /\ Workspace /\ DiskTyped /\ Clocked /\ Staging /\ StageSound(w) /\ \A f \in Files : Found(f)
  BY DEF Lasting, Reporting, Desk, Staging
<1>2. ~In(w, "idle") => File(w) \in Files /\ Found(File(w))
  BY <1>1 DEF Workspace
<1>3. Past(w) => ~In(w, "idle")
  BY DEF Past, In
<1>4. ASSUME Past(w), NEW v \in Mutators, Kept1(v, File(w))
      PROVE  staged[w] # None /\ staged[w].payload = newest[File(w)]
  BY <1>1, <1>4, Sole DEF Kept1
<1> QED BY <1>1, <1>2, <1>3, <1>4 DEF Found

LEMMA StageLasts ==
  ASSUME Lasting, NEW w \in Mutators, StagesTarget(w)
  PROVE  Staging' /\ \A f \in Files : Found(f)'
<1>1. Workspace /\ DiskTyped /\ Clocked /\ Staging /\ StageSound(w) /\ \A f \in Files : Found(f)
  BY Known
<1>2. Past(w) /\ ~In(w, "idle") /\ staged[w] = None /\ UNCHANGED <<newest, journal, rollback>>
  BY <1>1 DEF StagesTarget, Past, In, StageSound, RestOfDisk, diskVars
<1>3. File(w) \in Files /\ Here(File(w))
  BY <1>2, Known
<1>4. /\ Mutates(w) /\ staged'[w] = [file |-> File(w), payload |-> live[File(w)], journal |-> TRUE]
      /\ mutation'[w].at = (IF live[File(w)] = 0 THEN "unjournal" ELSE "verify")
      /\ mutation'[w].file = File(w)
  BY <1>1, StageMutates
<1>5. /\ live'[File(w)] = 0 /\ \A f \in Files \ {File(w)} : live'[f] = live[f]
      /\ \A v \in Mutators \ {w} : staged'[v] = staged[v]
  BY <1>1, <1>3 DEF StagesTarget, DiskTyped, Contents, Workspace
<1>6. Own(w)
  BY <1>2, <1>4, <1>5 DEF Own, Mutates
<1>7. staged'[w] # None /\ staged'[w].file = File(w) /\ staged'[w].payload = live[File(w)] /\ staged'[w].journal
  <2>1. staged'[w] \in Transactions
    BY <1>1, <1>3, <1>4 DEF Transactions, DiskTyped, Contents
  <2>2. staged'[w] # None
    BY <2>1, NoneIsNoTransaction
  <2>3. staged'[w].file = File(w) /\ staged'[w].payload = live[File(w)] /\ staged'[w].journal = TRUE
    BY <1>4
  <2> QED BY <2>2, <2>3
<1>8. StageSound(w)'
  BY <1>4, <1>7 DEF StageSound, In, File, Past
<1>9. Found(File(w))'
  BY <1>2, <1>3, <1>4, <1>5, <1>7 DEF Found, Here, Kept1, File
<1> QED BY <1>1, <1>2, <1>6, <1>7, <1>8, <1>9, OwnLasts

(* Nothing but the stage changes. *)
LEMMA LookLasts ==
  ASSUME Lasting, NEW w \in Mutators, Verifies(w) \/ Checks(w) \/ ChecksBeforeRename(w)
  PROVE  Staging' /\ \A f \in Files : Found(f)'
<1>1. Workspace /\ DiskTyped /\ Clocked /\ Staging /\ StageSound(w) /\ \A f \in Files : Found(f)
  BY Known
<1>2. /\ Past(w) /\ ~In(w, "idle") /\ UNCHANGED <<live, newest, journal, rollback, staged>>
  BY DEF Verifies, Checks, ChecksBeforeRename, Past, In, NoFile, diskVars
<1>3. File(w) \in Files /\ Found(File(w))
  BY <1>2, Known
<1>4. Mutates(w)
  BY <1>1, LookMutates
<1>5. PICK stage \in MutationStages : Goto(w, stage)
  BY DEF Verifies, Checks, ChecksBeforeRename, MutationStages
<1>6. mutation'[w].file = File(w) /\ mutation'[w].at = stage
  BY <1>1, <1>5, GotoIs DEF Workspace, File
<1>7. Own(w)
  BY <1>2, <1>4, <1>6 DEF Own, Mutates
<1>8. Found(File(w))'
  BY <1>2, <1>3, <1>6 DEF Found, Here, Kept1, File
<1>9. StageSound(w)'
  <2>1. CASE Verifies(w)
    <3>1. mutation'[w].at \in {"giveback", "create", "delete"}
      BY <1>1, <2>1, GotoIs DEF Verifies, Workspace, MutationStages
    <3> QED BY <1>1, <1>2, <1>6, <3>1 DEF StageSound, In, File, Past
  <2>2. CASE Checks(w)
    <3>1. mutation'[w].at = IF live[File(w)] = mutation[w].version THEN "drop" ELSE "restore"
      BY <1>1, <2>2, GotoIs DEF Checks, Workspace, MutationStages
    <3>2. live[File(w)] # 0 => Here(File(w))
      BY <1>3 DEF Found
    <3>3. mutation'[w].at = "drop" => Here(File(w))'
      BY <1>1, <1>2, <1>6, <2>2, <3>1, <3>2 DEF Checks, StageSound, Here, File
    <3> QED BY <1>1, <1>2, <1>6, <3>1, <3>3 DEF StageSound, In, File, Past
  <2>3. CASE ChecksBeforeRename(w)
    <3>1. mutation'[w].at \in {"move", "leave"}
      BY <1>1, <2>3, GotoIs DEF ChecksBeforeRename, Workspace, MutationStages
    <3> QED BY <1>1, <1>2, <1>6, <2>3, <3>1 DEF StageSound, In, File, Past, ChecksBeforeRename
  <2> QED BY <2>1, <2>2, <2>3
<1>10. staged'[w] # None => staged'[w].file = File(w)
  BY <1>1, <1>2 DEF StageSound
<1> QED BY <1>1, <1>2, <1>7, <1>8, <1>9, <1>10, OwnLasts

LEMMA GivesBackLasts ==
  ASSUME Lasting, NEW w \in Mutators, GivesBack(w)
  PROVE  Staging' /\ \A f \in Files : Found(f)'
<1>1. Workspace /\ DiskTyped /\ Clocked /\ Staging /\ StageSound(w) /\ \A f \in Files : Found(f)
  BY Known
<1>2. /\ Past(w) /\ ~In(w, "idle") /\ mutation[w].at \in Holding /\ MovesBack(w)
      /\ UNCHANGED <<newest, journal, rollback>>
  BY DEF GivesBack, Past, In, Holding, RestOfDisk, diskVars
<1>3. /\ File(w) \in Files /\ Found(File(w))
      /\ \/ Here(File(w))
         \/ live[File(w)] = 0 /\ staged[w] # None /\ staged[w].payload = newest[File(w)]
  BY <1>2, Known
<1>4. Mutates(w) /\ mutation'[w].at = "unjournal" /\ mutation'[w].file = File(w)
  BY <1>1, GivesBackMutates
<1>5. /\ staged'[w] # None /\ \A v \in Mutators \ {w} : staged'[v] = staged[v]
      /\ \/ UNCHANGED <<live, staged>> /\ live[File(w)] # 0
         \/ /\ live[File(w)] = 0 /\ live'[File(w)] = staged[w].payload
            /\ \A f \in Files \ {File(w)} : live'[f] = live[f]
            /\ staged'[w].payload = 0 /\ staged'[w].file = staged[w].file
  BY <1>1, <1>2, MovesBackIs
<1>6. Own(w)
  BY <1>2, <1>4, <1>5 DEF Own, Mutates
<1>7. staged'[w].file = File(w)
  BY <1>1, <1>2, <1>5 DEF StageSound, Workspace
<1>8. Here(File(w))'
  BY <1>2, <1>3, <1>4, <1>5 DEF Here, File
<1>9. StageSound(w)'
  BY <1>4, <1>7, <1>8 DEF StageSound, In, File, Past
<1> QED BY <1>1, <1>2, <1>6, <1>7, <1>8, <1>9, OwnLasts DEF Found

LEMMA UnjournalsLasts ==
  ASSUME Lasting, NEW w \in Mutators, Unjournals(w)
  PROVE  Staging' /\ \A f \in Files : Found(f)'
<1>1. Workspace /\ DiskTyped /\ Clocked /\ Staging /\ StageSound(w) /\ \A f \in Files : Found(f)
  BY Known
<1>2. Past(w) /\ ~In(w, "idle") /\ In(w, "unjournal") /\ UNCHANGED <<live, newest, journal, rollback>>
  BY DEF Unjournals, Past, In, NoFile, diskVars
<1>3. /\ File(w) \in Files
      /\ \/ Here(File(w))
         \/ live[File(w)] = 0 /\ staged[w] # None /\ staged[w].payload = newest[File(w)]
  BY <1>2, Known
<1>4. /\ Mutates(w) /\ mutation'[w].at = "leave" /\ mutation'[w].file = File(w)
      /\ \A v \in Mutators \ {w} : staged'[v] = staged[v]
      /\ IF staged[w].payload = 0 THEN staged'[w] = None
         ELSE staged'[w] # None /\ staged'[w].file = staged[w].file
  BY <1>1, UnjournalsMutates
<1>5. Own(w)
  BY <1>2, <1>4 DEF Own, Mutates
<1>6. Here(File(w))
  BY <1>1, <1>2, <1>3 DEF StageSound, Here
<1>7. Here(File(w))' /\ StageSound(w)'
  BY <1>2, <1>4, <1>6 DEF StageSound, In, File, Past, Here
<1>8. staged'[w] # None => staged'[w].file = File(w)
  BY <1>1, <1>2, <1>4 DEF StageSound, Workspace, In, Holding
<1> QED BY <1>1, <1>2, <1>5, <1>7, <1>8, OwnLasts DEF Found

LEMMA DropsLasts ==
  ASSUME Lasting, NEW w \in Mutators, Drops(w)
  PROVE  Staging' /\ \A f \in Files : Found(f)'
<1>1. Workspace /\ DiskTyped /\ Clocked /\ Staging /\ StageSound(w) /\ \A f \in Files : Found(f)
  BY Known
<1>2. Past(w) /\ ~In(w, "idle") /\ UNCHANGED <<live, journal, rollback>>
  BY DEF Drops, Past, In, RestOfDisk, diskVars
<1>3. /\ File(w) \in Files
      /\ \/ Here(File(w))
         \/ live[File(w)] = 0 /\ staged[w] # None /\ staged[w].payload = newest[File(w)]
  BY <1>2, Known
<1>4. /\ Mutates(w) /\ mutation'[w].at = "forget" /\ mutation'[w].file = File(w)
      /\ staged'[w] # None /\ staged'[w].payload = 0 /\ staged'[w].file = staged[w].file
      /\ \A v \in Mutators \ {w} : staged'[v] = staged[v]
  BY <1>1, DropsMutates
<1>5. /\ \A f \in Files \ {File(w)} : newest'[f] = newest[f]
      /\ newest'[File(w)] = IF In(w, "delete") /\ newest[File(w)] = staged[w].payload THEN 0 ELSE newest[File(w)]
  BY <1>1, <1>3 DEF Drops, DiskTyped, Contents
<1>6. Own(w)
  BY <1>2, <1>4, <1>5 DEF Own, Mutates
<1>7. staged[w].file = File(w)
  BY <1>1, <1>2 DEF StageSound, Drops, Workspace, In, Holding
<1>8. Here(File(w))'
  <2>1. In(w, "drop") => Here(File(w))
    BY <1>1 DEF StageSound
  <2>2. In(w, "drop") \/ In(w, "delete")
    BY DEF Drops
  <2> QED BY <1>2, <1>3, <1>4, <1>5, <2>1, <2>2 DEF Here, File, In
<1>9. StageSound(w)'
  BY <1>4, <1>7 DEF StageSound, In, File, Past
<1> QED BY <1>1, <1>2, <1>4, <1>6, <1>7, <1>8, <1>9, OwnLasts DEF Found

LEMMA ForgetsLasts ==
  ASSUME Lasting, NEW w \in Mutators, Forgets(w)
  PROVE  Staging' /\ \A f \in Files : Found(f)'
<1>1. Workspace /\ DiskTyped /\ Clocked /\ Staging /\ StageSound(w) /\ \A f \in Files : Found(f)
  BY Known
<1>2. Past(w) /\ ~In(w, "idle") /\ staged[w].payload = 0 /\ UNCHANGED <<live, newest, journal, rollback>>
  BY <1>1 DEF Forgets, Past, In, NoFile, diskVars, StageSound
<1>3. File(w) \in Files /\ Here(File(w))
  BY <1>2, Known DEF Here
<1>4. /\ Mutates(w) /\ mutation'[w].at = "leave" /\ mutation'[w].file = File(w) /\ staged'[w] = None
      /\ \A v \in Mutators \ {w} : staged'[v] = staged[v]
  BY <1>1, ForgetsMutates
<1>5. Own(w)
  BY <1>2, <1>4 DEF Own, Mutates
<1>6. Here(File(w))' /\ StageSound(w)'
  BY <1>2, <1>3, <1>4 DEF StageSound, In, File, Past, Here
<1> QED BY <1>1, <1>2, <1>4, <1>5, <1>6, OwnLasts DEF Found

LEMMA RestoresLasts ==
  ASSUME Lasting, NEW w \in Mutators, Restores(w)
  PROVE  Staging' /\ \A f \in Files : Found(f)'
<1>1. Workspace /\ DiskTyped /\ Clocked /\ Staging /\ StageSound(w) /\ \A f \in Files : Found(f)
  BY Known
<1>2. Past(w) /\ ~In(w, "idle") /\ UNCHANGED <<newest, journal, rollback>> /\ staged[w] # None
  BY <1>1 DEF Restores, Past, In, RestOfDisk, diskVars, Workspace, Holding
<1>3. /\ File(w) \in Files
      /\ \/ Here(File(w))
         \/ live[File(w)] = 0 /\ staged[w] # None /\ staged[w].payload = newest[File(w)]
  BY <1>2, Known
<1>4. /\ Mutates(w) /\ mutation'[w].at = "forget" /\ mutation'[w].file = File(w)
      /\ staged'[w] # None /\ staged'[w].payload = 0 /\ staged'[w].file = staged[w].file
      /\ \A v \in Mutators \ {w} : staged'[v] = staged[v]
      /\ \/ live[File(w)] = 0 /\ live'[File(w)] = staged[w].payload
            /\ \A f \in Files \ {File(w)} : live'[f] = live[f]
         \/ live[File(w)] # 0 /\ UNCHANGED live
  BY <1>1, RestoresMutates
<1>5. Own(w)
  BY <1>2, <1>4 DEF Own, Mutates
<1>6. staged[w].file = File(w)
  BY <1>1, <1>2 DEF StageSound
<1>7. Here(File(w))'
  BY <1>2, <1>3, <1>4 DEF Here, File
<1>8. StageSound(w)'
  BY <1>4, <1>6 DEF StageSound, In, File, Past
<1> QED BY <1>1, <1>2, <1>4, <1>5, <1>6, <1>7, <1>8, OwnLasts DEF Found

LEMMA CreatesLasts ==
  ASSUME Lasting, NEW w \in Mutators, Creates(w)
  PROVE  Staging' /\ \A f \in Files : Found(f)'
<1>1. Workspace /\ DiskTyped /\ Clocked /\ Staging /\ StageSound(w) /\ \A f \in Files : Found(f)
  BY Known
<1>2. Past(w) /\ ~In(w, "idle") /\ UNCHANGED <<staged, journal, rollback>> /\ staged[w].file = File(w)
  BY <1>1 DEF Creates, Past, In, RestOfDisk, diskVars, Workspace, Holding, StageSound
<1>3. File(w) \in Files /\ Found(File(w))
  BY <1>2, Known
<1>4. /\ Mutates(w) /\ mutation'[w].file = File(w)
      /\ \/ mutation'[w].at = "restore" /\ UNCHANGED <<live, newest>>
         \/ /\ mutation'[w].at = "check" /\ mutation'[w].version # 0 /\ live[File(w)] = 0
            /\ live'[File(w)] = newest'[File(w)]
            /\ \A f \in Files \ {File(w)} : live'[f] = live[f] /\ newest'[f] = newest[f]
  BY <1>1, CreatesMutates
<1>5. Own(w)
  BY <1>2, <1>4 DEF Own, Mutates
<1>6. Found(File(w))'
  BY <1>2, <1>3, <1>4 DEF Found, Here, Kept1, File
<1>7. StageSound(w)'
  BY <1>2, <1>4 DEF StageSound, In, File, Past
<1> QED BY <1>1, <1>2, <1>5, <1>6, <1>7, OwnLasts

(* The files change so that none that was in its place is lost from it, the transactions stay. *)
LEMMA HereLasts ==
  ASSUME Staging, \A f \in Files : Found(f), UNCHANGED staged, Workspace,
         \A f \in Files : \/ live'[f] = live[f] /\ newest'[f] = newest[f]
                          \/ newest'[f] = 0 \/ live'[f] = newest'[f],
         UNCHANGED <<rollback, journal>>
  PROVE  /\ \A f \in Files : Found(f)' /\ (Here(f) => Here(f)')
<1>1. ASSUME NEW f \in Files PROVE Found(f)' /\ (Here(f) => Here(f)')
  BY DEF Found, Here, Kept1
<1> QED BY <1>1

LEMMA RenameLasts ==
  ASSUME Lasting, NEW w \in Mutators, NEW g \in Files, Renames(w, g) \/ ChecksAfterRename(w, g)
  PROVE  Staging' /\ \A f \in Files : Found(f)'
<1>1. Workspace /\ DiskTyped /\ Clocked /\ Staging /\ StageSound(w) /\ \A f \in Files : Found(f)
  BY Known
<1>2. /\ Past(w) /\ staged[w] = None /\ UNCHANGED <<journal, rollback>>
  BY <1>1 DEF Renames, ChecksAfterRename, Past, In, RestOfDisk, diskVars, StageSound
<1>3. /\ Mutates(w) /\ mutation'[w].file = File(w) /\ UNCHANGED staged
      /\ mutation'[w].at \in {"leave", "identify"}
      /\ \/ UNCHANGED <<live, newest>>
         \/ MovesFile(File(w), g) /\ live[g] = 0
         \/ MovesFile(g, File(w)) /\ live[File(w)] = 0
      /\ g # File(w) /\ File(w) \in Files
  BY <1>1, RenameMutates
<1>4. \A f \in Files : \/ live'[f] = live[f] /\ newest'[f] = newest[f]
                       \/ newest'[f] = 0 \/ live'[f] = newest'[f]
  <2>1. CASE MovesFile(File(w), g)
    <3>1. /\ newest'[File(w)] = 0 /\ live'[g] = newest'[g]
          /\ \A f \in Files \ {File(w), g} : live'[f] = live[f] /\ newest'[f] = newest[f]
      BY <1>1, <1>3, <2>1, MovesFileIs
    <3> QED BY <3>1
  <2>2. CASE MovesFile(g, File(w))
    <3>1. /\ newest'[g] = 0 /\ live'[File(w)] = newest'[File(w)]
          /\ \A f \in Files \ {g, File(w)} : live'[f] = live[f] /\ newest'[f] = newest[f]
      BY <1>1, <1>3, <2>2, MovesFileIs
    <3> QED BY <3>1
  <2> QED BY <1>3, <2>1, <2>2
<1>5. \A f \in Files : Found(f)' /\ (Here(f) => Here(f)')
  BY <1>1, <1>2, <1>3, <1>4, HereLasts
<1>6. \A v \in Mutators : /\ File(v)' = File(v) /\ (In(v, "idle") <=> In(v, "idle")') /\ (Past(v)' => Past(v))
                          /\ staged'[v] = staged[v] /\ (v # w => mutation'[v] = mutation[v])
  <2>1. ASSUME NEW v \in Mutators, v # w PROVE mutation'[v] = mutation[v]
    BY <1>3, <2>1 DEF Mutates
  <2>2. ~In(w, "idle") /\ ~In(w, "idle")'
    BY <1>2, <1>3 DEF Past, In
  <2>3. ASSUME NEW v \in Mutators, v # w
        PROVE  File(v)' = File(v) /\ (In(v, "idle") <=> In(v, "idle")') /\ (Past(v)' => Past(v))
    BY <2>1, <2>3 DEF File, In, Past
  <2> QED BY <1>2, <1>3, <2>1, <2>2, <2>3 DEF File
<1>7. Apiece'
  BY <1>1, <1>6 DEF Staging, Apiece
<1>8. ASSUME NEW v \in Mutators PROVE StageSound(v)'
  <2>1. CASE v = w
    BY <1>2, <1>3, <2>1 DEF StageSound, In, File, Past
  <2>2. CASE v # w
    <3>1. ~In(v, "idle") => File(v) \in Files
      BY <1>1 DEF Workspace
    <3>2. ~In(v, "idle") /\ Here(File(v)) => Here(File(v))'
      <4>1. ASSUME NEW f \in Files, Here(f), File(v) = f PROVE Here(File(v))'
        BY <1>5, <1>6, <4>1 DEF Here
      <4> QED BY <3>1, <4>1
    <3> QED BY <1>1, <1>6, <2>2, <3>2 DEF Staging, StageSound, In, File, Past
  <2> QED BY <2>1, <2>2
<1> QED BY <1>5, <1>7, <1>8 DEF Staging

(* The stale transactions are emptied into their places. *)
LEMMA RecoverLasts ==
  ASSUME Workspace, DiskTyped, Staging, \A f \in Files : Found(f), RecoverStaged,
         UNCHANGED <<newest, rollback, journal>>
  PROVE  /\ \A f \in Files : Found(f)' /\ (Here(f) => Here(f)')
         /\ \A w \in Mutators : staged'[w] = IF Stale(w) THEN None ELSE staged[w]
<1>1. /\ \A f \in Files : \/ live'[f] = live[f] /\ (live[f] # 0 \/ Back(f) = {})
                          \/ live[f] = 0 /\ \E w \in Back(f) : live'[f] = staged[w].payload
      /\ \A w \in Mutators : staged'[w] = IF Stale(w) THEN None ELSE staged[w]
  BY RecoveredIs DEF DiskTyped
<1>2. ASSUME NEW f \in Files, Here(f) PROVE Here(f)'
  BY <1>1, <1>2 DEF Here
<1>3. ASSUME NEW f \in Files, ~Here(f) PROVE Found(f)'
  <2>1. PICK v \in Mutators : Kept1(v, f) /\ live[f] = 0
    BY <1>3 DEF Found
  <2>2. \A u \in Back(f) : u = v
    BY <2>1 DEF Staging, Apiece, Kept1, Back, Stale, Staged
  <2>3. newest[f] # 0
    BY <1>3 DEF Here
  <2>4. CASE Stale(v)
    <3>1. v \in Back(f)
      BY <2>1, <2>3, <2>4 DEF Back, Kept1
    <3>2. live'[f] = staged[v].payload
      BY <1>1, <2>1, <2>2, <3>1
    <3> QED BY <2>1, <3>2 DEF Found, Here, Kept1
  <2>5. CASE ~Stale(v)
    <3>1. Back(f) = {}
      BY <2>2, <2>5 DEF Back
    <3>2. live'[f] = 0 /\ staged'[v] = staged[v]
      BY <1>1, <2>1, <2>5, <3>1
    <3> QED BY <2>1, <3>2 DEF Found, Kept1
  <2> QED BY <2>4, <2>5
<1> QED BY <1>1, <1>2, <1>3 DEF Found

(* So what the mutations at work hold is theirs alone. *)
LEMMA RecoverStaging ==
  ASSUME Workspace, Staging, NEW w,
         \A v \in Mutators : staged'[v] = IF Stale(v) THEN None ELSE staged[v],
         \A f \in Files : Here(f) => Here(f)',
         \A v \in Mutators \ {w} : mutation'[v] = mutation[v],
         w \in Mutators => /\ In(w, "root") /\ mutation'[w].file = File(w)
                           /\ mutation'[w].at \in {"stage", "rename", "leave"}
  PROVE  Staging'
<1>1. \A v \in Mutators : File(v)' = File(v) /\ (In(v, "idle") <=> In(v, "idle")')
  BY DEF File, In
<1>2. ASSUME NEW u \in Mutators, staged'[u] # None
      PROVE  staged'[u] = staged[u] /\ Past(u) /\ staged[u].file = File(u) /\ ~In(u, "idle")
  BY <1>2 DEF Stale, Staged, Past, Staging, StageSound, In
<1>3. Apiece'
  <2>1. \A u, v \in Mutators : ~In(u, "idle")' /\ ~In(v, "idle")' /\ File(v)' = File(u)' => v = u
    BY <1>1 DEF Staging, Apiece
  <2>2. ASSUME NEW u \in Mutators, NEW v \in Mutators, Past(u)', staged'[v] # None, staged'[v].file = File(u)'
        PROVE  v = u
    <3>1. ~In(u, "idle")
      BY <1>1, <2>2 DEF Past, In
    <3>2. ~In(v, "idle") /\ File(v) = File(u)
      BY <1>1, <1>2, <2>2
    <3> QED BY <3>1, <3>2 DEF Staging, Apiece
  <2>3. ASSUME NEW u \in Mutators, NEW v \in Mutators, staged'[u] # None, staged'[v] # None,
               staged'[u].file = staged'[v].file
        PROVE  u = v
    BY <1>2, <2>3 DEF Staging, Apiece
  <2> QED BY <2>1, <2>2, <2>3 DEF Apiece
<1>4. ASSUME NEW v \in Mutators PROVE StageSound(v)'
  <2>1. CASE v = w
    <3>1. staged'[v] = None
      BY <2>1, <1>2 DEF Past, In
    <3> QED BY <2>1, <3>1 DEF StageSound, In, Past
  <2>2. CASE v # w /\ Past(v)
    <3>1. mutation'[v] = mutation[v] /\ staged'[v] = staged[v] /\ StageSound(v) /\ ~In(v, "idle")
      BY <2>2 DEF Stale, Past, Staging, In
    <3>2. Here(File(v)) => Here(File(v))'
      <4>1. File(v) \in Files
        BY <3>1 DEF Workspace
      <4>2. ASSUME NEW f \in Files, Here(f), File(v) = f PROVE Here(File(v))'
        BY <1>1, <4>2 DEF Here
      <4> QED BY <4>1, <4>2
    <3> QED BY <1>1, <3>1, <3>2 DEF StageSound, In, File, Past
  <2>3. CASE v # w /\ ~Past(v)
    BY <2>3 DEF StageSound, Past, In
  <2> QED BY <2>1, <2>2, <2>3
<1> QED BY <1>3, <1>4 DEF Staging

LEMMA RootLasts ==
  ASSUME Lasting, NEW w \in Mutators, RootOpens(w)
  PROVE  Staging' /\ \A f \in Files : Found(f)'
<1>1. Workspace /\ DiskTyped /\ Clocked /\ Staging /\ StageSound(w) /\ \A f \in Files : Found(f)
  BY Known
<1>2. In(w, "root") /\ UNCHANGED <<newest, journal, rollback>>
  BY DEF RootOpens, RestOfDisk, diskVars
<1>3. Mutates(w)
  BY <1>1, RootMutates
<1>4. PICK stage \in {"stage", "rename", "leave"} :
        Goto(w, stage) /\ (RecoverStaged \/ (stage = "leave" /\ UNCHANGED <<live, staged>>))
  BY DEF RootOpens
<1>5. mutation'[w].file = File(w) /\ mutation'[w].at = stage
  BY <1>1, <1>4, GotoIs DEF Workspace, File, MutationStages
<1>6. CASE RecoverStaged
  <2>1. /\ \A f \in Files : Found(f)' /\ (Here(f) => Here(f)')
        /\ \A v \in Mutators : staged'[v] = IF Stale(v) THEN None ELSE staged[v]
    BY <1>1, <1>2, <1>6, RecoverLasts
  <2>2. Staging'
    BY <1>1, <1>2, <1>3, <1>5, <2>1, RecoverStaging DEF Mutates
  <2> QED BY <2>1, <2>2
<1>7. CASE stage = "leave" /\ UNCHANGED <<live, staged>>
  <2>1. \A f \in Files : Found(f)'
    BY <1>1, <1>2, <1>7 DEF Found, Here, Kept1
  <2>2. \A v \in Mutators : /\ File(v)' = File(v) /\ (In(v, "idle") <=> In(v, "idle")')
                            /\ (Past(v)' => Past(v)) /\ (v # w => mutation'[v] = mutation[v])
    <3>1. ASSUME NEW v \in Mutators, v # w
          PROVE  /\ mutation'[v] = mutation[v] /\ File(v)' = File(v)
                 /\ (In(v, "idle") <=> In(v, "idle")') /\ (Past(v)' => Past(v))
      BY <1>3, <3>1 DEF Mutates, File, In, Past
    <3>2. File(w)' = File(w) /\ (In(w, "idle") <=> In(w, "idle")') /\ ~Past(w)'
      BY <1>2, <1>5, <1>7 DEF File, In, Past
    <3> QED BY <3>1, <3>2
  <2>3. Apiece'
    BY <1>1, <1>7, <2>2 DEF Staging, Apiece
  <2>4. ASSUME NEW v \in Mutators PROVE StageSound(v)'
    <3>1. CASE v = w
      BY <1>5, <1>7, <3>1 DEF StageSound, In, Past
    <3>2. CASE v # w
      BY <1>1, <1>2, <1>7, <2>2, <3>2 DEF Staging, StageSound, In, File, Past, Here
    <3> QED BY <3>1, <3>2
  <2> QED BY <2>1, <2>3, <2>4 DEF Staging
<1> QED BY <1>4, <1>6, <1>7

LEMMA MutationLasts ==
  ASSUME Lasting, NEW w \in Mutators, MutationStep(w)
  PROVE  Staging' /\ \A f \in Files : Found(f)'
BY RootLasts, StageLasts, LookLasts, GivesBackLasts, UnjournalsLasts, CreatesLasts, DropsLasts, ForgetsLasts,
   RestoresLasts, RenameLasts DEF MutationStep

(* A restore: what it overwrites is in its rollback copies, what it finishes is the newest. *)
LEMMA RestoreFound ==
  ASSUME Lasting, NEW o \in Ops
  PROVE  /\ Desk /\ RestoreSound(o) /\ RestoreNewest(o) /\ \A f \in Files : Found(f)
         /\ op[o].copy \in Contents /\ op[o].seen \in Contents /\ live \in Contents /\ newest \in Contents
         /\ op[o].todo \in SUBSET Files /\ OpsTyped
BY RestoreFiles DEF Lasting, Reporting, Desk, DiskTyped

LEMMA PreparesLasts ==
  ASSUME Lasting, NEW o \in Ops, UNCHANGED staged, RestoreBegins(o) \/ RestorePrepares(o)
  PROVE  (\A f \in Files : Found(f)') /\ RestoreNewest(o)'
<1>0. /\ Desk /\ RestoreSound(o) /\ RestoreNewest(o) /\ \A f \in Files : Found(f)
      /\ op[o].copy \in Contents /\ op[o].seen \in Contents /\ live \in Contents /\ newest \in Contents
      /\ op[o].todo \in SUBSET Files /\ OpsTyped
  BY RestoreFound
<1>s. /\ {"prepare", "write"} \subseteq Stages /\ {"refused", "failed"} \subseteq Results
      /\ Present(op[o].copy) \in SUBSET Files
  BY DEF Stages, Results, Present
<1>1. ~journal /\ UNCHANGED live /\ op[o].kind = "restore"
  BY <1>0 DEF RestoreBegins, RestorePrepares, At, RestoreSound
<1>2. \A f \in Files : \/ newest[f] = 0 \/ live[f] = newest[f]
                       \/ live[f] = 0 /\ \E w \in Mutators : Kept1(w, f)
  BY <1>0, <1>1 DEF Found, Here
<1>3. CASE RestoreBegins(o)
  <2>1. op'[o].at \in {"prepare", "done"}
    <3>1. CASE Go(o, "prepare")
      BY <1>0, <1>s, <3>1, GoMoves
    <3>2. CASE End(o, "refused")
      BY <1>0, <1>s, <3>2, EndMoves
    <3> QED BY <1>3, <3>1, <3>2 DEF RestoreBegins
  <2>2. \A f \in Files : Found(f)'
    BY <1>1, <1>2, <1>3 DEF RestoreBegins, Found, Here, Kept1
  <2> QED BY <2>1, <2>2 DEF RestoreNewest
<1>4. CASE RestorePrepares(o) /\ End(o, "failed") /\ UNCHANGED <<newest, rollback, journal>>
  <2>1. op'[o].at = "done"
    BY <1>0, <1>s, <1>4, EndMoves
  <2>2. \A f \in Files : Found(f)'
    BY <1>1, <1>2, <1>4 DEF Found, Here, Kept1
  <2> QED BY <2>1, <2>2 DEF RestoreNewest
<1>5. CASE /\ op[o].at = "prepare"
           /\ newest' = [f \in Files |-> IF op[o].copy[f] # 0 /\ live[f] = 0 THEN 0 ELSE newest[f]]
           /\ GoTodo(o, "write", Present(op[o].copy))
  <2>1. Moves(o) /\ Keeps(o) /\ op'[o].at = "write"
    BY <1>0, <1>s, <1>5, GoTodoMoves
  <2>2. \A f \in Files : newest'[f] = IF op[o].copy[f] # 0 /\ live[f] = 0 THEN 0 ELSE newest[f]
    BY <1>5
  <2>3. ASSUME NEW f \in Files PROVE Found(f)'
    BY <1>1, <1>2, <2>2 DEF Found, Here, Kept1
  <2>4. live = op[o].seen
    BY <1>0, <1>1, <1>5 DEF RestoreSound
  <2>5. \A f \in Present(op[o].copy) : newest'[f] \in {0, op[o].seen[f]}
    BY <1>2, <2>2, <2>4 DEF Present
  <2> QED BY <2>1, <2>3, <2>5 DEF RestoreNewest, Keeps
<1> QED BY <1>3, <1>4, <1>5 DEF RestorePrepares, At

LEMMA WritesLasts ==
  ASSUME Lasting, NEW o \in Ops, UNCHANGED staged, NEW f \in Files,
         RestoreWrites(o, f) \/ UndoRemoves(o, f) \/ UndoRewrites(o, f)
  PROVE  (\A g \in Files : Found(g)') /\ RestoreNewest(o)'
<1>0. /\ Desk /\ RestoreSound(o) /\ RestoreNewest(o) /\ \A g \in Files : Found(g)
      /\ op[o].copy \in Contents /\ op[o].seen \in Contents /\ live \in Contents /\ newest \in Contents
      /\ op[o].todo \in SUBSET Files /\ OpsTyped
  BY RestoreFound
<1>1. /\ Moves(o) /\ Keeps(o) /\ op'[o].at = op[o].at /\ f \in op[o].todo
      /\ op[o].kind = "restore" /\ op[o].at \in {"write", "undo", "rewrite"}
      /\ UNCHANGED <<newest, rollback, journal>> /\ \A g \in Files \ {f} : live'[g] = live[g]
  BY <1>0, TodoMoves DEF RestoreWrites, UndoRemoves, UndoRewrites, At, diskVars, Contents
<1>2. Kept(o) /\ f \in Present(op[o].copy) /\ newest[f] \in {0, op[o].seen[f]}
  BY <1>0, <1>1 DEF RestoreSound, RestoreNewest
<1>3. Here(f)'
  BY <1>1, <1>2 DEF Here, Kept, Present
<1>4. ASSUME NEW g \in Files, g # f PROVE Found(g)'
  BY <1>0, <1>1, <1>4 DEF Found, Here, Kept1
<1>5. RestoreNewest(o)'
  BY <1>0, <1>1 DEF RestoreNewest, Keeps, Moves
<1> QED BY <1>3, <1>4, <1>5 DEF Found

LEMMA FinishLasts ==
  ASSUME Lasting, NEW o \in Ops, UNCHANGED staged,
         RestoreStops(o) \/ RestoreWritten(o) \/ RestoreUnjournals(o) \/ RestoreSyncs(o)
  PROVE  (\A f \in Files : Found(f)') /\ RestoreNewest(o)'
<1>0. /\ Desk /\ RestoreSound(o) /\ RestoreNewest(o) /\ \A f \in Files : Found(f)
      /\ op[o].copy \in Contents /\ op[o].seen \in Contents /\ live \in Contents /\ newest \in Contents
      /\ op[o].todo \in SUBSET Files /\ OpsTyped
  BY RestoreFound
<1>s. /\ {"finish-journal", "finish-sync"} \subseteq Stages
      /\ "cancelled" \in Results /\ "failed" \in Results /\ "completed" \in Results
  BY DEF Stages, Results
<1>1. CASE RestoreStops(o)
  <2>1. /\ op[o].kind = "restore" /\ op[o].at = "write" /\ UNCHANGED <<live, newest, rollback, journal>>
    BY <1>1 DEF RestoreStops, At, OnlyOp, diskVars
  <2>2. PICK result \in {"cancelled", "failed"} : Undo(o, result)
    BY <1>1 DEF RestoreStops
  <2>3. Moves(o) /\ Keeps(o) /\ op'[o].at = "undo"
    BY <1>0, <1>s, <2>2, UndoMoves
  <2>4. RestoreNewest(o)'
    BY <1>0, <2>1, <2>3 DEF RestoreNewest, Keeps, Moves
  <2> QED BY <1>0, <2>1, <2>4 DEF Found, Here, Kept1
<1>2. CASE RestoreWritten(o)
  <2>1. /\ op[o].kind = "restore" /\ op[o].at = "write" /\ UNCHANGED <<live, journal>> /\ rollback' = None
        /\ op[o].todo = {}
        /\ \A f \in Files : newest'[f] = IF op[o].copy[f] # 0 THEN op[o].copy[f] ELSE newest[f]
    BY <1>2 DEF RestoreWritten, At
  <2>2. Kept(o) /\ \A f \in Present(op[o].copy) : live[f] = op[o].copy[f]
    BY <1>0, <2>1 DEF RestoreSound
  <2>3. Moves(o) /\ Keeps(o) /\ op'[o].at = "finish-journal"
    BY <1>0, <1>s, <1>2, GoMoves DEF RestoreWritten
  <2>4. ASSUME NEW f \in Files PROVE Found(f)'
    <3>1. CASE op[o].copy[f] # 0
      BY <2>1, <2>2, <3>1 DEF Found, Here, Present
    <3>2. CASE op[o].copy[f] = 0
      <4>1. Here(f) => newest[f] = 0 \/ live[f] = newest[f]
        BY <2>2, <3>2 DEF Here, Kept
      <4> QED BY <1>0, <2>1, <3>2, <4>1 DEF Found, Here, Kept1
    <3> QED BY <3>1, <3>2
  <2> QED BY <2>1, <2>3, <2>4 DEF RestoreNewest
<1>3. CASE RestoreUnjournals(o)
  <2>1. rollback = None /\ UNCHANGED <<live, newest, rollback>>
    BY <1>0, <1>3 DEF RestoreUnjournals, At, RestoreNewest
  <2>2. op'[o].at = "finish-sync"
    BY <1>0, <1>s, <1>3, GoMoves DEF RestoreUnjournals
  <2> QED BY <1>0, <2>1, <2>2 DEF Found, Here, Kept1, RestoreNewest
<1>4. CASE RestoreSyncs(o)
  <2>1. op'[o].at = "done"
    BY <1>0, <1>s, <1>4, EndMoves DEF RestoreSyncs
  <2>2. UNCHANGED <<live, newest, rollback, journal>>
    BY <1>4 DEF RestoreSyncs, OnlyOp, diskVars
  <2> QED BY <1>0, <2>1, <2>2 DEF Found, Here, Kept1, RestoreNewest
<1> QED BY <1>1, <1>2, <1>3, <1>4

LEMMA UndoLasts ==
  ASSUME Lasting, NEW o \in Ops, UNCHANGED staged,
         UndoRemoved(o) \/ UndoUncopies(o) \/ UndoUnjournals(o) \/ UndoEnds(o) \/ UndoFails(o)
  PROVE  (\A f \in Files : Found(f)') /\ RestoreNewest(o)'
<1>0. /\ Desk /\ RestoreSound(o) /\ RestoreNewest(o) /\ \A f \in Files : Found(f)
      /\ op[o].copy \in Contents /\ op[o].seen \in Contents /\ live \in Contents /\ newest \in Contents
      /\ op[o].todo \in SUBSET Files /\ OpsTyped
  BY RestoreFound
<1>1. /\ op[o].kind = "restore" /\ op[o].at \in {"undo", "rewrite", "undo-journal", "undo-sync"}
      /\ op[o].result \in Results /\ UNCHANGED <<live, newest>>
  BY <1>0 DEF UndoRemoved, UndoUncopies, UndoUnjournals, UndoEnds, UndoFails, At, OnlyOp, RestoreSound, Results
<1>s. /\ {"rewrite", "undo-journal", "undo-sync"} \subseteq Stages /\ "needs-recovery" \in Results
      /\ Overwritten(o) \in SUBSET Files
  BY DEF Stages, Results, Overwritten
<1>a. ASSUME UNCHANGED <<rollback, journal>> PROVE \A f \in Files : Found(f)'
  BY <1>0, <1>1, <1>a DEF Found, Here, Kept1
\* Once the files are back, nothing is found in the copies that is not in its place.
<1>b. ASSUME op[o].at = "rewrite", op[o].todo = {} PROVE \A f \in Files : Found(f)'
  <2>1. live = op[o].seen /\ Kept(o) /\ \A f \in Present(op[o].copy) : newest[f] \in {0, op[o].seen[f]}
    BY <1>0, <1>1, <1>b, UndoneSound DEF At, RestoreSound, RestoreNewest
  <2>2. ASSUME NEW f \in Files PROVE Found(f)'
    <3>1. CASE op[o].copy[f] # 0
      BY <1>1, <2>1, <3>1 DEF Found, Here, Present
    <3>2. CASE op[o].copy[f] = 0
      <4>1. Here(f) => newest[f] = 0 \/ live[f] = newest[f]
        BY <2>1, <3>2 DEF Here, Kept
      <4> QED BY <1>0, <1>1, <4>1 DEF Found, Here, Kept1
    <3> QED BY <3>1, <3>2
  <2> QED BY <2>2
<1>2. CASE UndoRemoved(o)
  <2>1. Moves(o) /\ Keeps(o) /\ op'[o].at = "rewrite" /\ op[o].at = "undo"
    BY <1>0, <1>2, <1>s, GoTodoMoves DEF UndoRemoved, At
  <2>2. UNCHANGED <<rollback, journal>>
    BY <1>2 DEF UndoRemoved, OnlyOp, diskVars
  <2>3. RestoreNewest(o)'
    BY <1>0, <1>1, <2>1 DEF RestoreNewest, Keeps
  <2> QED BY <1>a, <2>2, <2>3
<1>3. CASE UndoUncopies(o)
  <2>1. op'[o].at = "undo-journal" /\ rollback' = None
    BY <1>0, <1>s, <1>3, GoMoves DEF UndoUncopies
  <2> QED BY <1>3, <1>b, <2>1 DEF UndoUncopies, At, RestoreNewest
<1>4. CASE UndoUnjournals(o)
  <2>1. rollback = None /\ UNCHANGED rollback
    BY <1>0, <1>4 DEF UndoUnjournals, At, RestoreNewest
  <2>2. op'[o].at = "undo-sync"
    BY <1>0, <1>s, <1>4, GoMoves DEF UndoUnjournals
  <2> QED BY <1>0, <1>1, <2>1, <2>2 DEF Found, Here, Kept1, RestoreNewest
<1>5. CASE UndoEnds(o)
  <2>1. op'[o].at = "done"
    BY <1>0, <1>1, <1>5, EndMoves DEF UndoEnds
  <2>2. UNCHANGED <<rollback, journal>>
    BY <1>5 DEF UndoEnds, OnlyOp, diskVars
  <2> QED BY <1>a, <2>1, <2>2 DEF RestoreNewest
<1>6. CASE UndoFails(o)
  <2>1. op'[o].at = "done"
    BY <1>0, <1>6, <1>s, EndMoves DEF UndoFails
  <2>2. CASE op[o].at = "rewrite" /\ op[o].todo = {}
    BY <1>b, <2>1, <2>2 DEF RestoreNewest
  <2>3. CASE ~(op[o].at = "rewrite" /\ op[o].todo = {})
    <3>1. UNCHANGED <<rollback, journal>>
      BY <1>6, <2>3 DEF UndoFails
    <3> QED BY <1>a, <2>1, <3>1 DEF RestoreNewest
  <2> QED BY <2>2, <2>3
<1> QED BY <1>2, <1>3, <1>4, <1>5, <1>6

LEMMA OtherLasts ==
  ASSUME Lasting, NEW o \in Ops, UNCHANGED staged, op[o].kind # "restore", Work(o)
  PROVE  /\ \A f \in Files : Found(f)'
         /\ op[o].kind = "cleanup" => UNCHANGED <<live, newest, rollback, journal>>
<1>0. newest \in Contents /\ live \in Contents /\ \A f \in Files : Found(f)
  BY RestoreFound
<1>1. ASSUME NEW f \in Files, ResetDeletes(o, f) PROVE \A g \in Files : Found(g)'
  <2>1. /\ live'[f] = 0 /\ newest'[f] = 0 /\ UNCHANGED <<rollback, journal>>
        /\ \A g \in Files \ {f} : live'[g] = live[g] /\ newest'[g] = newest[g]
    BY <1>0, <1>1 DEF ResetDeletes, Contents, diskVars
  <2> QED BY <1>0, <2>1 DEF Found, Here, Kept1
<1>2. CASE ~\E f \in Files : ResetDeletes(o, f)
  <2>1. UNCHANGED <<live, newest, rollback, journal>>
    BY <1>2
        DEF Work, BackupBegins, BackupStops, Unstage, BackupCommits, RetireRemoves, RetentionEnds, RetireMoves,
                BackupCopies, RestoreWrites, UndoRemoves, UndoRewrites, ResetSkips, RestoreBegins, RestorePrepares,
                RestoreStops, RestoreWritten, RestoreUnjournals, RestoreSyncs, RestoreFinishFails, UndoRemoved,
                UndoUncopies, UndoUnjournals, UndoEnds, UndoFails, ResetBegins, ResetEnds, CleanupBegins, CleanupMoves, CleanupRemoves,
                OnlyOp, diskVars, At
  <2> QED BY <1>0, <2>1 DEF Found, Here, Kept1
<1>3. CASE op[o].kind = "cleanup"
  <2>1. UNCHANGED <<live, newest, rollback, journal>>
    BY <1>3
        DEF Work, BackupBegins, BackupStops, Unstage, BackupCommits, RetireRemoves, RetentionEnds, RetireMoves,
                BackupCopies, RestoreWrites, UndoRemoves, UndoRewrites, ResetDeletes, ResetSkips, RestoreBegins,
                RestorePrepares, RestoreStops, RestoreWritten, RestoreUnjournals, RestoreSyncs, RestoreFinishFails,
                UndoRemoved, UndoUncopies, UndoUnjournals, UndoEnds, UndoFails, ResetBegins, ResetEnds, CleanupBegins, CleanupMoves,
                CleanupRemoves, OnlyOp, diskVars, At
  <2> QED BY <1>1, <1>2, <2>1
<1> QED BY <1>1, <1>2, <1>3

LEMMA RestoreWorkLasts ==
  ASSUME Lasting, ~Trouble("finish"), NEW o \in Ops, UNCHANGED staged, op[o].kind = "restore", Work(o)
  PROVE  (\A f \in Files : Found(f)') /\ RestoreNewest(o)'
<1>1. \/ \E f \in Files : RestoreWrites(o, f) \/ UndoRemoves(o, f) \/ UndoRewrites(o, f)
      \/ RestoreBegins(o) \/ RestorePrepares(o) \/ RestoreStops(o) \/ RestoreWritten(o)
      \/ RestoreUnjournals(o) \/ RestoreSyncs(o) \/ UndoRemoved(o)
        \/ UndoUncopies(o) \/ UndoUnjournals(o) \/ UndoEnds(o) \/ UndoFails(o)
  <2>1. ~(\/ BackupBegins(o) \/ BackupStops(o) \/ Unstage(o) \/ BackupCommits(o)
          \/ RetireRemoves(o) \/ RetentionEnds(o) \/ (\E b \in backups : RetireMoves(o, b))
          \/ \E f \in Files : BackupCopies(o, f))
    BY
        DEF BackupBegins, BackupStops, Unstage, BackupCommits, RetireRemoves, RetentionEnds, RetireMoves,
           BackupCopies, At
  <2>2. ~(\/ ResetBegins(o) \/ ResetEnds(o) \/ CleanupBegins(o) \/ CleanupMoves(o) \/ CleanupRemoves(o)
          \/ \E f \in Files : ResetDeletes(o, f) \/ ResetSkips(o, f))
    BY
        DEF ResetBegins, ResetEnds, ResetDeletes, ResetSkips, CleanupBegins, CleanupMoves, CleanupRemoves, At
  <2>3. ~RestoreFinishFails(o)
    BY DEF RestoreFinishFails
  <2> QED BY <2>1, <2>2, <2>3 DEF Work
<1> QED BY <1>1, WritesLasts, PreparesLasts, FinishLasts, UndoLasts

(* No operation under its lease works beside a mutation, and a cleanup touches no file. *)
LEMMA WorkLasts ==
  ASSUME Lasting, ~Trouble("finish"), NEW o \in Ops, Work(o), UNCHANGED workspaceVars
  PROVE  Staging' /\ (\A f \in Files : Found(f)') /\ RestoreNewest(o)'
<1>0. UNCHANGED <<mutation, staged>> /\ Desk /\ Staging /\ Worked(o)
  BY WorkWorks DEF workspaceVars, Lasting, Reporting, Desk
<1>1. (\A f \in Files : Found(f)') /\ RestoreNewest(o)'
  <2>1. CASE op[o].kind = "restore"
    BY <1>0, <2>1, RestoreWorkLasts
  <2>2. CASE op[o].kind # "restore"
    <3>1. op'[o].kind # "restore"
      BY <1>0, <2>2 DEF Worked, Moves
    <3> QED BY <1>0, <2>2, <3>1, OtherLasts DEF RestoreNewest
  <2> QED BY <2>1, <2>2
<1>2. Apiece'
  BY <1>0 DEF Staging, Apiece, In, File, Past
<1>3. CASE op[o].kind = "cleanup"
  <2>1. UNCHANGED <<live, newest, rollback, journal>>
    BY <1>0, <1>3, OtherLasts
  <2>2. \A w \in Mutators : StageSound(w)'
    BY <1>0, <2>1 DEF Staging, StageSound, In, File, Past, Here
  <2> QED BY <1>1, <1>2, <2>2 DEF Staging
<1>4. CASE op[o].kind # "cleanup"
  <2>1. Leased(o)
    BY <1>0, <1>4 DEF Worked, Leased
  <2>2. \A w \in Mutators : In(w, "idle")
    BY <1>0, <2>1, LeasedAlone
  <2>3. \A w \in Mutators : StageSound(w)'
    BY <1>0, <2>2 DEF StageSound, In, Past
  <2> QED BY <1>1, <1>2, <2>3 DEF Staging
<1> QED BY <1>3, <1>4

(* Where the files and the transactions stand still, what a mutation enters is its own file. *)
LEMMA AsideLasts ==
  ASSUME Lasting, UNCHANGED <<live, newest, rollback, journal, staged>>,
         \A w \in Mutators : mutation'[w] = mutation[w] \/ mutation'[w].at \in {"idle", "root"},
         \A v, w \in Mutators : ~In(w, "idle")' /\ ~In(v, "idle")' /\ File(v)' = File(w)' => v = w
  PROVE  Staging' /\ \A f \in Files : Found(f)'
<1>0. Staging /\ \A f \in Files : Found(f)
  BY DEF Lasting
<1>1. \A f \in Files : Found(f)'
  BY <1>0 DEF Found, Here, Kept1
<1>2. \A w \in Mutators : Past(w)' => mutation'[w] = mutation[w] /\ Past(w) /\ File(w)' = File(w)
  BY DEF Past, File
<1>3. Apiece'
  <2>1. \A v, w \in Mutators : Past(w)' /\ staged'[v] # None /\ staged'[v].file = File(w)' => v = w
    BY <1>0, <1>2 DEF Staging, Apiece
  <2>2. \A v, w \in Mutators : staged'[v] # None /\ staged'[w] # None /\ staged'[v].file = staged'[w].file => v = w
    BY <1>0 DEF Staging, Apiece
  <2> QED BY <2>1, <2>2 DEF Apiece
<1>4. ASSUME NEW w \in Mutators PROVE StageSound(w)'
  <2>1. CASE mutation'[w] = mutation[w]
    BY <1>0, <2>1 DEF Staging, StageSound, In, File, Past, Here
  <2>2. CASE mutation'[w].at \in {"idle", "root"}
    BY <2>2 DEF StageSound, In, Past
  <2> QED BY <2>1, <2>2
<1> QED BY <1>1, <1>3, <1>4 DEF Staging

LEMMA MutationWritesLasts ==
  ASSUME Lasting, ~Trouble("together"), NEW w \in Mutators, MutationWrites(w)
  PROVE  Staging' /\ \A f \in Files : Found(f)'
<1>0. Desk /\ Staging /\ UNCHANGED <<live, newest, rollback, journal, staged>>
  BY DEF MutationWrites, NoFile, diskVars, Lasting, Reporting
<1>1. CASE In(w, "idle") /\ \E f \in Files : Begins(w, f)
  <2>1. PICK f \in Files : Begins(w, f)
    BY <1>1
  <2>2. /\ mutation'[w].at = "root" /\ mutation'[w].file = f
        /\ \A v \in Mutators \ {w} : mutation'[v] = mutation[v]
    BY <1>0, <1>1, <2>1, BeginsIs
  <2>3. \A v \in Mutators \ {w} : File(v) # f
    BY <2>1 DEF Begins
  <2>4. \A u, v \in Mutators : ~In(u, "idle")' /\ ~In(v, "idle")' /\ File(u)' = File(v)' => u = v
    BY <1>0, <2>2, <2>3 DEF Staging, Apiece, In, File
  <2> QED BY <1>0, <2>2, <2>4, AsideLasts
<1>2. CASE UNCHANGED mutation
  <2>1. \A u, v \in Mutators : ~In(u, "idle")' /\ ~In(v, "idle")' /\ File(u)' = File(v)' => u = v
    BY <1>0, <1>2 DEF Staging, Apiece, In, File
  <2> QED BY <1>0, <1>2, <2>1, AsideLasts
<1>3. CASE MutationOver(w)
  <2>1. mutation'[w].at = "idle" /\ \A v \in Mutators \ {w} : mutation'[v] = mutation[v]
    BY <1>0, <1>3 DEF MutationOver, NoMutation, Desk, Workspace
  <2>2. \A u, v \in Mutators : ~In(u, "idle")' /\ ~In(v, "idle")' /\ File(u)' = File(v)' => u = v
    BY <1>0, <2>1 DEF Staging, Apiece, In, File
  <2> QED BY <1>0, <2>1, <2>2, AsideLasts
<1> QED BY <1>1, <1>2, <1>3 DEF MutationWrites

LEMMA OpenClawLasts ==
  ASSUME Lasting, OpenClawWrites
  PROVE  Staging' /\ \A f \in Files : Found(f)'
<1>0. Workspace /\ DiskTyped /\ Clocked /\ Staging /\ \A f \in Files : Found(f)
  BY DEF Lasting, Reporting, Desk
<1>1. PICK f \in Files : GatewayWrites(f)
  BY DEF OpenClawWrites
<1>2. /\ UNCHANGED <<rollback, journal, op, mutation, staged>> /\ live'[f] = newest'[f]
      /\ \A g \in Files \ {f} : live'[g] = live[g] /\ newest'[g] = newest[g]
  BY <1>0, <1>1, GatewayWritesTyped DEF diskVars
<1>3. \A g \in Files : Found(g)' /\ (Here(g) => Here(g)')
  BY <1>0, <1>2, HereLasts
<1>4. Apiece'
  BY <1>0, <1>2 DEF Staging, Apiece, In, File, Past
<1>5. ASSUME NEW w \in Mutators PROVE StageSound(w)'
  <2>1. ~In(w, "idle") => File(w) \in Files
    BY <1>0 DEF Workspace
  <2>2. ~In(w, "idle") /\ Here(File(w)) => Here(File(w))'
    <3>1. ASSUME NEW g \in Files, Here(g), File(w) = g PROVE Here(File(w))'
      BY <1>2, <1>3, <3>1 DEF Here, File
    <3> QED BY <2>1, <3>1
  <2> QED BY <1>0, <1>2, <2>2 DEF Staging, StageSound, In, File, Past
<1> QED BY <1>3, <1>4, <1>5 DEF Staging

LEMMA ReadLasts ==
  ASSUME Lasting, ReadOpensRoot
  PROVE  Staging' /\ \A f \in Files : Found(f)'
<1>0. Workspace /\ DiskTyped /\ Clocked /\ Staging /\ \A f \in Files : Found(f)
  BY DEF Lasting, Reporting, Desk
<1>1. RecoverStaged /\ UNCHANGED <<newest, rollback, journal, mutation>>
  BY DEF ReadOpensRoot, RestOfDisk, diskVars
<1>2. /\ \A f \in Files : Found(f)' /\ (Here(f) => Here(f)')
      /\ \A w \in Mutators : staged'[w] = IF Stale(w) THEN None ELSE staged[w]
  BY <1>0, <1>1, RecoverLasts
<1>3. Repair \notin Mutators
  BY DesktopAssumption DEF Writers
<1>4. Staging'
  BY <1>0, <1>1, <1>2, <1>3, RecoverStaging
<1> QED BY <1>2, <1>4

LEMMA StepLasts ==
  ASSUME Lasting, ~Trouble("finish"), ~Trouble("read"), ~Trouble("together"), [Next]_vars
  PROVE  Staging' /\ \A f \in Files : Found(f)'
<1>0. Desk /\ Staging
  BY DEF Lasting, Reporting
<1>a. ASSUME UNCHANGED <<live, newest, rollback, journal, staged, mutation>>
      PROVE  Staging' /\ \A f \in Files : Found(f)'
  <2>1. \A u, v \in Mutators : ~In(u, "idle")' /\ ~In(v, "idle")' /\ File(u)' = File(v)' => u = v
    BY <1>0, <1>a DEF Staging, Apiece, In, File
  <2> QED BY <1>a, <2>1, AsideLasts
<1>1. CASE \/ AppStarts \/ AppQuits \/ ProcessEvent \/ RepairAsks \/ UNCHANGED vars
           \/ \E p \in Ops : OpAsks(p) \/ CleanupWrites(p)
           \/ \E l \in Leases : LeaseWaits(l) \/ LeaseStopped(l) \/ LeaseReleases(l) \/ LeaseReleased(l) \/ Starting(l)
  <2>1. UNCHANGED <<live, newest, rollback, journal, staged, mutation>>
    BY <1>1
        DEF AppStarts, AppQuits, ProcessEvent, RepairAsks, Starting, vars, data, maintenanceVars, diskVars,
                workspaceVars, OpAsks, CleanupWrites, LeaseWaits, LeaseStopped, LeaseReleases, LeaseReleased, DataButOp
  <2> QED BY <1>a, <2>1
<1>2. CASE Crash
  <2>1. /\ UNCHANGED <<live, newest, rollback, journal, staged>>
        /\ \A w \in Mutators : mutation'[w].at = "idle"
    BY <1>2 DEF Crash, diskVars, NoMutation
  <2>2. \A u, v \in Mutators : ~In(u, "idle")' /\ ~In(v, "idle")' /\ File(u)' = File(v)' => u = v
    BY <2>1 DEF In
  <2> QED BY <2>1, <2>2, AsideLasts
<1>3. CASE OpenClawWrites
  BY <1>3, OpenClawLasts
<1>4. CASE UserAsks
  <2>1. ASSUME NEW o \in Ops, Starts(o), UNCHANGED workspaceVars
        PROVE  UNCHANGED <<live, newest, rollback, journal, staged, mutation>>
    BY <2>1 DEF Starts, StartOperation, OnlyOp, diskVars, workspaceVars
  <2> QED BY <1>4, <1>a, <2>1, ReadLasts DEF UserAsks
<1>5. ASSUME NEW o \in Ops, OpWorks(o) PROVE Staging' /\ \A f \in Files : Found(f)'
  <2>1. UNCHANGED workspaceVars
    BY <1>5 DEF OpWorks
  <2>2. CASE Work(o)
    BY <2>1, <2>2, WorkLasts
  <2>3. CASE ResetClears(o)
    <3>1. UNCHANGED <<live, newest, rollback, journal, staged, mutation>>
      BY <2>1, <2>3 DEF ResetClears, workspaceVars
    <3> QED BY <1>a, <3>1
  <2> QED BY <1>5, <2>2, <2>3 DEF OpWorks
<1>6. ASSUME NEW w \in Mutators, MutationWrites(w) \/ MutationWorks(w)
      PROVE  Staging' /\ \A f \in Files : Found(f)'
  BY <1>6, MutationWritesLasts, MutationLasts DEF MutationWorks
<1> QED BY <1>1, <1>2, <1>3, <1>4, <1>5, <1>6 DEF Next

LEMMA NewestStep ==
  ASSUME Lasting, ~Trouble("finish"), ~Trouble("read"), [Next]_vars, NEW o \in Ops
  PROVE  RestoreNewest(o)'
<1>1. Arrives(o) /\ RestoreNewest(o) /\ Desk
  BY StepArrives DEF Lasting, Reporting
<1>2. CASE Work(o) /\ UNCHANGED workspaceVars
  BY <1>2, WorkLasts
<1>3. CASE ~(Work(o) /\ UNCHANGED workspaceVars) /\ op'[o] = op[o] /\ Leased(o)
  <2>1. op'[o].at # "idle"
    BY <1>3 DEF Leased, AtWork, Outside
  <2>2. Still
    BY <1>1, <1>3, <2>1, StandsStill
  <2> QED BY <1>1, <1>3, <2>2 DEF RestoreNewest, Still
<1>4. CASE ~(Work(o) /\ UNCHANGED workspaceVars) /\ op'[o] = op[o] /\ ~Leased(o)
  BY <1>4 DEF RestoreNewest, Leased, AtWork, Outside
<1>5. CASE ~(Work(o) /\ UNCHANGED workspaceVars) /\ op'[o] # op[o]
  BY <1>1, <1>5 DEF RestoreNewest, Arrives, Keeps, Still
<1> QED BY <1>2, <1>3, <1>4, <1>5

(* The newest content of a file is never lost: it is in its place, in a staging transaction with its
   journal, or in a rollback copy with its journal, through the interleavings of any number of
   mutations of different files with OpenClaw's writes, restores, their rollbacks, resets and crashes.
   Three troubles are left out because with each of them it is lost: reads that open the root under an
   operation, a failure after the rollback copies are removed, two mutations of one file. *)
THEOREM NothingIsEverLost ==
  ASSUME ~Trouble("finish"), ~Trouble("read"), ~Trouble("together") PROVE Spec => []NothingLost
<1>1. Init => Lasting
  <2> SUFFICES ASSUME Init PROVE Lasting
    OBVIOUS
  <2>1. Desk /\ \A o \in Ops : op[o] = Idle
    BY DeskInit DEF Init, MaintenanceInit
  <2>2. \A o \in Ops : RestoreSound(o) /\ RestoreNewest(o)
    BY <2>1, IdleIs DEF RestoreSound, RestoreNewest
  <2>3. \A f \in Files : Found(f)
    BY DEF Init, MaintenanceInit, Found, Here
  <2>4. \A w \in Mutators : mutation[w].at = "idle" /\ staged[w] = None
    BY DEF Init, WorkspaceInit, NoMutation
  <2>5. Staging
    BY <2>4 DEF Staging, Apiece, StageSound, In, Past
  <2> QED BY <2>1, <2>2, <2>3, <2>5 DEF Lasting, Reporting
<1>2. Lasting /\ [Next]_vars => Lasting'
  BY RestoresStep, StepLasts, NewestStep DEF Lasting
<1>3. Lasting => NothingLost
  BY DEF Lasting, Found, Here, Kept1, NothingLost
<1> QED BY <1>1, <1>2, <1>3, PTL DEF Spec
=============================================================================
