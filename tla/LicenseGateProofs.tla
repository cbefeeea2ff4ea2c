--------------------------- MODULE LicenseGateProofs ---------------------------
(* For any number of launchers and hosts, whatever their clocks show: how long a revoked
   licence can still start the program, and how far ahead of the server's time a host's
   record may lie.  Both rest on what every receipt that says "active" carries with it: the
   server signed it no later than the last time it confirmed the licence. *)
EXTENDS LicenseGate, TLAPS

Signed == {"answered", "judged", "anchored"}
Judged == {"judged", "anchored"}

(* What the record of a launcher keeps to, c being the time of the last confirmation. *)
Sound(g, c) ==
  /\ g.pc = "read" \/ g.pc \in Signed => g.receipt \in Receipts
  /\ g.pc \in Signed /\ g.receipt.status = "active" => g.receipt.checkedAt <= c
  /\ g.pc \in Judged /\ g.receipt.status = "active" => g.now < g.receipt.checkedAt + Grace
  /\ g.pc = "open" => g.now < c + Grace

GatesAreSound == \A l \in Launchers : gate[l] # None => Sound(gate[l], confirmed)
CacheIsSound ==
  cache # None /\ cache.receipt.status = "active" => cache.receipt.checkedAt <= confirmed
NotAhead == confirmed <= time

Inv == TypeOK /\ NotAhead /\ GatesAreSound /\ CacheIsSound /\ ClockDebtIsBounded

-----------------------------------------------------------------------------
(* A step of one launcher, seen from all: its own record is sound, and the others' stay so
   under a later confirmation. *)
LEMMA OneMoves ==
  ASSUME Inv, NEW l \in Launchers, NEW g \in Gates \cup {None}, gate' = [gate EXCEPT ![l] = g],
         confirmed' \in Int, confirmed <= confirmed', g # None => Sound(g, confirmed')
  PROVE  gate' \in [Launchers -> Gates \cup {None}] /\ GatesAreSound'
<1>1. gate \in [Launchers -> Gates \cup {None}] /\ confirmed \in Int /\ Grace \in Int
  BY GateAssumption DEF Inv, TypeOK
<1>2. gate' \in [Launchers -> Gates \cup {None}]
  BY <1>1
<1>3. ASSUME NEW k \in Launchers, gate'[k] # None PROVE Sound(gate'[k], confirmed')
  <2>1. CASE k = l
    BY <1>1, <1>3, <2>1
  <2>2. CASE k # l
    <3>1. gate'[k] = gate[k] /\ gate[k] \in Gates
      BY <1>1, <1>3, <2>2
    <3>2. Sound(gate[k], confirmed)
      BY <1>3, <3>1 DEF Inv, GatesAreSound
    <3>3. gate[k].now \in Int
      BY <3>1 DEF Gates
    <3>4. gate[k].pc \in Signed => gate[k].receipt.checkedAt \in Int
      BY <3>2 DEF Sound, Receipts
    <3> QED BY <1>1, <3>1, <3>2, <3>3, <3>4 DEF Sound
  <2> QED BY <2>1, <2>2
<1> QED BY <1>2, <1>3 DEF GatesAreSound

(* The record of a launcher at the gate. *)
LEMMA AtIsAGate ==
  ASSUME TypeOK, NEW l \in Launchers, NEW pc, At(l, pc)
  PROVE  gate[l] # None /\ gate[l] \in Gates /\ gate[l].pc = pc
BY DEF At, TypeOK

(* A launcher that gets on with its query. *)
LEMMA Answered ==
  ASSUME NEW g \in Gates, NEW pc \in AtGate, NEW r \in Receipts \cup {None}
  PROVE  LET h == [g EXCEPT !.pc = pc, !.asked = 0, !.receipt = r] IN
         h \in Gates /\ h.pc = pc /\ h.receipt = r
<1>1. r \in Receipts \cup {None} /\ pc \in AtGate \cup {"open"} /\ 0 \in Int
  OBVIOUS
<1> QED BY <1>1 DEF Gates

(* Giving up is always sound. *)
LEMMA RefusalIsSound ==
  ASSUME Inv, NEW l \in Launchers, Refuse(l), UNCHANGED confirmed
  PROVE  gate' \in [Launchers -> Gates \cup {None}] /\ GatesAreSound'
<1>1. confirmed' \in Int /\ confirmed <= confirmed'
  BY DEF Inv, TypeOK
<1>2. gate' = [gate EXCEPT ![l] = None] /\ None \in Gates \cup {None}
  BY DEF Refuse
<1>3. None # None => Sound(None, confirmed')
  OBVIOUS
<1> QED BY <1>1, <1>2, <1>3, OneMoves

LEMMA Initially == Init => Inv
<1> SUFFICES ASSUME Init PROVE Inv
  OBVIOUS
<1>1. Grace \in Nat \ {0} /\ Skews \subseteq Int
  BY GateAssumption
<1>2. TypeOK
  <2>1. "active" \in Statuses
    BY DEF Statuses
  <2>2. skew \in [Hosts -> Int]
    BY <1>1 DEF Init
  <2> QED BY <1>1, <2>1, <2>2 DEF Init, TypeOK
<1>3. NotAhead
  BY <1>1 DEF Init, NotAhead
<1>4. GatesAreSound /\ CacheIsSound /\ ClockDebtIsBounded
  BY DEF Init, GatesAreSound, CacheIsSound, ClockDebtIsBounded
<1> QED BY <1>2, <1>3, <1>4 DEF Inv

-----------------------------------------------------------------------------
(* The steps that no launcher makes. *)
LEMMA WorldKeepsInv ==
  ASSUME Inv, Tick \/ Plug \/ Mutate \/ \E h \in Hosts : SetClock(h)
  PROVE  Inv'
<1>1. UNCHANGED <<confirmed, cache, anchor, gate>> /\ time' >= time /\ time' \in Nat
  BY DEF Tick, Plug, Mutate, SetClock, licence, world, Inv, TypeOK
<1>2. status' \in Statuses /\ revision' \in Nat \ {0}
  BY DEF Tick, Plug, Mutate, SetClock, licence, Inv, TypeOK
<1>3. skew' \in [Hosts -> Int] /\ plugged' \in Hosts
  <2>1. CASE Tick \/ Plug \/ Mutate
    BY <2>1 DEF Tick, Plug, Mutate, world, Inv, TypeOK
  <2>2. ASSUME NEW h \in Hosts, SetClock(h) PROVE skew' \in [Hosts -> Int] /\ plugged' \in Hosts
    BY <2>2, GateAssumption DEF SetClock, Inv, TypeOK
  <2> QED BY <2>1, <2>2
<1>4. TypeOK'
  BY <1>1, <1>2, <1>3 DEF Inv, TypeOK
<1>5. NotAhead' /\ GatesAreSound' /\ CacheIsSound'
  BY <1>1 DEF Inv, TypeOK, NotAhead, GatesAreSound, CacheIsSound
<1>6. ClockDebtIsBounded'
  <2> SUFFICES ASSUME NEW h \in Hosts, anchor[h] # None, anchor[h].status = "active"
               PROVE  anchor[h].observed < time' + Grace
    BY <1>1 DEF ClockDebtIsBounded
  <2>1. anchor[h].observed \in Int /\ anchor[h].observed < time + Grace
    BY DEF Inv, TypeOK, Anchors, ClockDebtIsBounded
  <2> QED BY <1>1, <2>1, GateAssumption DEF Inv, TypeOK
<1> QED BY <1>4, <1>5, <1>6 DEF Inv

(* A launcher's step that changes nothing but its own record. *)
LEMMA OnlyGateMoves ==
  ASSUME Inv, UNCHANGED <<licence, world, cache, anchor>>,
         gate' \in [Launchers -> Gates \cup {None}], GatesAreSound'
  PROVE  Inv'
BY DEF licence, world, Inv, TypeOK, NotAhead, CacheIsSound, ClockDebtIsBounded

-----------------------------------------------------------------------------
(* The steps of a launcher and of the server that answers it. *)
LEMMA BeginKeepsInv == ASSUME Inv, NEW l \in Launchers, Begin(l) PROVE Inv'
<1> DEFINE g == [pc |-> "asked", host |-> plugged, now |-> Clock(plugged), asked |-> time,
                 receipt |-> None]
<1>1. Clock(plugged) \in Int
  BY DEF Inv, TypeOK, Clock
<1>2. g \in Gates
  BY <1>1 DEF Inv, TypeOK, Gates, AtGate
<1>3. Sound(g, confirmed')
  BY DEF Sound, Signed, Judged
<1>4. UNCHANGED <<licence, world, cache, anchor>> /\ gate' = [gate EXCEPT ![l] = g]
  BY DEF Begin
<1> HIDE DEF g
<1>5. confirmed' \in Int /\ confirmed <= confirmed'
  BY <1>4 DEF licence, Inv, TypeOK
<1>6. gate' \in [Launchers -> Gates \cup {None}] /\ GatesAreSound'
  BY <1>2, <1>3, <1>4, <1>5, OneMoves
<1> QED BY <1>4, <1>6, OnlyGateMoves

LEMMA ReadsKeepsInv == ASSUME Inv, NEW l \in Launchers, Reads(l) PROVE Inv'
<1> DEFINE r == [status |-> status, revision |-> revision, checkedAt |-> 0]
           g == [gate[l] EXCEPT !.pc = "read", !.receipt = r]
<1>1. gate[l] \in Gates /\ gate[l] # None
  BY AtIsAGate DEF Reads, Inv
<1>2. r \in Receipts
  BY DEF Inv, TypeOK, Receipts
<1>3. g \in Gates /\ g.pc = "read" /\ g.receipt = r
  BY <1>1, <1>2 DEF Gates, AtGate
<1>4. Sound(g, confirmed')
  BY <1>2, <1>3 DEF Sound, Signed, Judged
<1>5. UNCHANGED <<licence, world, cache, anchor>> /\ gate' = [gate EXCEPT ![l] = g]
  BY <1>1 DEF Reads, Inv, TypeOK
<1> HIDE DEF g
<1>6. confirmed' \in Int /\ confirmed <= confirmed'
  BY <1>5 DEF licence, Inv, TypeOK
<1>7. gate' \in [Launchers -> Gates \cup {None}] /\ GatesAreSound'
  BY <1>3, <1>4, <1>5, <1>6, OneMoves
<1> QED BY <1>5, <1>7, OnlyGateMoves

(* The confirmation advances to the server's time with the receipt that carries it. *)
LEMMA SignsKeepsInv == ASSUME Inv, NEW l \in Launchers, Signs(l) PROVE Inv'
<1> DEFINE over == gate[l].receipt.status = "active" /\ time >= ExpiresAt
           r == IF over THEN [status |-> status', revision |-> revision', checkedAt |-> time]
                        ELSE [gate[l].receipt EXCEPT !.checkedAt = time]
           g == [gate[l] EXCEPT !.pc = "answered", !.asked = 0, !.receipt = r]
<1>1. gate[l] \in Gates /\ gate[l] # None /\ gate[l].pc = "read"
  BY AtIsAGate DEF Signs, Inv
<1>2. gate[l].receipt \in Receipts
  BY <1>1 DEF Inv, GatesAreSound, Sound
<1>3. status' \in Statuses /\ revision' \in Nat \ {0}
  <2>1. "expired" \in Statuses
    BY DEF Statuses, Ended
  <2> QED BY <2>1 DEF Signs, Expire, Inv, TypeOK
<1>4. r \in Receipts /\ r.checkedAt = time
  BY <1>2, <1>3 DEF Inv, TypeOK, Receipts
<1>5. /\ UNCHANGED <<world, cache, anchor>>
      /\ gate' = [gate EXCEPT ![l] = g]
      /\ confirmed' = IF r.status = "active" THEN time ELSE confirmed
  BY <1>1 DEF Signs, Inv, TypeOK
<1> HIDE DEF r
<1>6. g \in Gates /\ g.pc = "answered" /\ g.receipt = r
  <2>1. "answered" \in AtGate /\ r \in Receipts \cup {None}
    BY <1>4 DEF AtGate
  <2> QED BY ZenonT(60), <1>1, <2>1, Answered
<1>7. confirmed' \in Int /\ confirmed <= confirmed' /\ confirmed' <= time
  BY <1>5 DEF Inv, TypeOK, NotAhead
<1>8. Sound(g, confirmed')
  <2>1. r.status = "active" => r.checkedAt <= confirmed'
    BY <1>4, <1>5 DEF Inv, TypeOK
  <2> QED BY <1>4, <1>6, <2>1 DEF Sound, Signed, Judged
<1> HIDE DEF g
<1>9. gate' \in [Launchers -> Gates \cup {None}] /\ GatesAreSound'
  BY <1>5, <1>6, <1>7, <1>8, OneMoves
<1>10. TypeOK'
  BY <1>3, <1>5, <1>7, <1>9 DEF Inv, TypeOK, world
<1>11. NotAhead' /\ ClockDebtIsBounded'
  BY <1>5, <1>7 DEF Inv, ClockDebtIsBounded, NotAhead, world
<1>12. CacheIsSound'
  <2> SUFFICES ASSUME cache # None, cache.receipt.status = "active"
               PROVE  cache.receipt.checkedAt <= confirmed'
    BY <1>5 DEF CacheIsSound
  <2>1. cache.receipt.checkedAt \in Int /\ cache.receipt.checkedAt <= confirmed
    BY DEF Inv, TypeOK, Caches, Receipts, CacheIsSound
  <2> QED BY <1>7, <2>1 DEF Inv, TypeOK
<1> QED BY <1>9, <1>10, <1>11, <1>12 DEF Inv

LEMMA UnavailableKeepsInv == ASSUME Inv, NEW l \in Launchers, Unavailable(l) PROVE Inv'
<1> DEFINE g == [gate[l] EXCEPT !.pc = "offline", !.asked = 0, !.receipt = None]
<1>1. gate[l] \in Gates /\ gate[l] # None
  BY AtIsAGate DEF Unavailable, Inv
<1>2. g \in Gates /\ g.pc = "offline"
  <2>1. "offline" \in AtGate /\ None \in Receipts \cup {None}
    BY DEF AtGate
  <2> QED BY ZenonT(60), <1>1, <2>1, Answered
<1>3. Sound(g, confirmed')
  BY <1>2 DEF Sound, Signed, Judged
<1>4. UNCHANGED <<licence, world, cache, anchor>> /\ gate' = [gate EXCEPT ![l] = g]
  BY <1>1 DEF Unavailable, Inv, TypeOK
<1> HIDE DEF g
<1>5. confirmed' \in Int /\ confirmed <= confirmed'
  BY <1>4 DEF licence, Inv, TypeOK
<1>6. gate' \in [Launchers -> Gates \cup {None}] /\ GatesAreSound'
  BY <1>2, <1>3, <1>4, <1>5, OneMoves
<1> QED BY <1>4, <1>6, OnlyGateMoves

(* The grace that a receipt allows is that of the server, and no more. *)
LEMMA GraceOfActive ==
  ASSUME NEW r \in Receipts, r.status = "active", NEW n \in Int, n < GraceUntil(r)
  PROVE  n < r.checkedAt + Grace
<1>1. r.checkedAt \in Int
  BY DEF Receipts
<1> QED BY <1>1, GateAssumption DEF GraceUntil, Earlier

(* A judged receipt that is active leaves the host's clock within its grace. *)
LEMMA JudgeOnlineKeepsInv == ASSUME Inv, NEW l \in Launchers, JudgeOnline(l) PROVE Inv'
<1> DEFINE g == [gate[l] EXCEPT !.pc = "judged"]
<1>1. gate[l] \in Gates /\ gate[l] # None /\ gate[l].pc = "answered"
  BY AtIsAGate DEF JudgeOnline, Inv
<1>2. UNCHANGED <<licence, world, cache, anchor>> /\ UNCHANGED confirmed
  BY DEF JudgeOnline, licence
<1>3. CASE OnlineVerdict(gate[l]) # "judged"
  <2>1. Refuse(l)
    BY <1>3 DEF JudgeOnline
  <2> QED BY <1>2, <2>1, RefusalIsSound, OnlyGateMoves
<1>4. CASE OnlineVerdict(gate[l]) = "judged"
  <2>1. gate' = [gate EXCEPT ![l] = g]
    BY <1>1, <1>4 DEF JudgeOnline, Inv, TypeOK
  <2>2. g \in Gates /\ g.pc = "judged" /\ g.receipt = gate[l].receipt /\ g.now = gate[l].now
    BY <1>1 DEF Gates, AtGate
  <2>3. Sound(gate[l], confirmed)
    BY <1>1 DEF Inv, GatesAreSound
  <2>4. gate[l].receipt \in Receipts /\ gate[l].now \in Int
    BY <1>1, <2>3 DEF Sound, Signed, Gates
  <2>5. gate[l].receipt.status = "active" => ~(gate[l].now >= GraceUntil(gate[l].receipt))
    BY <1>4 DEF OnlineVerdict
  <2>6. GraceUntil(gate[l].receipt) \in Int
    BY <2>4, GateAssumption DEF GraceUntil, Earlier, Receipts
  <2>7. gate[l].receipt.status = "active" => gate[l].now < gate[l].receipt.checkedAt + Grace
    BY <2>4, <2>5, <2>6, GraceOfActive
  <2>8. Sound(g, confirmed)
    BY <1>1, <2>2, <2>3, <2>7 DEF Sound, Signed, Judged
  <2> HIDE DEF g
  <2>9. confirmed' \in Int /\ confirmed <= confirmed' /\ Sound(g, confirmed')
    BY <1>2, <2>8 DEF Inv, TypeOK
  <2>10. gate' \in [Launchers -> Gates \cup {None}] /\ GatesAreSound'
    BY <2>1, <2>2, <2>9, OneMoves
  <2> QED BY <1>2, <2>10, OnlyGateMoves
<1> QED BY <1>3, <1>4

(* The cache holds what was signed, so its grace is not newer than the confirmation. *)
LEMMA JudgeOfflineKeepsInv == ASSUME Inv, NEW l \in Launchers, JudgeOffline(l) PROVE Inv'
<1> DEFINE r == cache.receipt
           g == [gate[l] EXCEPT !.pc = "judged", !.receipt = r]
<1>1. gate[l] \in Gates /\ gate[l] # None
  BY AtIsAGate DEF JudgeOffline, Inv
<1>2. UNCHANGED <<licence, world, cache, anchor>> /\ UNCHANGED confirmed
  BY DEF JudgeOffline, licence
<1>3. CASE OfflineVerdict(gate[l]) # "judged"
  <2>1. Refuse(l)
    BY <1>3 DEF JudgeOffline
  <2> QED BY <1>2, <2>1, RefusalIsSound, OnlyGateMoves
<1>4. CASE OfflineVerdict(gate[l]) = "judged"
  <2>1. gate' = [gate EXCEPT ![l] = g]
    BY <1>1, <1>4 DEF JudgeOffline, Inv, TypeOK
  <2>2. cache # None /\ ~(gate[l].now >= GraceUntil(r))
    BY <1>4 DEF OfflineVerdict
  <2>3. r \in Receipts /\ gate[l].now \in Int
    BY <1>1, <2>2 DEF Inv, TypeOK, Caches, Gates
  <2>4. g \in Gates /\ g.pc = "judged" /\ g.receipt = r /\ g.now = gate[l].now
    BY <1>1, <2>3 DEF Gates, AtGate
  <2>5. GraceUntil(r) \in Int
    BY <2>3, GateAssumption DEF GraceUntil, Earlier, Receipts
  <2>6. r.status = "active" => gate[l].now < r.checkedAt + Grace /\ r.checkedAt <= confirmed
    BY <2>2, <2>3, <2>5, GraceOfActive DEF Inv, CacheIsSound
  <2> HIDE DEF r
  <2>7. Sound(g, confirmed)
    BY <2>3, <2>4, <2>6 DEF Sound, Signed, Judged
  <2> HIDE DEF g
  <2>8. confirmed' \in Int /\ confirmed <= confirmed' /\ Sound(g, confirmed')
    BY <1>2, <2>7 DEF Inv, TypeOK
  <2>9. gate' \in [Launchers -> Gates \cup {None}] /\ GatesAreSound'
    BY <2>1, <2>4, <2>8, OneMoves
  <2> QED BY <1>2, <2>9, OnlyGateMoves
<1> QED BY <1>3, <1>4

(* What is written of an active licence was judged: its clock is within the grace of a
   receipt that is not newer than the server's time. *)
LEMMA WriteAnchorKeepsInv == ASSUME Inv, NEW l \in Launchers, WriteAnchor(l) PROVE Inv'
<1> DEFINE g == [gate[l] EXCEPT !.pc = "anchored"]
           a == [status |-> gate[l].receipt.status, revision |-> gate[l].receipt.revision,
                 observed |-> gate[l].now]
<1>1. gate[l] \in Gates /\ gate[l] # None /\ gate[l].pc = "judged"
  BY AtIsAGate DEF WriteAnchor, Inv
<1>2. UNCHANGED <<licence, world, cache>> /\ UNCHANGED confirmed
  BY DEF WriteAnchor, licence
<1>3. CASE Refuse(l) /\ UNCHANGED anchor
  BY <1>2, <1>3, RefusalIsSound, OnlyGateMoves
<1>4. CASE /\ anchor' = [anchor EXCEPT ![gate[l].host] = a]
           /\ gate' = [gate EXCEPT ![l].pc = "anchored"]
  <2>1. gate' = [gate EXCEPT ![l] = g]
    BY <1>1, <1>4 DEF Inv, TypeOK
  <2>2. /\ g \in Gates /\ g.pc = "anchored" /\ g.receipt = gate[l].receipt /\ g.now = gate[l].now
        /\ gate[l].host \in Hosts
    BY <1>1 DEF Gates, AtGate
  <2>3. Sound(gate[l], confirmed)
    BY <1>1 DEF Inv, GatesAreSound
  <2>4. gate[l].receipt \in Receipts /\ gate[l].now \in Int
    BY <1>1, <2>3 DEF Sound, Signed, Gates
  <2>5. Sound(g, confirmed)
    BY <1>1, <2>2, <2>3 DEF Sound, Signed, Judged
  <2>6. a \in Anchors
    BY <2>4 DEF Anchors, Receipts
  <2>7. a.status = "active" => a.observed < time + Grace
    <3>1. gate[l].receipt.status = "active" =>
            /\ gate[l].receipt.checkedAt <= confirmed
            /\ gate[l].now < gate[l].receipt.checkedAt + Grace
      BY <1>1, <2>3 DEF Sound, Signed, Judged
    <3>2. gate[l].receipt.checkedAt \in Int
      BY <2>4 DEF Receipts
    <3> QED BY <2>4, <3>1, <3>2, GateAssumption DEF Inv, TypeOK, NotAhead
  <2> HIDE DEF g, a
  <2>8. anchor' \in [Hosts -> Anchors \cup {None}]
    BY <1>4, <2>2, <2>6 DEF Inv, TypeOK
  <2>9. ClockDebtIsBounded'
    <3> SUFFICES ASSUME NEW h \in Hosts, anchor'[h] # None, anchor'[h].status = "active"
                 PROVE  anchor'[h].observed < time' + Grace
      BY DEF ClockDebtIsBounded
    <3>1. time' = time
      BY <1>2 DEF world
    <3>2. CASE h = gate[l].host
      <4>1. anchor'[h] = a
        BY <1>4, <2>2, <3>2 DEF Inv, TypeOK
      <4> QED BY <2>7, <3>1, <4>1
    <3>3. CASE h # gate[l].host
      <4>1. anchor'[h] = anchor[h]
        BY <1>4, <3>3 DEF Inv, TypeOK
      <4> QED BY <3>1, <4>1 DEF Inv, ClockDebtIsBounded
    <3> QED BY <3>2, <3>3
  <2>10. confirmed' \in Int /\ confirmed <= confirmed' /\ Sound(g, confirmed')
    BY <1>2, <2>5 DEF Inv, TypeOK
  <2>11. gate' \in [Launchers -> Gates \cup {None}] /\ GatesAreSound'
    BY <2>1, <2>2, <2>10, OneMoves
  <2> QED BY <1>2, <2>8, <2>9, <2>11 DEF Inv, TypeOK, NotAhead, CacheIsSound, licence, world
<1> QED BY <1>3, <1>4 DEF WriteAnchor

LEMMA WriteCacheKeepsInv == ASSUME Inv, NEW l \in Launchers, WriteCache(l) PROVE Inv'
<1> DEFINE g == [gate[l] EXCEPT !.pc = "open", !.receipt = None]
           c == [receipt |-> gate[l].receipt, observed |-> gate[l].now]
<1>1. gate[l] \in Gates /\ gate[l] # None /\ gate[l].pc = "anchored"
  BY AtIsAGate DEF WriteCache, Inv
<1>2. UNCHANGED <<licence, world, anchor>> /\ UNCHANGED confirmed
  BY DEF WriteCache, licence
<1>3. Sound(gate[l], confirmed)
  BY <1>1 DEF Inv, GatesAreSound
<1>4. gate[l].receipt \in Receipts /\ gate[l].receipt.checkedAt \in Int /\ gate[l].now \in Int
  BY <1>1, <1>3 DEF Sound, Signed, Gates, Receipts
<1>5. gate[l].receipt.status = "active" =>
        gate[l].receipt.checkedAt <= confirmed /\ gate[l].now < gate[l].receipt.checkedAt + Grace
  BY <1>1, <1>3 DEF Sound, Signed, Judged
<1>6. cache' \in Caches \cup {None} /\ CacheIsSound'
  <2>1. CASE UNCHANGED cache
    BY <1>2, <2>1 DEF Inv, TypeOK, CacheIsSound
  <2>2. CASE cache' = c
    <3>1. c \in Caches
      BY <1>4 DEF Caches
    <3> QED BY <1>2, <1>5, <2>2, <3>1 DEF CacheIsSound
  <2> QED BY <2>1, <2>2 DEF WriteCache
<1>7. gate' \in [Launchers -> Gates \cup {None}] /\ GatesAreSound'
  <2>1. CASE Refuse(l)
    BY <1>2, <2>1, RefusalIsSound
  <2>2. CASE Passes(l) /\ gate' = [gate EXCEPT ![l].pc = "open", ![l].receipt = None]
    <3>1. gate' = [gate EXCEPT ![l] = g]
      BY <1>1, <2>2 DEF Inv, TypeOK
    <3>2. g \in Gates /\ g.pc = "open" /\ g.now = gate[l].now
      BY <1>1 DEF Gates
    <3>3. gate[l].now < confirmed + Grace
      BY <1>4, <1>5, <2>2, GateAssumption DEF Passes, Inv, TypeOK
    <3>4. Sound(g, confirmed)
      BY <3>2, <3>3 DEF Sound, Signed, Judged
    <3> HIDE DEF g
    <3>5. confirmed' \in Int /\ confirmed <= confirmed' /\ Sound(g, confirmed')
      BY <1>2, <3>4 DEF Inv, TypeOK
    <3> QED BY <3>1, <3>2, <3>5, OneMoves
  <2> QED BY <2>1, <2>2 DEF WriteCache
<1> QED BY <1>2, <1>6, <1>7 DEF Inv, TypeOK, NotAhead, ClockDebtIsBounded, licence, world

LEMMA StopKeepsInv == ASSUME Inv, NEW l \in Launchers, Stop(l) PROVE Inv'
<1>1. Refuse(l) /\ UNCHANGED <<licence, world, cache, anchor>> /\ UNCHANGED confirmed
  BY DEF Stop, licence
<1> QED BY <1>1, RefusalIsSound, OnlyGateMoves

LEMMA NextKeepsInv == ASSUME Inv, [Next]_vars PROVE Inv'
<1>1. CASE Tick \/ Plug \/ Mutate \/ \E h \in Hosts : SetClock(h)
  BY <1>1, WorldKeepsInv
<1>2. ASSUME NEW l \in Launchers,
             \/ Begin(l) \/ Reads(l) \/ Signs(l) \/ Unavailable(l) \/ JudgeOnline(l)
             \/ JudgeOffline(l) \/ WriteAnchor(l) \/ WriteCache(l) \/ Stop(l)
      PROVE  Inv'
  BY <1>2, BeginKeepsInv, ReadsKeepsInv, SignsKeepsInv, UnavailableKeepsInv, JudgeOnlineKeepsInv,
     JudgeOfflineKeepsInv, WriteAnchorKeepsInv, WriteCacheKeepsInv, StopKeepsInv
<1>3. CASE UNCHANGED vars
  BY <1>3 DEF vars, licence, world, Inv, TypeOK, NotAhead, GatesAreSound, CacheIsSound, ClockDebtIsBounded
<1> QED BY <1>1, <1>2, <1>3 DEF Next

-----------------------------------------------------------------------------
(* Every receipt, wherever it is, is one the server signed; every record of a host or a
   launcher keeps to what it was made from. *)
THEOREM GateInvariant == Spec => []Inv
<1>1. Inv /\ [Next]_vars => Inv'
  BY NextKeepsInv
<1> QED BY <1>1, Initially, PTL DEF Spec

(* RevocationSpreads, for any launchers, hosts and clocks, also with several launchers of one
   host at the gate: VerifyLicenseLifecycle lets a program start only within the grace of
   the server's last confirmation. *)
THEOREM RevocationAlwaysSpreads == Spec => []RevocationSpreads
<1>1. Inv => RevocationSpreads
  BY DEF Inv, GatesAreSound, Sound, RevocationSpreads, At
<1> QED BY <1>1, GateInvariant, PTL

(* ClockDebtIsBounded: a host's record of an active licence is never further ahead of the
   server's time than the grace. *)
THEOREM ClockDebtIsAlwaysBounded == Spec => []ClockDebtIsBounded
<1>1. Inv => ClockDebtIsBounded
  BY DEF Inv
<1> QED BY <1>1, GateInvariant, PTL

-----------------------------------------------------------------------------
(* Launchers of one host that are not at the gate together: what a launcher has judged by is
   still what the host holds when it writes. *)
Record(g) == [status |-> g.receipt.status, revision |-> g.receipt.revision, observed |-> g.now]

OneAtGate ==
  \A k, l \in Launchers :
    k # l /\ gate[k] # None /\ gate[l] # None /\ gate[k].host = gate[l].host
      => gate[k].pc = "open" \/ gate[l].pc = "open"

JudgedGrows ==
  \A l \in Launchers : At(l, "judged") /\ anchor[gate[l].host] # None =>
    Grows(anchor[gate[l].host], Record(gate[l]))

InTurn == ~Together => OneAtGate /\ JudgedGrows

(* A launcher at the gate takes a step or gives up. *)
StepsOn(l) ==
  /\ \A k \in Launchers \ {l} : gate'[k] = gate[k]
  /\ \/ gate'[l] = None
     \/ gate[l] # None /\ gate[l].pc # "open" /\ gate'[l].host = gate[l].host

LEMMA StepKeepsTurns ==
  ASSUME InTurn, NEW l \in Launchers, StepsOn(l), UNCHANGED anchor,
         At(l, "judged")' /\ anchor[gate'[l].host] # None =>
           Grows(anchor[gate'[l].host], Record(gate'[l]))
  PROVE  InTurn'
<1> SUFFICES ASSUME ~Together PROVE OneAtGate' /\ JudgedGrows'
  BY DEF InTurn
<1>1. OneAtGate /\ JudgedGrows
  BY DEF InTurn
<1>2. OneAtGate'
  <2> SUFFICES ASSUME NEW j \in Launchers, NEW k \in Launchers, j # k, gate'[j] # None,
                      gate'[k] # None, gate'[j].host = gate'[k].host
               PROVE  gate'[j].pc = "open" \/ gate'[k].pc = "open"
    BY DEF OneAtGate
  <2>1. CASE j # l /\ k # l
    BY <1>1, <2>1 DEF OneAtGate, StepsOn
  <2>2. CASE j = l
    <3>1. gate'[k] = gate[k] /\ gate[l] # None /\ gate[l].pc # "open" /\ gate[l].host = gate[k].host
      BY <2>2 DEF StepsOn
    <3> QED BY <1>1, <2>2, <3>1 DEF OneAtGate
  <2>3. CASE k = l
    <3>1. gate'[j] = gate[j] /\ gate[l] # None /\ gate[l].pc # "open" /\ gate[l].host = gate[j].host
      BY <2>3 DEF StepsOn
    <3> QED BY <1>1, <2>3, <3>1 DEF OneAtGate
  <2> QED BY <2>1, <2>2, <2>3
<1>3. JudgedGrows'
  <2> SUFFICES ASSUME NEW k \in Launchers, At(k, "judged")', anchor[gate'[k].host] # None
               PROVE  Grows(anchor[gate'[k].host], Record(gate'[k]))
    BY DEF JudgedGrows
  <2>1. CASE k = l
    BY <2>1
  <2>2. CASE k # l
    <3>1. gate'[k] = gate[k]
      BY <2>2 DEF StepsOn
    <3>2. At(k, "judged")
      BY <3>1 DEF At
    <3> QED BY <1>1, <3>1, <3>2 DEF JudgedGrows
  <2> QED BY <2>1, <2>2
<1> QED BY <1>2, <1>3

(* An answer or a cache that passes its judgement does not lessen what the host knows. *)
LEMMA OnlineGrows ==
  ASSUME NEW g \in Gates, g.receipt \in Receipts, OnlineVerdict(g) = "judged",
         anchor[g.host] # None, anchor[g.host] \in Anchors
  PROVE  Grows(anchor[g.host], Record(g))
<1> DEFINE a == anchor[g.host]
<1>1. a.revision \in Int /\ a.observed \in Int /\ g.receipt.revision \in Int /\ g.now \in Int
  BY DEF Anchors, Receipts, Gates
<1>2. ~(g.now < a.observed) /\ ~Contradicts(a, g.receipt)
  BY DEF OnlineVerdict
<1>3. a.status \in Ended => g.receipt.status \in Ended
  BY <1>2 DEF Contradicts, Receipts, Statuses
<1>4. a.revision <= g.receipt.revision /\ a.observed <= g.now
  BY <1>1, <1>2 DEF Contradicts
<1>5. a.revision = g.receipt.revision => a.status = g.receipt.status
  BY <1>2 DEF Contradicts
<1> QED BY <1>3, <1>4, <1>5 DEF Grows, Record

LEMMA OfflineGrows ==
  ASSUME NEW g \in Gates, OfflineVerdict(g) = "judged", anchor[g.host] \in Anchors
  PROVE  Grows(anchor[g.host], Record([g EXCEPT !.pc = "judged", !.receipt = cache.receipt]))
<1> DEFINE a == anchor[g.host]
           h == [g EXCEPT !.pc = "judged", !.receipt = cache.receipt]
<1>1. h.receipt = cache.receipt /\ h.now = g.now
  BY DEF Gates
<1>2. ~(g.now < a.observed) /\ Agrees(a, cache)
  BY DEF OfflineVerdict
<1>3. a.revision \in Int /\ a.observed \in Int /\ g.now \in Int
  BY DEF Anchors, Gates
<1>4. Record(h) = [status |-> a.status, revision |-> a.revision, observed |-> g.now]
  BY <1>1, <1>2 DEF Record, Agrees
<1> HIDE DEF h
<1>5. Grows(a, [status |-> a.status, revision |-> a.revision, observed |-> g.now])
  BY <1>2, <1>3 DEF Grows
<1> QED BY <1>4, <1>5 DEF h

LEMMA BeginKeepsTurns == ASSUME Inv, InTurn, NEW l \in Launchers, Begin(l) PROVE InTurn'
<1> SUFFICES ASSUME ~Together PROVE OneAtGate' /\ JudgedGrows'
  BY DEF InTurn
<1>1. OneAtGate /\ JudgedGrows /\ UNCHANGED anchor
  BY DEF InTurn, Begin
<1>2. /\ \A k \in Launchers \ {l} : gate'[k] = gate[k]
      /\ gate'[l].pc = "asked" /\ gate'[l].host = plugged
      /\ \A k \in Launchers : gate[k] # None /\ gate[k].host = plugged => gate[k].pc = "open"
  BY DEF Begin, Inv, TypeOK
<1>3. OneAtGate'
  BY <1>1, <1>2 DEF OneAtGate
<1>4. JudgedGrows'
  <2> SUFFICES ASSUME NEW k \in Launchers, At(k, "judged")', anchor[gate'[k].host] # None
               PROVE  Grows(anchor[gate'[k].host], Record(gate'[k]))
    BY <1>1 DEF JudgedGrows
  <2>1. k # l
    BY <1>2 DEF At
  <2>2. gate'[k] = gate[k] /\ At(k, "judged")
    BY <1>2, <2>1 DEF At
  <2> QED BY <1>1, <2>2 DEF JudgedGrows
<1> QED BY <1>3, <1>4

LEMMA QueryKeepsTurns ==
  ASSUME Inv, InTurn, NEW l \in Launchers, Reads(l) \/ Signs(l) \/ Unavailable(l)
  PROVE  InTurn'
<1>1. gate \in [Launchers -> Gates \cup {None}]
  BY DEF Inv, TypeOK
<1>2. CASE Reads(l)
  <2>1. gate[l] \in Gates /\ gate[l] # None /\ gate[l].pc = "asked"
    BY <1>2, AtIsAGate DEF Reads, Inv
  <2>2. StepsOn(l) /\ UNCHANGED anchor /\ gate'[l].pc = "read"
    BY <1>1, <1>2, <2>1 DEF Reads, StepsOn, Gates
  <2> QED BY <2>2, StepKeepsTurns DEF At
<1>3. CASE Signs(l)
  <2>1. gate[l] \in Gates /\ gate[l] # None /\ gate[l].pc = "read"
    BY <1>3, AtIsAGate DEF Signs, Inv
  <2>2. StepsOn(l) /\ UNCHANGED anchor /\ gate'[l].pc = "answered"
    BY <1>1, <1>3, <2>1 DEF Signs, StepsOn, Gates
  <2> QED BY <2>2, StepKeepsTurns DEF At
<1>4. CASE Unavailable(l)
  <2>1. gate[l] \in Gates /\ gate[l] # None /\ gate[l].pc # "open"
    BY <1>4, AtIsAGate DEF Unavailable, Inv
  <2>2. StepsOn(l) /\ UNCHANGED anchor /\ gate'[l].pc = "offline"
    BY <1>1, <1>4, <2>1 DEF Unavailable, StepsOn, Gates
  <2> QED BY <2>2, StepKeepsTurns DEF At
<1> QED BY <1>2, <1>3, <1>4

(* A launcher that gives up holds nothing. *)
LEMMA RefusalKeepsTurns ==
  ASSUME Inv, InTurn, NEW l \in Launchers, Refuse(l), UNCHANGED anchor
  PROVE  InTurn'
<1>1. gate' = [gate EXCEPT ![l] = None] /\ gate \in [Launchers -> Gates \cup {None}]
  BY DEF Refuse, Inv, TypeOK
<1>2. StepsOn(l) /\ gate'[l] = None
  BY <1>1 DEF StepsOn
<1> QED BY <1>2, StepKeepsTurns DEF At

LEMMA JudgeKeepsTurns ==
  ASSUME Inv, InTurn, NEW l \in Launchers, JudgeOnline(l) \/ JudgeOffline(l)
  PROVE  InTurn'
<1>1. /\ gate \in [Launchers -> Gates \cup {None}]
      /\ anchor \in [Hosts -> Anchors \cup {None}]
      /\ UNCHANGED anchor
  BY DEF Inv, TypeOK, JudgeOnline, JudgeOffline
<1>2. CASE Refuse(l)
  BY <1>1, <1>2, RefusalKeepsTurns
<1>3. CASE JudgeOnline(l) /\ OnlineVerdict(gate[l]) = "judged"
  <2>1. gate[l] \in Gates /\ gate[l] # None /\ gate[l].pc = "answered"
    BY <1>3, AtIsAGate DEF JudgeOnline, Inv
  <2>2. gate[l].receipt \in Receipts /\ gate[l].host \in Hosts
    BY <2>1 DEF Inv, GatesAreSound, Sound, Signed, Gates
  <2>3. gate' = [gate EXCEPT ![l].pc = "judged"]
    BY <1>3 DEF JudgeOnline
  <2>4. /\ gate'[l].host = gate[l].host
        /\ gate'[l].receipt = gate[l].receipt /\ gate'[l].now = gate[l].now
    BY <1>1, <2>1, <2>3 DEF Gates
  <2>5. StepsOn(l)
    BY <1>1, <2>1, <2>3, <2>4 DEF StepsOn
  <2>6. anchor[gate[l].host] # None => Grows(anchor[gate[l].host], Record(gate[l]))
    BY <1>1, <1>3, <2>1, <2>2, OnlineGrows
  <2>7. Record(gate'[l]) = Record(gate[l])
    BY <2>4 DEF Record
  <2> QED BY <1>1, <2>4, <2>5, <2>6, <2>7, StepKeepsTurns
<1>4. CASE JudgeOffline(l) /\ OfflineVerdict(gate[l]) = "judged"
  <2> DEFINE h == [gate[l] EXCEPT !.pc = "judged", !.receipt = cache.receipt]
  <2>1. gate[l] \in Gates /\ gate[l] # None /\ gate[l].pc = "offline"
    BY <1>4, AtIsAGate DEF JudgeOffline, Inv
  <2>2. gate' = [gate EXCEPT ![l] = h] /\ h.host = gate[l].host /\ gate[l].host \in Hosts
    BY <1>1, <1>4, <2>1 DEF JudgeOffline, Gates
  <2>3. anchor[gate[l].host] # None => Grows(anchor[gate[l].host], Record(h))
    BY <1>1, <1>4, <2>1, <2>2, OfflineGrows
  <2> HIDE DEF h
  <2>4. gate'[l] = h
    BY <1>1, <2>2
  <2>5. StepsOn(l)
    BY <1>1, <2>1, <2>2, <2>4 DEF StepsOn
  <2> QED BY <1>1, <2>2, <2>3, <2>4, <2>5, StepKeepsTurns
<1> QED BY <1>2, <1>3, <1>4 DEF JudgeOnline, JudgeOffline

(* The only step that changes what a host knows: by the launcher that is alone at its gate. *)
LEMMA WriteAnchorKeepsTurns ==
  ASSUME Inv, InTurn, NEW l \in Launchers, WriteAnchor(l)
  PROVE  /\ InTurn'
         /\ ~Together => \A h \in Hosts : anchor[h] # None => Grows(anchor[h], anchor'[h])
<1>1. /\ gate \in [Launchers -> Gates \cup {None}]
      /\ anchor \in [Hosts -> Anchors \cup {None}]
  BY DEF Inv, TypeOK
<1>2. \A h \in Hosts : anchor[h] # None => Grows(anchor[h], anchor[h])
  <2> SUFFICES ASSUME NEW h \in Hosts, anchor[h] # None PROVE Grows(anchor[h], anchor[h])
    OBVIOUS
  <2>1. anchor[h].revision \in Int /\ anchor[h].observed \in Int
    BY <1>1 DEF Anchors
  <2> QED BY <2>1 DEF Grows
<1>3. CASE Refuse(l) /\ UNCHANGED anchor
  BY <1>2, <1>3, RefusalKeepsTurns
<1>4. CASE /\ anchor' = [anchor EXCEPT ![gate[l].host] = Record(gate[l])]
           /\ gate' = [gate EXCEPT ![l].pc = "anchored"]
  <2>1. gate[l] \in Gates /\ gate[l] # None /\ gate[l].pc = "judged" /\ gate[l].host \in Hosts
    BY AtIsAGate DEF WriteAnchor, Inv, Gates
  <2>2. gate'[l].pc = "anchored" /\ gate'[l].host = gate[l].host
    BY <1>1, <1>4, <2>1 DEF Gates
  <2> SUFFICES ASSUME ~Together
               PROVE  /\ OneAtGate' /\ JudgedGrows'
                      /\ \A h \in Hosts : anchor[h] # None => Grows(anchor[h], anchor'[h])
    BY DEF InTurn
  <2>3. OneAtGate /\ JudgedGrows
    BY DEF InTurn
  <2>4. \A k \in Launchers \ {l} : gate'[k] = gate[k]
    BY <1>1, <1>4
  <2>5. OneAtGate'
    BY <2>1, <2>2, <2>3, <2>4 DEF OneAtGate
  <2>6. JudgedGrows'
    <3> SUFFICES ASSUME NEW k \in Launchers, At(k, "judged")', anchor'[gate'[k].host] # None
                 PROVE  Grows(anchor'[gate'[k].host], Record(gate'[k]))
      BY DEF JudgedGrows
    <3>1. k # l
      BY <2>2 DEF At
    <3>2. gate'[k] = gate[k] /\ gate[k] # None /\ gate[k].pc = "judged" /\ At(k, "judged")
      BY <2>4, <3>1 DEF At
    <3>3. gate[k].host # gate[l].host
      BY <2>1, <2>3, <3>1, <3>2 DEF OneAtGate
    <3>4. gate[k].host \in Hosts
      BY <1>1, <3>2 DEF Gates
    <3>5. anchor'[gate[k].host] = anchor[gate[k].host]
      BY <1>1, <1>4, <3>3, <3>4
    <3> QED BY <2>3, <3>2, <3>5 DEF JudgedGrows
  <2>7. ASSUME NEW h \in Hosts, anchor[h] # None PROVE Grows(anchor[h], anchor'[h])
    <3>1. CASE h = gate[l].host
      <4>1. anchor'[h] = Record(gate[l])
        BY <1>1, <1>4, <3>1
      <4> QED BY <2>1, <2>3, <2>7, <3>1, <4>1 DEF JudgedGrows, At
    <3>2. CASE h # gate[l].host
      <4>1. anchor'[h] = anchor[h]
        BY <1>1, <1>4, <3>2
      <4> QED BY <1>2, <2>7, <4>1
    <3> QED BY <3>1, <3>2
  <2> QED BY <2>5, <2>6, <2>7
<1> QED BY <1>3, <1>4 DEF WriteAnchor, Record

LEMMA CloseKeepsTurns ==
  ASSUME Inv, InTurn, NEW l \in Launchers, WriteCache(l) \/ Stop(l)
  PROVE  InTurn'
<1>1. gate \in [Launchers -> Gates \cup {None}] /\ UNCHANGED anchor
  BY DEF Inv, TypeOK, WriteCache, Stop
<1>2. CASE Refuse(l)
  BY <1>1, <1>2, RefusalKeepsTurns
<1>3. CASE WriteCache(l) /\ gate' = [gate EXCEPT ![l].pc = "open", ![l].receipt = None]
  <2>1. gate[l] \in Gates /\ gate[l] # None /\ gate[l].pc = "anchored"
    BY <1>3, AtIsAGate DEF WriteCache, Inv
  <2>2. StepsOn(l) /\ gate'[l].pc = "open"
    BY <1>1, <1>3, <2>1 DEF StepsOn, Gates
  <2> QED BY <1>1, <2>2, StepKeepsTurns DEF At
<1> QED BY <1>2, <1>3 DEF WriteCache, Stop

LEMMA NextKeepsTurns ==
  ASSUME Inv, InTurn, [Next]_vars
  PROVE  /\ InTurn'
         /\ ~Together => \A h \in Hosts : anchor[h] # None => Grows(anchor[h], anchor'[h])
<1>1. ASSUME UNCHANGED anchor, NEW h \in Hosts, anchor[h] # None PROVE Grows(anchor[h], anchor'[h])
  <2>1. anchor[h].revision \in Int /\ anchor[h].observed \in Int
    BY <1>1 DEF Inv, TypeOK, Anchors
  <2> QED BY <1>1, <2>1 DEF Grows
<1>2. ASSUME UNCHANGED <<gate, anchor>> PROVE InTurn'
  BY <1>2 DEF InTurn, OneAtGate, JudgedGrows, At
<1>3. CASE Tick \/ Plug \/ Mutate \/ \E h \in Hosts : SetClock(h)
  BY <1>1, <1>2, <1>3 DEF Tick, Plug, Mutate, SetClock
<1>4. ASSUME NEW l \in Launchers, Begin(l) \/ Reads(l) \/ Signs(l) \/ Unavailable(l)
      PROVE  InTurn' /\ UNCHANGED anchor
  <2>1. UNCHANGED anchor
    BY <1>4 DEF Begin, Reads, Signs, Unavailable
  <2> QED BY <1>4, <2>1, BeginKeepsTurns, QueryKeepsTurns
<1>5. ASSUME NEW l \in Launchers, JudgeOnline(l) \/ JudgeOffline(l) \/ WriteCache(l) \/ Stop(l)
      PROVE  InTurn' /\ UNCHANGED anchor
  <2>1. UNCHANGED anchor
    BY <1>5 DEF JudgeOnline, JudgeOffline, WriteCache, Stop
  <2> QED BY <1>5, <2>1, JudgeKeepsTurns, CloseKeepsTurns
<1>6. CASE UNCHANGED vars
  BY <1>1, <1>2, <1>6 DEF vars
<1> QED BY <1>1, <1>3, <1>4, <1>5, <1>6, WriteAnchorKeepsTurns DEF Next

(* AnchorOnlyGrows: with one launcher of a host at the gate at a time, nothing that
   writeHostAuthorizationAnchor writes takes back a revision, an end or a time. *)
THEOREM AnchorAlwaysGrows == Spec => AnchorOnlyGrows
<1>1. Init => InTurn
  BY DEF Init, InTurn, OneAtGate, JudgedGrows, At
<1>2. Inv /\ InTurn /\ [Next]_vars => InTurn'
  BY NextKeepsTurns
<1>3. Inv /\ InTurn /\ [Next]_vars =>
        [~Together => \A h \in Hosts : anchor[h] # None => Grows(anchor[h], anchor'[h])]_vars
  BY NextKeepsTurns
<1> QED BY <1>1, <1>2, <1>3, GateInvariant, PTL DEF Spec, AnchorOnlyGrows

=============================================================================
