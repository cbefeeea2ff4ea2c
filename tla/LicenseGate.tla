------------------------------ MODULE LicenseGate ------------------------------
(* VerifyLicenseLifecycle of launcher/license_lifecycle.go: whether one drive's licence lets
   the program start on a host.  A launcher asks the activation server for a signed receipt
   of the licence's status; when the server cannot be reached it relies on the last receipt,
   which is kept on the drive (the cache), if it agrees with what the host has seen (the
   anchor).  The gate is passed before the instance lock is taken, so that several
   launchers may be at it; the drive moves between hosts, and clocks are set.  Signatures,
   encryption and the forms of the files are left out: every receipt, anchor and cache
   is authentic.  A definition whose comment begins with "Mistake" is a wrong variant of
   the one after it; no action uses it. *)
EXTENDS Integers

CONSTANTS
  Launchers,    \* launcher processes
  Hosts,        \* the computers the drive is used on
  Skews,        \* what a host's clock may show, less the server's time
  Grace,        \* the server's maximumGrace; the launcher allows no more than 24 hours
  ExpiresAt,    \* of the licence, which is valid from time 0 on
  Together,     \* whether two launchers of one host may be at the gate at once
  MaxTime,      \* bound: the server's time
  MaxRevision,  \* bound: revisions of the licence
  None

ASSUME GateAssumption ==
  /\ Skews \subseteq Int /\ 0 \in Skews
  /\ Grace \in Nat \ {0} /\ ExpiresAt \in Nat \ {0}
  /\ Together \in BOOLEAN
  /\ MaxTime \in Nat /\ MaxRevision \in Nat \ {0}

VARIABLES
  time,       \* of the server
  status,     \* the licence's row: its status
  revision,   \*   and its revision
  skew,       \* of each host's clock
  plugged,    \* the host the drive is plugged into, or was last
  cache,      \* license/.lifecycle-cache.json on the drive
  anchor,     \* the anchor of this licence on each host
  gate,       \* the launchers that run: where they are, on which host, what they hold
  confirmed   \* history: when the server last signed that the licence is active

licence == <<status, revision, confirmed>>
world == <<time, skew, plugged>>
vars == <<licence, world, cache, anchor, gate>>

\* terminalLifecycleStatus; nothing tells "reissued" from "revoked", which stands for both.
Ended == {"revoked", "expired", "disabled"}
Statuses == {"active"} \cup Ended
AtGate == {"asked", "read", "answered", "offline", "judged", "anchored"}

Receipts == [status : Statuses, revision : Nat \ {0}, checkedAt : Int]
Caches == [receipt : Receipts, observed : Int]
Anchors == [status : Statuses, revision : Nat \ {0}, observed : Int]
Gates == [pc : AtGate \cup {"open"}, host : Hosts, now : Int, asked : Int,
          receipt : Receipts \cup {None}]

TypeOK ==
  /\ time \in Nat /\ status \in Statuses /\ revision \in Nat \ {0} /\ confirmed \in Int
  /\ skew \in [Hosts -> Int] /\ plugged \in Hosts
  /\ cache \in Caches \cup {None}
  /\ anchor \in [Hosts -> Anchors \cup {None}]
  /\ gate \in [Launchers -> Gates \cup {None}]

Init ==
  /\ time = 0 /\ status = "active" /\ revision = 1 /\ confirmed = -Grace
  /\ skew \in [Hosts -> Skews] /\ plugged \in Hosts
  /\ cache = None /\ anchor = [h \in Hosts |-> None] /\ gate = [l \in Launchers |-> None]

-----------------------------------------------------------------------------
(* The hosts, the drive, the clocks. *)

Clock(h) == time + skew[h]

Tick ==
  /\ time < MaxTime /\ time' = time + 1
  /\ UNCHANGED <<licence, skew, plugged, cache, anchor, gate>>

SetClock(h) ==
  /\ \E d \in Skews : d # skew[h] /\ skew' = [skew EXCEPT ![h] = d]
  /\ UNCHANGED <<licence, time, plugged, cache, anchor, gate>>

Plug ==
  /\ \E h \in Hosts : h # plugged /\ plugged' = h
  /\ UNCHANGED <<licence, time, skew, cache, anchor, gate>>

-----------------------------------------------------------------------------
(* The server: the operator's commands, and the answer to a status query, which reads the
   row first and then the clock. *)

ValidAdminTransition(from, to) ==
  \/ to = "disabled" /\ from = "active"
  \/ to = "active" /\ from = "disabled"
  \/ to = "revoked" /\ from \in {"active", "disabled"}

Mutate ==
  /\ revision < MaxRevision
  /\ \E to \in Statuses : ValidAdminTransition(status, to) /\ status' = to
  /\ revision' = revision + 1
  /\ UNCHANGED <<confirmed, world, cache, anchor, gate>>

At(l, pc) == gate[l] # None /\ gate[l].pc = pc
Refuse(l) == gate' = [gate EXCEPT ![l] = None]

Reads(l) ==
  /\ At(l, "asked")
  /\ gate' = [gate EXCEPT ![l].pc = "read", ![l].receipt =
                [status |-> status, revision |-> revision, checkedAt |-> 0]]
  /\ UNCHANGED <<licence, world, cache, anchor>>

\* ExpireLicense reads the row again, under its lock.
Expire ==
  IF status = "active" THEN status' = "expired" /\ revision' = revision + 1
                       ELSE UNCHANGED <<status, revision>>

\* The server's clock is read after the launcher has read its own and asked.
Signs(l) ==
  /\ At(l, "read") /\ time > gate[l].asked
  /\ IF gate[l].receipt.status = "active" /\ time >= ExpiresAt
       THEN Expire ELSE status' = status /\ revision' = revision
  /\ LET r == IF gate[l].receipt.status = "active" /\ time >= ExpiresAt
               THEN [status |-> status', revision |-> revision', checkedAt |-> time]
               ELSE [gate[l].receipt EXCEPT !.checkedAt = time] IN
     /\ gate' = [gate EXCEPT ![l].pc = "answered", ![l].asked = 0, ![l].receipt = r]
     /\ confirmed' = IF r.status = "active" THEN time ELSE confirmed
  /\ UNCHANGED <<world, cache, anchor>>

-----------------------------------------------------------------------------
(* The launcher. *)

(* The local checks and VerifyLicenseLifecycle read the clock one after the other; one
   reading stands for both. *)
Begin(l) ==
  /\ gate[l] = None
  /\ Clock(plugged) \in 0 .. ExpiresAt - 1
  /\ Together \/ \A k \in Launchers :
       gate[k] # None /\ gate[k].host = plugged => gate[k].pc = "open"
  /\ gate' = [gate EXCEPT ![l] = [pc |-> "asked", host |-> plugged, now |-> Clock(plugged),
                                  asked |-> time, receipt |-> None]]
  /\ UNCHANGED <<licence, world, cache, anchor>>

\* The request or its answer is lost, the query times out, the server answers 5xx.
Unavailable(l) ==
  /\ \E pc \in {"asked", "read", "answered"} : At(l, pc)
  /\ gate' = [gate EXCEPT ![l].pc = "offline", ![l].asked = 0, ![l].receipt = None]
  /\ UNCHANGED <<licence, world, cache, anchor>>

Earlier(a, b) == IF a < b THEN a ELSE b

\* graceUntil of a receipt: that of one which is not active is its own time.
GraceUntil(r) == IF r.status = "active" THEN Earlier(r.checkedAt + Grace, ExpiresAt) ELSE r.checkedAt

\* Mistake: an answer of a later revision is taken whatever the anchor says.
Contradicts_Revived(a, r) ==
  \/ r.revision < a.revision
  \/ r.revision = a.revision /\ r.status # a.status

\* What an anchor refuses of an answer.
Contradicts(a, r) ==
  \/ r.revision < a.revision
  \/ r.revision = a.revision /\ r.status # a.status
  \/ a.status \in Ended /\ r.status = "active"

\* Mistake: an answer of the server needs no grace.
OnlineVerdict_AnyGrace(g) ==
  LET a == anchor[g.host] r == g.receipt IN
  IF g.now < r.checkedAt THEN "clock"
  ELSE IF a = None THEN "judged"
  ELSE IF g.now < a.observed THEN "clock"
  ELSE IF Contradicts(a, r) THEN "invalid" ELSE "judged"

OnlineVerdict(g) ==
  LET a == anchor[g.host] r == g.receipt IN
  IF g.now < r.checkedAt THEN "clock"
  ELSE IF r.status = "active" /\ g.now >= GraceUntil(r) THEN "grace"
  ELSE IF a = None THEN "judged"
  ELSE IF g.now < a.observed THEN "clock"
  ELSE IF Contradicts(a, r) THEN "invalid" ELSE "judged"

JudgeOnline(l) ==
  /\ At(l, "answered")
  /\ IF OnlineVerdict(gate[l]) = "judged" THEN gate' = [gate EXCEPT ![l].pc = "judged"]
                                          ELSE Refuse(l)
  /\ UNCHANGED <<licence, world, cache, anchor>>

\* The anchor and the cache were written together.
Agrees(a, c) ==
  a.revision = c.receipt.revision /\ a.status = c.receipt.status /\ a.observed = c.observed

\* Mistake: the grace runs from the last start.
OfflineVerdict_Sliding(g) ==
  LET a == anchor[g.host] IN
  IF a = None THEN "missing"
  ELSE IF g.now < a.observed THEN "clock"
  ELSE IF a.status \in Ended THEN "ended"
  ELSE IF cache = None \/ plugged # g.host THEN "missing"
  ELSE IF ~Agrees(a, cache) THEN "invalid"
  ELSE IF g.now < cache.receipt.checkedAt THEN "clock"
  ELSE IF g.now >= Earlier(cache.observed + Grace, ExpiresAt) THEN "grace" ELSE "judged"

OfflineVerdict(g) ==
  LET a == anchor[g.host] IN
  IF a = None THEN "missing"
  ELSE IF g.now < a.observed THEN "clock"
  ELSE IF a.status \in Ended THEN "ended"
  ELSE IF cache = None \/ plugged # g.host THEN "missing"
  ELSE IF ~Agrees(a, cache) THEN "invalid"
  ELSE IF g.now < cache.receipt.checkedAt THEN "clock"
  ELSE IF g.now >= GraceUntil(cache.receipt) THEN "grace" ELSE "judged"

JudgeOffline(l) ==
  /\ At(l, "offline")
  /\ IF OfflineVerdict(gate[l]) = "judged"
       THEN gate' = [gate EXCEPT ![l].pc = "judged", ![l].receipt = cache.receipt]
       ELSE Refuse(l)
  /\ UNCHANGED <<licence, world, cache, anchor>>

WriteAnchor(l) ==
  /\ At(l, "judged")
  /\ LET g == gate[l] IN
     \/ /\ anchor' = [anchor EXCEPT ![g.host] =
             [status |-> g.receipt.status, revision |-> g.receipt.revision, observed |-> g.now]]
        /\ gate' = [gate EXCEPT ![l].pc = "anchored"]
     \/ Refuse(l) /\ UNCHANGED anchor
  /\ UNCHANGED <<licence, world, cache>>

\* After the gate the instance lock is taken.
Passes(l) ==
  /\ gate[l].receipt.status = "active"
  /\ \A k \in Launchers : At(k, "open") => gate[k].host # gate[l].host

WriteCache(l) ==
  /\ At(l, "anchored")
  /\ \/ /\ plugged = gate[l].host
        /\ cache' = [receipt |-> gate[l].receipt, observed |-> gate[l].now]
        /\ IF Passes(l) THEN gate' = [gate EXCEPT ![l].pc = "open", ![l].receipt = None]
                        ELSE Refuse(l)
     \/ Refuse(l) /\ UNCHANGED cache
  /\ UNCHANGED <<licence, world, anchor>>

\* The launcher or the program ends, is killed, or loses its drive.
Stop(l) ==
  /\ gate[l] # None /\ Refuse(l)
  /\ UNCHANGED <<licence, world, cache, anchor>>

Next ==
  \/ Tick \/ Plug \/ Mutate
  \/ \E h \in Hosts : SetClock(h)
  \/ \E l \in Launchers : \/ Begin(l) \/ Reads(l) \/ Signs(l) \/ Unavailable(l)
                          \/ JudgeOnline(l) \/ JudgeOffline(l)
                          \/ WriteAnchor(l) \/ WriteCache(l) \/ Stop(l)

Spec == Init /\ [][Next]_vars

-----------------------------------------------------------------------------
(* Properties. *)

\* How far a revocation can lag behind: as the host's clock shows it, the program starts only
\* within the grace of the last receipt in which the server said that the licence is active,
\* whatever was cached, copied between hosts, torn by a crash or set back.
RevocationSpreads ==
  \A l \in Launchers : At(l, "open") => gate[l].now < confirmed + Grace

\* A clock that ran ahead costs at most the grace: what a host has recorded of an active
\* licence lies less than that after the server's time, so that a clock put right is
\* not taken for one set back for longer.
ClockDebtIsBounded ==
  \A h \in Hosts : anchor[h] # None /\ anchor[h].status = "active" => anchor[h].observed < time + Grace

\* What a host knows of a licence only grows, through answers, restarts, failing writes and
\* offline starts, as long as its launchers are at the gate one at a time: no older revision,
\* no other status of the same revision, no earlier time, and no way back from an end.
Grows(a, b) ==
  /\ a.revision <= b.revision
  /\ a.revision = b.revision => a.status = b.status
  /\ a.status \in Ended => b.status \in Ended
  /\ a.observed <= b.observed

AnchorOnlyGrows ==
  [][~Together => \A h \in Hosts : anchor[h] # None => Grows(anchor[h], anchor'[h])]_vars

\* The server says that the licence is active, on a host whose clock is right and that knows
\* nothing else: the launcher goes on.
ActiveIsAllowed ==
  Skews = {0} => \A l \in Launchers :
    At(l, "answered") /\ gate[l].receipt.status = "active" /\ anchor[gate[l].host] = None
      => OnlineVerdict(gate[l]) = "judged"

=============================================================================
