--------------------------- MODULE ActivationService ---------------------------
(***************************************************************************)
(* What the activation server promises a client about a code, with none of *)
(* its tables, leases and transactions: a code is bound once, to one drive *)
(* and under one idempotency key; the binding is first pending, then       *)
(* active; it is committed under one commit key; and an operator or its    *)
(* expiry can suspend or end it, but never give it back.                   *)
(***************************************************************************)
CONSTANTS Codes, Drives, Keys, None

VARIABLE bond   \* what the server holds for each code

Free  == [phase |-> "free", drive |-> None, key |-> None, commit |-> None]

Bonds == [phase : {"free", "pending", "active", "suspended", "ended"},
          drive : Drives \cup {None}, key : Keys \cup {None}, commit : Keys \cup {None}]

Init == bond = [i \in Codes |-> Free]

Bind(i, d, k) ==
  /\ bond[i].phase = "free"
  /\ \A j \in Codes : bond[j].drive # d /\ bond[j].key # k
  /\ bond' = [bond EXCEPT ![i] = [phase |-> "pending", drive |-> d, key |-> k, commit |-> None]]

Move(i, from, to) ==
  /\ bond[i].phase \in from
  /\ bond' = [bond EXCEPT ![i].phase = to]

Activate(i) == Move(i, {"pending"}, "active")
Suspend(i)  == Move(i, {"active"}, "suspended")
Resume(i)   == Move(i, {"suspended"}, "active")
End(i)      == Move(i, {"active", "suspended"}, "ended")

Commit(i, k) ==
  /\ bond[i].phase \in {"active", "suspended", "ended"}
  /\ bond[i].commit \in {None, k}
  /\ bond' = [bond EXCEPT ![i].commit = k]

Next ==
  \E i \in Codes :
    \/ \E d \in Drives, k \in Keys : Bind(i, d, k)
    \/ Activate(i) \/ Suspend(i) \/ Resume(i) \/ End(i)
    \/ \E k \in Keys : Commit(i, k)

Spec == Init /\ [][Next]_bond

=============================================================================
