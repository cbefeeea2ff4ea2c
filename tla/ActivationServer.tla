--------------------------- MODULE ActivationServer ---------------------------
(***************************************************************************)
(* The activation server's database and the requests that race on it:      *)
(* POST /v1/activations (activation.Service over ActivationRepository), the *)
(* commit of an activation, licence expiry, and the operator mutations.    *)
(*                                                                         *)
(* A request runs on a connection of its own.  Between two transactions,   *)
(* and between an unlocked read and the locks that follow it, other        *)
(* requests and operators run; from the first row lock to the commit of a  *)
(* transaction nothing else touches the rows, since every writer of an     *)
(* activation takes the inventory row first.  So a request advances by     *)
(*   Validate -> ReadAttempt -> Begin... -> ReadForCompletion ->           *)
(*   Complete... -> Respond                                                *)
(* and may fail at any of these points (deadline, lost connection, KMS).   *)
(*                                                                         *)
(* The identifiers a request draws at random (activation, device, licence, *)
(* device token, lease token, startup secret) are all named by the request *)
(* that drew them, an element of Calls.                                    *)
(*                                                                         *)
(* A definition whose comment begins with "Mistake" is a wrong variant of  *)
(* the one after it; no action uses it.  Each breaks one of the properties *)
(* at the end of the module.                                               *)
(***************************************************************************)
EXTENDS Naturals, FiniteSets

CONSTANTS
  Codes,        \* inventory rows, each with its activation code
  Drives,       \* USB fingerprints
  Keys,         \* client idempotency keys, also presented by commits
  Calls,        \* activation requests, and the identifiers each one draws
  None,
  MaxRevision   \* bound on a licence's revision

ASSUME ServerAssumption ==
  /\ None \notin Codes \cup Drives \cup Keys \cup Calls
  /\ MaxRevision \in Nat \ {0}

VARIABLES
  inventory,    \* activation_inventory
  binding,      \* new_api_bindings, one row per inventory row
  device,       \* devices
  license,      \* licenses
  attempt,      \* activation_attempts
  tokens,       \* device_access_tokens issued by an activation
  events,       \* license_status_events
  call,         \* the requests in flight
  reply         \* what each request answered

rows == <<inventory, binding, device, license, attempt, tokens, events>>
vars == <<inventory, binding, device, license, attempt, tokens, events, call, reply>>

-----------------------------------------------------------------------------
(* The tables.  new_api_setup_status and balance_setup_status are written  *)
(* together by every writer; `configured' stands for both.  `mapped' says  *)
(* that the API key, base URL and models of the mapping are filled in.     *)

InventoryStatus == {"absent", "prepared", "binding", "active", "revoked"}
LicenseStatus   == {"prepared", "active", "disabled", "revoked", "expired", "reissued"}
DeviceStatus    == {"active", "disabled", "revoked", "reissued"}
Stages          == {"requested", "server_bound", "committed"}
Refusals        == {"ACTIVATION_INVALID", "BUILTIN_BALANCE_PENDING", "IDEMPOTENCY_CONFLICT",
                    "ACTIVATION_CODE_ALREADY_BOUND", "ACTIVATION_IN_PROGRESS",
                    "ACTIVATION_SERVICE_UNAVAILABLE"}

Inventories == [status : InventoryStatus, lease : Calls \cup {None}, leaseLive : BOOLEAN,
                replaces : Calls \cup {None}, entitlement : Nat]
Bindings    == [status : {"active", "disabled", "revoked"}, configured : BOOLEAN,
                mapped : BOOLEAN, device : Calls \cup {None}]
Devices     == [status : DeviceStatus \cup {"none"}, drive : Drives \cup {None}]
Licenses    == [status : LicenseStatus \cup {"none"}, revision : Nat, secret : Calls \cup {None},
                replacedBy : Calls \cup {None}, replacedIn : Codes \cup {None}]
Attempts    == [stage : Stages \cup {"none"}, code : Codes \cup {None}, key : Keys \cup {None},
                pending : Calls \cup {None}, artifact : Calls \cup {None},
                commit : Keys \cup {None}]
Events      == [license : Calls, revision : Nat, status : LicenseStatus]

Steps       == {"idle", "validate", "begin", "begin_locked", "complete", "complete_locked",
                "respond", "done"}
CallStates  == [pc : Steps, code : Codes \cup {None}, drive : Drives \cup {None},
                key : Keys \cup {None}, attempt : Calls \cup {None},
                seen : Stages \cup {"none"}, secret : Calls \cup {None}]
Replies     == [result : Refusals \cup {"none", "ok"},
                stage : {"none", "failed_before_bind", "server_bound"},
                attempt : Calls \cup {None}, secret : Calls \cup {None}]

NoInventory == [status |-> "absent", lease |-> None, leaseLive |-> FALSE,
                replaces |-> None, entitlement |-> 1]
NoBinding   == [status |-> "active", configured |-> FALSE, mapped |-> FALSE, device |-> None]
NoDevice    == [status |-> "none", drive |-> None]
NoLicense   == [status |-> "none", revision |-> 0, secret |-> None,
                replacedBy |-> None, replacedIn |-> None]
NoAttempt   == [stage |-> "none", code |-> None, key |-> None,
                pending |-> None, artifact |-> None, commit |-> None]
IdleCall    == [pc |-> "idle", code |-> None, drive |-> None, key |-> None,
                attempt |-> None, seen |-> "none", secret |-> None]
NoReply     == [result |-> "none", stage |-> "none", attempt |-> None, secret |-> None]

TypeOK ==
  /\ inventory \in [Codes -> Inventories]
  /\ binding \in [Codes -> Bindings]
  /\ device \in [Calls -> Devices]
  /\ license \in [Calls -> Licenses]
  /\ attempt \in [Calls -> Attempts]
  /\ tokens \subseteq Calls \X Calls
  /\ events \subseteq Events
  /\ call \in [Calls -> CallStates]
  /\ reply \in [Calls -> Replies]

Init ==
  /\ inventory = [i \in Codes |-> NoInventory]
  /\ binding = [i \in Codes |-> NoBinding]
  /\ device = [c \in Calls |-> NoDevice]
  /\ license = [c \in Calls |-> NoLicense]
  /\ attempt = [c \in Calls |-> NoAttempt]
  /\ tokens = {}
  /\ events = {}
  /\ call = [c \in Calls |-> IdleCall]
  /\ reply = [c \in Calls |-> NoReply]

-----------------------------------------------------------------------------
(* What the repository asks of the tables. *)

Bound(a) == attempt[a].stage # "none"

\* loadAttempt by idempotency_key (UNIQUE): at most one row.
WithKey(k) == {a \in Calls : Bound(a) /\ attempt[a].key = k}

\* The request fingerprint hashes the code, the drive and the client version.
SameRequest(a, c) == attempt[a].code = call[c].code /\ device[a].drive = call[c].drive

MappingReady(i) == binding[i].status = "active" /\ binding[i].configured /\ binding[i].mapped

\* The locked statuses against the stage of a record that was read BEFORE the
\* locks were granted.
RecoveryAllowed(a, stage) ==
  LET i == attempt[a].code IN
  /\ device[a].status = "active"
  /\ binding[i].status = "active"
  /\ \/ stage = "requested" /\ inventory[i].status = "binding" /\ license[a].status = "prepared"
     \/ stage \in {"server_bound", "committed"}
        /\ inventory[i].status = "active" /\ license[a].status = "active"

\* loadAttemptByInventoryAndDevice: only an inventory row that is already active.
BoundHere(c) ==
  {a \in Calls : /\ Bound(a)
                 /\ SameRequest(a, c)
                 /\ inventory[attempt[a].code].status = "active"
                 /\ device[a].status = "active"
                 /\ license[a].status = "active"
                 /\ binding[attempt[a].code].status = "active"}

-----------------------------------------------------------------------------
(* How a request ends.  The handler reports failed_before_bind unless the  *)
(* service returned an activation id.                                      *)

Refuse(c, result) ==
  /\ call' = [call EXCEPT ![c].pc = "done"]
  /\ reply' = [reply EXCEPT ![c] = [result |-> result, stage |-> "failed_before_bind",
                                    attempt |-> None, secret |-> None]]

FailBound(c, result, a) ==
  /\ call' = [call EXCEPT ![c].pc = "done"]
  /\ reply' = [reply EXCEPT ![c] = [result |-> result, stage |-> "server_bound",
                                    attempt |-> a, secret |-> None]]

\* The artifact of attempt a is to be decrypted and returned.
RespondWith(c, a) ==
  /\ call' = [call EXCEPT ![c].pc = "respond", ![c].attempt = a, ![c].secret = attempt[a].artifact]
  /\ UNCHANGED reply

Receive(c, i, d, k) ==
  /\ call[c].pc = "idle"
  /\ call' = [call EXCEPT ![c] = [IdleCall EXCEPT !.pc = "validate", !.code = i,
                                                  !.drive = d, !.key = k]]
  /\ UNCHANGED <<rows, reply>>

-----------------------------------------------------------------------------
(* ValidateBinding: reads without a transaction. *)

ValidationResult(c) ==
  LET i == call[c].code
      known == WithKey(call[c].key)
  IN  IF known # {}
        THEN IF \E a \in known : SameRequest(a, c) THEN "ok" ELSE "IDEMPOTENCY_CONFLICT"
      ELSE IF inventory[i].status = "absent" THEN "ACTIVATION_INVALID"
      ELSE IF ~MappingReady(i) THEN "BUILTIN_BALANCE_PENDING"
      ELSE IF \/ inventory[i].status = "prepared"
              \/ \E a \in Calls : Bound(a) /\ SameRequest(a, c)
        THEN "ok" ELSE "ACTIVATION_CODE_ALREADY_BOUND"

Validate(c) ==
  /\ call[c].pc = "validate"
  /\ LET result == ValidationResult(c) IN
     \/ /\ result = "ok"
        /\ call' = [call EXCEPT ![c].pc = "begin"]
        /\ UNCHANGED reply
     \/ result # "ok" /\ Refuse(c, result)
  /\ UNCHANGED rows

-----------------------------------------------------------------------------
(* BeginBinding. *)

\* The first statement of the transaction takes no lock.
ReadAttempt(c) ==
  /\ call[c].pc = "begin"
  /\ \/ /\ WithKey(call[c].key) = {}
        /\ call' = [call EXCEPT ![c].pc = "begin_locked"]
     \/ \E a \in WithKey(call[c].key) :
          call' = [call EXCEPT ![c].pc = "begin_locked", ![c].attempt = a,
                               ![c].seen = attempt[a].stage]
  /\ UNCHANGED <<rows, reply>>

\* resumeExisting, on the attempt read again under the locks.
LeaseIsFree(a) ==
  LET i == attempt[a].code IN inventory[i].status = "binding" /\ ~inventory[i].leaseLive

\* Mistake: the taker signs fresh material instead of the pending one.
TakeOverLease_FreshMaterial(c, a) ==
  /\ inventory' = [inventory EXCEPT ![attempt[a].code].lease = c,
                                    ![attempt[a].code].leaseLive = TRUE]
  /\ call' = [call EXCEPT ![c].pc = "complete", ![c].secret = c]
  /\ UNCHANGED <<binding, device, license, attempt, tokens, events, reply>>

TakeOverLease(c, a) ==
  /\ inventory' = [inventory EXCEPT ![attempt[a].code].lease = c,
                                    ![attempt[a].code].leaseLive = TRUE]
  /\ call' = [call EXCEPT ![c].pc = "complete", ![c].secret = attempt[a].pending]
  /\ UNCHANGED <<binding, device, license, attempt, tokens, events, reply>>

ResumeAttempt(c) ==
  /\ call[c].pc = "begin_locked"
  /\ call[c].attempt # None
  /\ LET a == call[c].attempt IN
     \/ /\ ~RecoveryAllowed(a, call[c].seen)
        /\ Refuse(c, "ACTIVATION_CODE_ALREADY_BOUND")
        /\ UNCHANGED rows
     \/ /\ RecoveryAllowed(a, call[c].seen)
        /\ ~SameRequest(a, c)
        /\ Refuse(c, "IDEMPOTENCY_CONFLICT")
        /\ UNCHANGED rows
     \/ /\ RecoveryAllowed(a, call[c].seen)
        /\ SameRequest(a, c)
        /\ \/ attempt[a].artifact # None /\ RespondWith(c, a) /\ UNCHANGED rows
           \/ attempt[a].artifact = None /\ LeaseIsFree(a) /\ TakeOverLease(c, a)
           \/ /\ attempt[a].artifact = None
              /\ ~LeaseIsFree(a)
              /\ Refuse(c, "ACTIVATION_IN_PROGRESS")
              /\ UNCHANGED rows

\* Mistake: usb_fingerprint_hmac is not UNIQUE.
FreshResult_AnyDrive(c) ==
  LET i == call[c].code IN
  IF inventory[i].status = "absent" THEN "ACTIVATION_INVALID"
  ELSE IF ~MappingReady(i) THEN "BUILTIN_BALANCE_PENDING"
  ELSE IF inventory[i].status # "prepared" THEN "ACTIVATION_CODE_ALREADY_BOUND"
  ELSE IF WithKey(call[c].key) # {} THEN "IDEMPOTENCY_CONFLICT"
  ELSE "bind"

\* The inventory row and its mapping are locked; no attempt had the key.
FreshResult(c) ==
  LET i == call[c].code IN
  IF inventory[i].status = "absent" THEN "ACTIVATION_INVALID"
  ELSE IF ~MappingReady(i) THEN "BUILTIN_BALANCE_PENDING"
  ELSE IF inventory[i].status # "prepared"
    THEN IF BoundHere(c) # {} THEN "recover" ELSE "ACTIVATION_CODE_ALREADY_BOUND"
  ELSE IF \E d \in Calls : device[d].drive = call[c].drive THEN "ACTIVATION_CODE_ALREADY_BOUND"
  ELSE IF WithKey(call[c].key) # {} THEN "IDEMPOTENCY_CONFLICT"
  ELSE "bind"

\* insertBinding: every row of the new activation, and the lease, in one commit.
InsertBinding(c) ==
  LET i == call[c].code IN
  /\ inventory' = [inventory EXCEPT ![i].status = "binding", ![i].lease = c, ![i].leaseLive = TRUE]
  /\ device' = [device EXCEPT ![c] = [status |-> "active", drive |-> call[c].drive]]
  /\ license' = [license EXCEPT ![c] = [NoLicense EXCEPT !.status = "prepared", !.secret = c,
                                                         !.revision = inventory[i].entitlement]]
  /\ binding' = [binding EXCEPT ![i].device = c]
  /\ attempt' = [attempt EXCEPT ![c] = [NoAttempt EXCEPT !.stage = "requested", !.code = i,
                                                         !.key = call[c].key, !.pending = c]]
  /\ call' = [call EXCEPT ![c].pc = "complete", ![c].attempt = c, ![c].secret = c]
  /\ UNCHANGED <<tokens, events, reply>>

BeginFresh(c) ==
  /\ call[c].pc = "begin_locked"
  /\ call[c].attempt = None
  /\ LET result == FreshResult(c) IN
     \/ result = "bind" /\ InsertBinding(c)
     \/ /\ result = "recover"
        /\ \E a \in BoundHere(c) : RespondWith(c, a)
        /\ UNCHANGED rows
     \/ result \in Refusals /\ Refuse(c, result) /\ UNCHANGED rows

-----------------------------------------------------------------------------
(* complete: the pending material is signed into the artifact, and         *)
(* CompleteBinding stores it.                                              *)

ReadForCompletion(c) ==
  /\ call[c].pc = "complete"
  /\ call' = [call EXCEPT ![c].pc = "complete_locked", ![c].seen = attempt[call[c].attempt].stage]
  /\ UNCHANGED <<rows, reply>>

\* Mistake: the licence that is replaced is left as it was.
StoreArtifact_Unlinked(c, a) ==
  LET i == attempt[a].code IN
  /\ tokens' = tokens \cup {<<a, call[c].secret>>}
  /\ inventory' = [inventory EXCEPT ![i].status = "active", ![i].lease = None, ![i].leaseLive = FALSE]
  /\ license' = [license EXCEPT ![a].status = "active"]
  /\ attempt' = [attempt EXCEPT ![a].stage = "server_bound", ![a].pending = None,
                                ![a].artifact = call[c].secret]
  /\ events' = events \cup {[license |-> a, revision |-> license[a].revision, status |-> "active"]}
  /\ call' = [call EXCEPT ![c].pc = "respond"]
  /\ UNCHANGED <<binding, device, reply>>

\* The rows one completed activation writes.  A licence this one replaces stops
\* pointing at the inventory row and points at the new licence.
StoreArtifact(c, a) ==
  LET i == attempt[a].code
      old == inventory[i].replaces
      linked == [license EXCEPT ![a].status = "active"]
  IN
  /\ tokens' = tokens \cup {<<a, call[c].secret>>}
  /\ inventory' = [inventory EXCEPT ![i].status = "active", ![i].lease = None, ![i].leaseLive = FALSE]
  /\ license' = IF old # None /\ license[old].status = "reissued" /\ license[old].replacedIn = i
                  THEN [linked EXCEPT ![old].replacedBy = a, ![old].replacedIn = None]
                  ELSE linked
  /\ attempt' = [attempt EXCEPT ![a].stage = "server_bound", ![a].pending = None,
                                ![a].artifact = call[c].secret]
  /\ events' = events \cup {[license |-> a, revision |-> license[a].revision, status |-> "active"]}
  /\ call' = [call EXCEPT ![c].pc = "respond"]
  /\ UNCHANGED <<binding, device, reply>>

HoldsLease(c, a) ==
  inventory[attempt[a].code].status = "binding" /\ inventory[attempt[a].code].lease = c

CompleteBinding(c) ==
  /\ call[c].pc = "complete_locked"
  /\ LET a == call[c].attempt IN
     \/ /\ ~RecoveryAllowed(a, call[c].seen)
        /\ FailBound(c, "ACTIVATION_CODE_ALREADY_BOUND", a)
        /\ UNCHANGED rows
     \/ /\ RecoveryAllowed(a, call[c].seen)
        /\ \/ attempt[a].artifact # None /\ RespondWith(c, a) /\ UNCHANGED rows
           \/ attempt[a].artifact = None /\ HoldsLease(c, a) /\ StoreArtifact(c, a)
           \/ /\ attempt[a].artifact = None
              /\ ~HoldsLease(c, a)
              /\ FailBound(c, "ACTIVATION_IN_PROGRESS", a)
              /\ UNCHANGED rows

\* recoverBound decrypts, records the recovery in the audit log, and answers.
Respond(c) ==
  /\ call[c].pc = "respond"
  /\ call' = [call EXCEPT ![c].pc = "done"]
  /\ reply' = [reply EXCEPT ![c] = [result |-> "ok", stage |-> "none",
                                    attempt |-> call[c].attempt, secret |-> call[c].secret]]
  /\ UNCHANGED rows

(***************************************************************************)
(* The database, the KMS, the signer or the deadline of the request fails. *)
(* Before BeginBinding no activation id is returned; an error of           *)
(* BeginBinding itself returns the id this request had drawn.              *)
(***************************************************************************)
Fail(c) ==
  /\ \/ /\ call[c].pc \in {"validate", "begin"}
        /\ Refuse(c, "ACTIVATION_SERVICE_UNAVAILABLE")
     \/ /\ call[c].pc \in {"begin", "begin_locked"}
        /\ FailBound(c, "ACTIVATION_SERVICE_UNAVAILABLE", c)
     \/ /\ call[c].pc \in {"complete", "complete_locked", "respond"}
        /\ FailBound(c, "ACTIVATION_SERVICE_UNAVAILABLE", call[c].attempt)
  /\ UNCHANGED rows

\* Mistake: an expired lease puts the code back in stock.
LeaseExpires_Restocks(i) ==
  /\ inventory[i].leaseLive
  /\ inventory' = [inventory EXCEPT ![i].leaseLive = FALSE, ![i].status = "prepared"]
  /\ UNCHANGED <<binding, device, license, attempt, tokens, events, call, reply>>

\* clock_timestamp() passes binding_lease_expires_at, whoever holds the lease.
LeaseExpires(i) ==
  /\ inventory[i].leaseLive
  /\ inventory' = [inventory EXCEPT ![i].leaseLive = FALSE]
  /\ UNCHANGED <<binding, device, license, attempt, tokens, events, call, reply>>

-----------------------------------------------------------------------------
(* POST /v1/activations/{id}/commit *)

CommitResult(a, k) ==
  IF ~Bound(a) THEN "ACTIVATION_INVALID"
  ELSE IF attempt[a].stage = "committed"
    THEN IF attempt[a].commit = k THEN "ok" ELSE "IDEMPOTENCY_CONFLICT"
  ELSE IF attempt[a].stage = "server_bound" THEN "ok"
  ELSE "ACTIVATION_IN_PROGRESS"

CommitActivation(a, k) ==
  /\ CommitResult(a, k) = "ok"
  /\ attempt' = [attempt EXCEPT ![a].stage = "committed", ![a].commit = k]
  /\ UNCHANGED <<inventory, binding, device, license, tokens, events, call, reply>>

-----------------------------------------------------------------------------
(* Operator commands and licence expiry. *)

CreateInventory(i) ==
  /\ inventory[i].status = "absent"
  /\ inventory' = [inventory EXCEPT ![i].status = "prepared"]
  /\ UNCHANGED <<binding, device, license, attempt, tokens, events, call, reply>>

MarkConfigured(i) ==
  /\ inventory[i].status # "absent"
  /\ binding' = [binding EXCEPT ![i].configured = TRUE]
  /\ UNCHANGED <<inventory, device, license, attempt, tokens, events, call, reply>>

SetMapping(i) ==
  /\ inventory[i].status # "absent"
  /\ binding' = [binding EXCEPT ![i].configured = TRUE, ![i].mapped = TRUE]
  /\ UNCHANGED <<inventory, device, license, attempt, tokens, events, call, reply>>

\* Mistake: a revoked licence can be enabled again.
ValidAdminTransition_Unrevoke(from, to) ==
  \/ to = "disabled" /\ from = "active"
  \/ to = "active" /\ from \in {"disabled", "revoked"}
  \/ to \in {"revoked", "reissued"} /\ from \in {"active", "disabled"}

ValidAdminTransition(from, to) ==
  \/ to = "disabled" /\ from = "active"
  \/ to = "active" /\ from = "disabled"
  \/ to \in {"revoked", "reissued"} /\ from \in {"active", "disabled"}

NextRevision(l) == license[l].revision + 1

\* The part of Mutate all four actions share.
MutateLicense(l, to, bindingStatus, replacedIn) ==
  LET i == attempt[l].code IN
  /\ ValidAdminTransition(license[l].status, to)
  /\ NextRevision(l) <= MaxRevision
  /\ license' = [license EXCEPT ![l].status = to, ![l].revision = NextRevision(l),
                                ![l].replacedIn = replacedIn]
  /\ device' = [device EXCEPT ![l].status = to]
  /\ binding' = [binding EXCEPT ![i].status = bindingStatus]
  /\ events' = events \cup {[license |-> l, revision |-> NextRevision(l), status |-> to]}
  /\ UNCHANGED <<attempt, tokens, call, reply>>

Disable(l) == MutateLicense(l, "disabled", "disabled", None) /\ UNCHANGED inventory

Enable(l) == MutateLicense(l, "active", "active", None) /\ UNCHANGED inventory

Revoke(l) ==
  /\ MutateLicense(l, "revoked", "revoked", None)
  /\ inventory' = [inventory EXCEPT ![attempt[l].code].status = "revoked"]

\* Mistake: the mapping takes a status its table does not know.
Reissue_BindingStatus(l, r) ==
  /\ inventory[r].status = "absent"
  /\ MutateLicense(l, "reissued", "reissued", r)
  /\ inventory' = [inventory EXCEPT ![attempt[l].code].status = "revoked",
                                    ![r] = [NoInventory EXCEPT !.status = "prepared", !.replaces = l,
                                                               !.entitlement = NextRevision(l)]]

\* The replacement is a new inventory row, with a code of its own, not configured yet.
Reissue(l, r) ==
  /\ inventory[r].status = "absent"
  /\ MutateLicense(l, "reissued", "revoked", r)
  /\ inventory' = [inventory EXCEPT ![attempt[l].code].status = "revoked",
                                    ![r] = [NoInventory EXCEPT !.status = "prepared", !.replaces = l,
                                                               !.entitlement = NextRevision(l)]]

\* Mistake: the expiry writes no status event.
ExpireLicense_NoEvent(l) ==
  /\ license[l].status = "active"
  /\ NextRevision(l) <= MaxRevision
  /\ license' = [license EXCEPT ![l].status = "expired", ![l].revision = NextRevision(l)]
  /\ UNCHANGED <<inventory, binding, device, attempt, tokens, events, call, reply>>

\* Mistake: a licence that is not active yet can expire.
ExpireLicense_AnyStatus(l) ==
  /\ license[l].status \in {"prepared", "active"}
  /\ NextRevision(l) <= MaxRevision
  /\ license' = [license EXCEPT ![l].status = "expired", ![l].revision = NextRevision(l)]
  /\ events' = events \cup {[license |-> l, revision |-> NextRevision(l), status |-> "expired"]}
  /\ UNCHANGED <<inventory, binding, device, attempt, tokens, call, reply>>

\* A status query on an active licence that is past expires_at.
ExpireLicense(l) ==
  /\ license[l].status = "active"
  /\ NextRevision(l) <= MaxRevision
  /\ license' = [license EXCEPT ![l].status = "expired", ![l].revision = NextRevision(l)]
  /\ events' = events \cup {[license |-> l, revision |-> NextRevision(l), status |-> "expired"]}
  /\ UNCHANGED <<inventory, binding, device, attempt, tokens, call, reply>>

-----------------------------------------------------------------------------
RequestStep(c) ==
  \/ Validate(c)
  \/ ReadAttempt(c)
  \/ ResumeAttempt(c)
  \/ BeginFresh(c)
  \/ ReadForCompletion(c)
  \/ CompleteBinding(c)
  \/ Respond(c)

LicenseStep(l) ==
  \/ Disable(l)
  \/ Enable(l)
  \/ Revoke(l)
  \/ \E r \in Codes : Reissue(l, r)
  \/ ExpireLicense(l)

InventoryStep(i) ==
  \/ CreateInventory(i)
  \/ MarkConfigured(i)
  \/ SetMapping(i)
  \/ LeaseExpires(i)

Next ==
  \/ \E c \in Calls, i \in Codes, d \in Drives, k \in Keys : Receive(c, i, d, k)
  \/ \E c \in Calls : RequestStep(c) \/ Fail(c) \/ LicenseStep(c)
  \/ \E a \in Calls, k \in Keys : CommitActivation(a, k)
  \/ \E i \in Codes : InventoryStep(i)

Spec == Init /\ [][Next]_vars

-----------------------------------------------------------------------------
(* Properties. *)

(***************************************************************************)
(* The five tables tell one story about every code.  A code nobody has     *)
(* bound has no device; a bound one has exactly the attempt, device and    *)
(* licence its mapping names, and their statuses fit together: nothing is  *)
(* active before the artifact is stored, a disabled licence has a disabled *)
(* device and mapping, a revoked or reissued one has also lost its code.   *)
(* Each table is updated by a statement of its own in CompleteBinding,     *)
(* Mutate and ExpireLicense.                                               *)
(***************************************************************************)
BindingStory(i) ==
  LET a == binding[i].device
      inv == inventory[i].status
      lic == license[a].status
  IN
  IF a = None
    THEN inv \in {"absent", "prepared"} /\ inventory[i].lease = None /\ binding[i].status = "active"
  ELSE
  /\ Bound(a) /\ attempt[a].code = i
  /\ attempt[a].stage = "requested" <=> inv = "binding"
  /\ inv = "binding" <=> lic = "prepared"
  /\ inv = "binding" <=> attempt[a].artifact = None
  /\ inv = "binding" <=> inventory[i].lease # None
  /\ inv \in {"binding", "active", "revoked"}
  /\ inv = "revoked" <=> lic \in {"revoked", "reissued"}
  /\ device[a].status = (CASE lic \in {"prepared", "active", "expired"} -> "active"
                           [] OTHER -> lic)
  /\ binding[i].status = (CASE lic \in {"prepared", "active", "expired"} -> "active"
                            [] lic = "disabled" -> "disabled"
                            [] OTHER -> "revoked")

RowsOwned ==
  /\ \A a \in Calls : Bound(a) => attempt[a].code # None /\ binding[attempt[a].code].device = a
  /\ \A a \in Calls : ~Bound(a) => device[a] = NoDevice /\ license[a] = NoLicense

StatusesAgree == RowsOwned /\ \A i \in Codes : BindingStory(i)

(***************************************************************************)
(* What a request remembers of the database across the gaps between its    *)
(* transactions is still true when it uses it: the attempt it found or     *)
(* made belongs to its code and drive, and the secret it carries is the    *)
(* one the licence row verifies, whoever stored the artifact meanwhile.    *)
(***************************************************************************)
Remembers(c) ==
  LET a == call[c].attempt
      pc == call[c].pc
  IN
  /\ pc # "idle" => call[c].code \in Codes /\ call[c].drive \in Drives /\ call[c].key \in Keys
  /\ pc \in {"idle", "validate", "begin", "begin_locked"} => ~Bound(c) /\ reply[c].result = "none"
  /\ pc \in {"validate", "begin"} => a = None
  /\ pc = "begin_locked" /\ a # None => Bound(a) /\ attempt[a].key = call[c].key
  /\ pc \in {"complete", "complete_locked", "respond"} =>
       /\ a # None
       /\ Bound(a)
       /\ SameRequest(a, c)
       /\ call[c].secret = license[a].secret
  /\ pc = "respond" => attempt[a].artifact = call[c].secret
  /\ reply[c].result # "none" => pc = "done"

\* The material of a bound attempt is either pending or stored, never both; the stored
\* one has its device token.
MaterialAgrees ==
  \A a \in Calls :
    /\ Bound(a) =>
         /\ license[a].secret # None
         /\ attempt[a].artifact = None => attempt[a].pending = license[a].secret
         /\ attempt[a].artifact # None => attempt[a].artifact = license[a].secret
                                         /\ attempt[a].pending = None
    /\ \A t \in Calls : <<a, t>> \in tokens <=> Bound(a) /\ t = attempt[a].artifact

MemoryIsTrue == MaterialAgrees /\ \A c \in Calls : Remembers(c)

(***************************************************************************)
(* A code is bound to one drive and a drive to one code, and an            *)
(* idempotency key to one attempt, whichever requests raced for them.      *)
(***************************************************************************)
BoundOnce ==
  \A a, b \in Calls : Bound(a) /\ Bound(b) /\ a # b =>
    /\ attempt[a].code # attempt[b].code
    /\ attempt[a].key # attempt[b].key
    /\ device[a].drive # device[b].drive

(***************************************************************************)
(* Every successful answer hands out working material: the secret is the   *)
(* one the licence row can verify, the device token is registered, and the *)
(* drive that asked is the drive that is bound.  Holds for the request     *)
(* that bound the code, for one that took over an expired lease, and for   *)
(* every later recovery, so all of them receive the same material.         *)
(***************************************************************************)
AnswersAreUsable ==
  \A c \in Calls : reply[c].result = "ok" =>
    LET a == reply[c].attempt IN
    /\ a # None /\ reply[c].secret # None
    /\ Bound(a)
    /\ SameRequest(a, c)
    /\ attempt[a].artifact = reply[c].secret
    /\ license[a].secret = reply[c].secret
    /\ \A t \in Calls : <<a, t>> \in tokens <=> t = reply[c].secret

(***************************************************************************)
(* license_status_events is a gapless history: one event per revision from *)
(* the entitlement the licence started at to the current one, the last of  *)
(* which carries the current status.  (UNIQUE (license_id, revision) would *)
(* make the mutation that repeats a revision fail for ever.)               *)
(***************************************************************************)
EventsOf(l) == {e \in events : e.license = l}

HistoryIsGapless ==
  \A l \in Calls :
    IF license[l].status \in {"none", "prepared"} THEN EventsOf(l) = {}
    ELSE /\ {e.revision : e \in EventsOf(l)} =
              inventory[attempt[l].code].entitlement .. license[l].revision
         /\ \A e, f \in EventsOf(l) : e.revision = f.revision => e = f
         /\ [license |-> l, revision |-> license[l].revision, status |-> license[l].status] \in events

(***************************************************************************)
(* A reissued licence points at its replacement: at the inventory row      *)
(* while that is waiting for a drive, then at the licence it activated,    *)
(* never at both and never at neither; and the replacement's revision is   *)
(* not below the one it replaces.                                          *)
(***************************************************************************)
ReissueLinked ==
  \A l \in Calls :
    LET r == license[l].replacedIn
        n == license[l].replacedBy
    IN
    /\ license[l].status = "reissued" <=> r # None \/ n # None
    /\ r # None => /\ n = None
                   /\ inventory[r].replaces = l
                   /\ inventory[r].status \in {"prepared", "binding"}
                   /\ inventory[r].entitlement = license[l].revision
    /\ n # None => /\ inventory[attempt[n].code].replaces = l
                   /\ attempt[n].artifact # None
                   /\ license[n].revision >= license[l].revision

\* Revoked, reissued and expired are final, and every other change of a status raises
\* the revision by one; only the activation itself keeps the revision it was issued at.
RevisionsOrderStatuses ==
  [][\A l \in Calls :
       /\ license[l].status \in {"revoked", "reissued", "expired"} =>
            license'[l].status = license[l].status /\ license'[l].revision = license[l].revision
       /\ license[l].status \notin {"none", "prepared"} /\ license'[l].status # license[l].status =>
            license'[l].revision = license[l].revision + 1]_vars

\* A binding is permanent: a bound code never returns to stock or changes its drive, and
\* the artifact, once stored, is the one every later answer carries.
BindingIsPermanent ==
  [][/\ \A i \in Codes : binding[i].device # None => binding'[i].device = binding[i].device
     /\ \A a \in Calls : Bound(a) =>
          /\ attempt'[a].code = attempt[a].code
          /\ device'[a].drive = device[a].drive
          /\ attempt[a].artifact # None => attempt'[a].artifact = attempt[a].artifact]_vars

-----------------------------------------------------------------------------
(***************************************************************************)
(* The tables implement ActivationService.  A code's bond is read off the   *)
(* licence its mapping names, and every transaction is one move of the      *)
(* bond or none.                                                           *)
(***************************************************************************)
PhaseOf(status) ==
  CASE status = "prepared" -> "pending"
    [] status = "active"   -> "active"
    [] status = "disabled" -> "suspended"
    [] OTHER               -> "ended"

BondOf(i) ==
  LET a == binding[i].device IN
  IF a = None THEN [phase |-> "free", drive |-> None, key |-> None, commit |-> None]
  ELSE [phase |-> PhaseOf(license[a].status), drive |-> device[a].drive,
        key |-> attempt[a].key, commit |-> attempt[a].commit]

Service == INSTANCE ActivationService WITH bond <- [i \in Codes |-> BondOf(i)]

ImplementsService == Service!Spec

=============================================================================
