------------------------ MODULE ActivationServerProofs ------------------------
(***************************************************************************)
(* Theorems about ActivationServer, for every set of codes, drives, keys   *)
(* and requests and every bound on the revision.                           *)
(***************************************************************************)
EXTENDS ActivationServer, TLAPS

\* What a request holds in each of its steps, as far as types go.
CallsTyped ==
  \A c \in Calls :
    /\ call[c].pc # "idle" => call[c].code \in Codes /\ call[c].drive \in Drives
                              /\ call[c].key \in Keys
    /\ call[c].pc \in {"complete", "complete_locked", "respond"} => call[c].attempt \in Calls

Typed == TypeOK /\ CallsTyped

LEMMA TypedInit == Init => Typed
<1> SUFFICES ASSUME Init PROVE Typed
  OBVIOUS
<1> USE ServerAssumption DEF Init
<1>1. NoInventory \in Inventories /\ NoBinding \in Bindings /\ NoDevice \in Devices
  BY DEF NoInventory, Inventories, InventoryStatus, NoBinding, Bindings, NoDevice, Devices
<1>2. NoLicense \in Licenses /\ NoAttempt \in Attempts
  BY DEF NoLicense, Licenses, NoAttempt, Attempts
<1>3. IdleCall \in CallStates /\ NoReply \in Replies
  BY DEF IdleCall, CallStates, Steps, NoReply, Replies
<1>4. TypeOK
  BY <1>1, <1>2, <1>3 DEF TypeOK
<1>5. CallsTyped
  BY DEF CallsTyped, IdleCall
<1> QED BY <1>4, <1>5 DEF Typed

-----------------------------------------------------------------------------
(* What one request's step does to the table of requests. *)

LEMMA CallStepTyped ==
  ASSUME Typed, NEW c \in Calls, NEW next \in CallStates,
         next.pc # "idle" => next.code \in Codes /\ next.drive \in Drives /\ next.key \in Keys,
         next.pc \in {"complete", "complete_locked", "respond"} => next.attempt \in Calls,
         call' = [call EXCEPT ![c] = next]
  PROVE  call' \in [Calls -> CallStates] /\ CallsTyped'
<1>1. call \in [Calls -> CallStates]
  BY DEF Typed, TypeOK
<1>2. ASSUME NEW x \in Calls PROVE call'[x] = IF x = c THEN next ELSE call[x]
  BY <1>1
<1>3. CallsTyped'
  BY <1>2 DEF Typed, CallsTyped
<1> QED BY <1>1, <1>3

LEMMA CallTyped ==
  ASSUME Typed, NEW c \in Calls
  PROVE  /\ call[c] \in CallStates
         /\ call[c].attempt \in Calls \cup {None}
         /\ call[c].secret \in Calls \cup {None}
         /\ call[c].pc # "idle" => call[c].code \in Codes /\ call[c].drive \in Drives
                                   /\ call[c].key \in Keys
         /\ call[c].pc \in {"complete", "complete_locked", "respond"} => call[c].attempt \in Calls
BY DEF Typed, TypeOK, CallsTyped, CallStates

LEMMA AttemptTyped ==
  ASSUME Typed, NEW a \in Calls
  PROVE  /\ attempt[a] \in Attempts
         /\ attempt[a].artifact \in Calls \cup {None}
         /\ attempt[a].pending \in Calls \cup {None}
         /\ attempt[a].stage \in Stages \cup {"none"}
BY DEF Typed, TypeOK, Attempts

LEMMA RefuseTyped ==
  ASSUME Typed, NEW c \in Calls, call[c].pc # "idle", NEW result \in Refusals, Refuse(c, result)
  PROVE  call' \in [Calls -> CallStates] /\ reply' \in [Calls -> Replies] /\ CallsTyped'
<1> DEFINE next == [call[c] EXCEPT !.pc = "done"]
<1>1. call' = [call EXCEPT ![c] = next] 
  BY DEF Refuse
<1>2. next \in CallStates /\ next.pc = "done" /\ next.code \in Codes /\ next.drive \in Drives
      /\ next.key \in Keys
  BY CallTyped DEF CallStates, Steps
<1>3. reply' \in [Calls -> Replies]
  BY DEF Refuse, Typed, TypeOK, Replies
<1> HIDE DEF next
<1> QED BY <1>1, <1>2, <1>3, CallStepTyped

LEMMA FailBoundTyped ==
  ASSUME Typed, NEW c \in Calls, call[c].pc # "idle", NEW result \in Refusals, NEW a \in Calls,
         FailBound(c, result, a)
  PROVE  call' \in [Calls -> CallStates] /\ reply' \in [Calls -> Replies] /\ CallsTyped'
<1> DEFINE next == [call[c] EXCEPT !.pc = "done"]
<1>1. call' = [call EXCEPT ![c] = next] 
  BY DEF FailBound
<1>2. next \in CallStates /\ next.pc = "done" /\ next.code \in Codes /\ next.drive \in Drives
      /\ next.key \in Keys
  BY CallTyped DEF CallStates, Steps
<1>3. reply' \in [Calls -> Replies]
  BY DEF FailBound, Typed, TypeOK, Replies
<1> HIDE DEF next
<1> QED BY <1>1, <1>2, <1>3, CallStepTyped

LEMMA RespondWithTyped ==
  ASSUME Typed, NEW c \in Calls, call[c].pc # "idle", NEW a \in Calls, RespondWith(c, a)
  PROVE  call' \in [Calls -> CallStates] /\ reply' \in [Calls -> Replies] /\ CallsTyped'
<1> DEFINE next == [call[c] EXCEPT !.pc = "respond", !.attempt = a, !.secret = attempt[a].artifact]
<1>1. call' = [call EXCEPT ![c] = next] /\ reply' = reply
  BY DEF RespondWith
<1>2. next \in CallStates /\ next.pc = "respond" /\ next.code \in Codes /\ next.drive \in Drives
      /\ next.key \in Keys /\ next.attempt = a
  BY CallTyped, AttemptTyped DEF CallStates, Steps
<1>3. reply' \in [Calls -> Replies]
  BY <1>1 DEF Typed, TypeOK
<1> HIDE DEF next
<1> QED BY <1>1, <1>2, <1>3, CallStepTyped

-----------------------------------------------------------------------------
(* Every action keeps the types. *)

LEMMA ReceiveTyped ==
  ASSUME Typed, NEW c \in Calls, NEW i \in Codes, NEW d \in Drives, NEW k \in Keys,
         Receive(c, i, d, k)
  PROVE  Typed'
<1> DEFINE next == [IdleCall EXCEPT !.pc = "validate", !.code = i, !.drive = d, !.key = k]
<1>1. call' = [call EXCEPT ![c] = next]
  BY DEF Receive
<1>2. next \in CallStates /\ next.code = i /\ next.drive = d /\ next.key = k /\ next.pc = "validate"
  BY DEF IdleCall, CallStates, Steps
<1> HIDE DEF next
<1>3. call' \in [Calls -> CallStates] /\ CallsTyped'
  BY <1>1, <1>2, CallStepTyped
<1> QED BY <1>3 DEF Receive, rows, Typed, TypeOK

LEMMA ValidationTyped ==
  ASSUME NEW c \in Calls
  PROVE  ValidationResult(c) \in Refusals \cup {"ok"}
BY DEF ValidationResult, Refusals

LEMMA ValidateTyped ==
  ASSUME Typed, NEW c \in Calls, Validate(c)
  PROVE  Typed'
<1>0. call[c].pc # "idle" /\ UNCHANGED rows
  BY DEF Validate
<1>1. CASE ValidationResult(c) # "ok" /\ Refuse(c, ValidationResult(c))
  <2>1. ValidationResult(c) \in Refusals
    BY <1>1, ValidationTyped
  <2> QED BY <1>0, <2>1, <1>1, RefuseTyped DEF Typed, TypeOK, rows
<1>2. CASE call' = [call EXCEPT ![c].pc = "begin"] /\ UNCHANGED reply
  <2> DEFINE next == [call[c] EXCEPT !.pc = "begin"]
  <2>1. call' = [call EXCEPT ![c] = next]
    BY <1>2
  <2>2. next \in CallStates /\ next.pc = "begin" /\ next.code \in Codes /\ next.drive \in Drives
        /\ next.key \in Keys
    BY <1>0, CallTyped DEF CallStates, Steps
  <2> HIDE DEF next
  <2>3. call' \in [Calls -> CallStates] /\ CallsTyped'
    BY <2>1, <2>2, CallStepTyped
  <2> QED BY <1>0, <1>2, <2>3 DEF Typed, TypeOK, rows
<1> QED BY <1>1, <1>2 DEF Validate

LEMMA ReadAttemptTyped ==
  ASSUME Typed, NEW c \in Calls, ReadAttempt(c)
  PROVE  Typed'
<1>0. call[c].pc = "begin" /\ UNCHANGED <<rows, reply>>
  BY DEF ReadAttempt
<1>1. CASE call' = [call EXCEPT ![c].pc = "begin_locked"]
  <2> DEFINE next == [call[c] EXCEPT !.pc = "begin_locked"]
  <2>1. call' = [call EXCEPT ![c] = next]
    BY <1>1
  <2>2. next \in CallStates /\ next.pc = "begin_locked" /\ next.code \in Codes
        /\ next.drive \in Drives /\ next.key \in Keys
    BY <1>0, CallTyped DEF CallStates, Steps
  <2> HIDE DEF next
  <2>3. call' \in [Calls -> CallStates] /\ CallsTyped'
    BY <2>1, <2>2, CallStepTyped
  <2> QED BY <1>0, <2>3 DEF Typed, TypeOK, rows
<1>2. ASSUME NEW a \in WithKey(call[c].key),
             call' = [call EXCEPT ![c].pc = "begin_locked", ![c].attempt = a,
                                  ![c].seen = attempt[a].stage]
      PROVE  Typed'
  <2> DEFINE next == [call[c] EXCEPT !.pc = "begin_locked", !.attempt = a,
                                     !.seen = attempt[a].stage]
  <2>1. call' = [call EXCEPT ![c] = next]
    BY <1>2
  <2>2. a \in Calls
    BY DEF WithKey
  <2>3. next \in CallStates /\ next.pc = "begin_locked" /\ next.code \in Codes
        /\ next.drive \in Drives /\ next.key \in Keys
    BY <1>0, <2>2, CallTyped, AttemptTyped DEF CallStates, Steps
  <2> HIDE DEF next
  <2>4. call' \in [Calls -> CallStates] /\ CallsTyped'
    BY <2>1, <2>3, CallStepTyped
  <2> QED BY <1>0, <2>4 DEF Typed, TypeOK, rows
<1> QED BY <1>1, <1>2 DEF ReadAttempt

LEMMA TakeOverLeaseTyped ==
  ASSUME Typed, NEW c \in Calls, call[c].pc = "begin_locked", NEW a \in Calls,
         call[c].attempt = a, attempt[a].code \in Codes, TakeOverLease(c, a)
  PROVE  Typed'
<1> DEFINE i == attempt[a].code
           row == [inventory[i] EXCEPT !.lease = c, !.leaseLive = TRUE]
<1>1. inventory' \in [Codes -> Inventories]
  <2>1. row \in Inventories
    BY ZenonT(40) DEF Typed, TypeOK, Inventories
  <2>2. inventory' = [inventory EXCEPT ![i] = row]
    BY DEF TakeOverLease, Typed, TypeOK
  <2> QED BY <2>1, <2>2 DEF Typed, TypeOK
<1> DEFINE next == [call[c] EXCEPT !.pc = "complete", !.secret = attempt[a].pending]
<1>2. call' = [call EXCEPT ![c] = next]
  BY DEF TakeOverLease
<1>3. next \in CallStates /\ next.pc = "complete" /\ next.code \in Codes /\ next.drive \in Drives
      /\ next.key \in Keys /\ next.attempt = a
  BY CallTyped, AttemptTyped DEF CallStates, Steps
<1> HIDE DEF next
<1>4. call' \in [Calls -> CallStates] /\ CallsTyped'
  BY <1>2, <1>3, CallStepTyped
<1> QED BY <1>1, <1>4 DEF TakeOverLease, Typed, TypeOK

LEMMA ResumeAttemptTyped ==
  ASSUME Typed, NEW c \in Calls, attempt[call[c].attempt].code \in Codes, ResumeAttempt(c)
  PROVE  Typed'
<1> DEFINE a == call[c].attempt
<1>1. call[c].pc = "begin_locked" /\ a \in Calls
  BY CallTyped DEF ResumeAttempt
<1>2. {"ACTIVATION_CODE_ALREADY_BOUND", "IDEMPOTENCY_CONFLICT", "ACTIVATION_IN_PROGRESS"}
        \subseteq Refusals
  BY DEF Refusals
<1>3. ASSUME NEW result \in Refusals, Refuse(c, result), UNCHANGED rows
      PROVE  Typed'
  BY <1>1, <1>3, RefuseTyped DEF rows, Typed, TypeOK
<1>4. CASE RespondWith(c, a) /\ UNCHANGED rows
  BY <1>1, <1>4, RespondWithTyped DEF rows, Typed, TypeOK
<1>5. CASE TakeOverLease(c, a)
  BY <1>1, <1>5, TakeOverLeaseTyped
<1> QED BY <1>2, <1>3, <1>4, <1>5 DEF ResumeAttempt

LEMMA FreshTyped ==
  ASSUME NEW c \in Calls
  PROVE  FreshResult(c) \in Refusals \cup {"bind", "recover"}
BY DEF FreshResult, Refusals

LEMMA InsertBindingTyped ==
  ASSUME Typed, NEW c \in Calls, call[c].pc = "begin_locked", InsertBinding(c)
  PROVE  Typed'
<1> DEFINE i == call[c].code
<1>0. call[c] \in CallStates /\ i \in Codes /\ call[c].drive \in Drives /\ call[c].key \in Keys
  BY CallTyped
<1>1. inventory' \in [Codes -> Inventories]
  BY SMTT(30), <1>0 DEF InsertBinding, Typed, TypeOK, Inventories, InventoryStatus
<1>2. binding' \in [Codes -> Bindings]
  BY SMTT(30), <1>0 DEF InsertBinding, Typed, TypeOK, Bindings
<1>3. device' \in [Calls -> Devices]
  BY <1>0 DEF InsertBinding, Typed, TypeOK, Devices, DeviceStatus
<1>4. license' \in [Calls -> Licenses]
  <2>1. inventory[i].entitlement \in Nat
    BY <1>0 DEF Typed, TypeOK, Inventories
  <2>2. [NoLicense EXCEPT !.status = "prepared", !.secret = c,
                          !.revision = inventory[i].entitlement] \in Licenses
    BY <2>1 DEF NoLicense, Licenses, LicenseStatus
  <2> QED BY <2>2 DEF InsertBinding, Typed, TypeOK
<1>5. attempt' \in [Calls -> Attempts]
  <2>1. [NoAttempt EXCEPT !.stage = "requested", !.code = i, !.key = call[c].key,
                          !.pending = c] \in Attempts
    BY <1>0 DEF NoAttempt, Attempts, Stages
  <2> QED BY <2>1 DEF InsertBinding, Typed, TypeOK
<1> DEFINE next == [call[c] EXCEPT !.pc = "complete", !.attempt = c, !.secret = c]
<1>6. call' = [call EXCEPT ![c] = next]
  BY DEF InsertBinding
<1>7. next \in CallStates /\ next.pc = "complete" /\ next.code \in Codes /\ next.drive \in Drives
      /\ next.key \in Keys /\ next.attempt = c
  BY <1>0 DEF CallStates, Steps
<1> HIDE DEF next
<1>8. call' \in [Calls -> CallStates] /\ CallsTyped'
  BY <1>6, <1>7, CallStepTyped
<1>9. UNCHANGED <<tokens, events, reply>>
  BY DEF InsertBinding
<1> QED BY <1>1, <1>2, <1>3, <1>4, <1>5, <1>8, <1>9 DEF Typed, TypeOK

LEMMA BeginFreshTyped ==
  ASSUME Typed, NEW c \in Calls, BeginFresh(c)
  PROVE  Typed'
<1>1. call[c].pc = "begin_locked"
  BY DEF BeginFresh
<1>2. CASE InsertBinding(c)
  BY <1>1, <1>2, InsertBindingTyped
<1>3. ASSUME NEW a \in BoundHere(c), RespondWith(c, a), UNCHANGED rows
      PROVE  Typed'
  <2>1. a \in Calls
    BY DEF BoundHere
  <2> QED BY <1>1, <1>3, <2>1, RespondWithTyped DEF rows, Typed, TypeOK
<1>4. CASE FreshResult(c) \in Refusals /\ Refuse(c, FreshResult(c)) /\ UNCHANGED rows
  BY <1>1, <1>4, RefuseTyped DEF rows, Typed, TypeOK
<1> QED BY <1>2, <1>3, <1>4 DEF BeginFresh

LEMMA ReadForCompletionTyped ==
  ASSUME Typed, NEW c \in Calls, ReadForCompletion(c)
  PROVE  Typed'
<1> DEFINE next == [call[c] EXCEPT !.pc = "complete_locked", !.seen = attempt[call[c].attempt].stage]
<1>1. call' = [call EXCEPT ![c] = next] /\ UNCHANGED <<rows, reply>>
  BY DEF ReadForCompletion
<1>2. call[c].pc = "complete" /\ call[c].attempt \in Calls
  BY CallTyped DEF ReadForCompletion
<1>3. next \in CallStates /\ next.pc = "complete_locked" /\ next.code \in Codes
      /\ next.drive \in Drives /\ next.key \in Keys /\ next.attempt = call[c].attempt
  BY <1>2, CallTyped, AttemptTyped DEF CallStates, Steps
<1> HIDE DEF next
<1>4. call' \in [Calls -> CallStates] /\ CallsTyped'
  BY <1>1, <1>2, <1>3, CallStepTyped
<1> QED BY <1>1, <1>4 DEF rows, Typed, TypeOK

LEMMA StoreArtifactTyped ==
  ASSUME Typed, NEW c \in Calls, call[c].pc = "complete_locked", NEW a \in Calls,
         call[c].attempt = a, call[c].secret # None, attempt[a].code \in Codes,
         StoreArtifact(c, a)
  PROVE  Typed'
<1> DEFINE i == attempt[a].code
           linked == [license EXCEPT ![a].status = "active"]
           old == inventory[i].replaces
<1>0. call[c] \in CallStates /\ call[c].secret \in Calls
  BY CallTyped
<1>1. inventory' \in [Codes -> Inventories]
  <2> DEFINE row == [inventory[i] EXCEPT !.status = "active", !.lease = None, !.leaseLive = FALSE]
  <2>0. inventory[i] \in Inventories
    BY DEF Typed, TypeOK
  <2>1. row \in Inventories
    BY <2>0 DEF Inventories, InventoryStatus
  <2>2. inventory' = [inventory EXCEPT ![i] = row]
    BY DEF StoreArtifact, Typed, TypeOK
  <2> QED BY <2>1, <2>2 DEF Typed, TypeOK
<1>2. license' \in [Calls -> Licenses]
  <2>1. linked \in [Calls -> Licenses]
    BY DEF Typed, TypeOK, Licenses, LicenseStatus
  <2> DEFINE relinked == [linked EXCEPT ![old].replacedBy = a, ![old].replacedIn = None]
  <2>2. CASE old \in Calls
    <3> DEFINE row == [linked[old] EXCEPT !.replacedBy = a, !.replacedIn = None]
    <3>1. relinked = [linked EXCEPT ![old] = row]
      BY <2>1, <2>2
    <3> HIDE DEF linked
    <3>a. linked[old] \in Licenses
      BY <2>1, <2>2
    <3>2. row \in Licenses
      BY <3>a DEF Licenses
    <3> HIDE DEF row, relinked
    <3>3. relinked \in [Calls -> Licenses]
      BY <2>1, <3>1, <3>2
    <3> USE DEF linked, relinked
    <3> QED BY <2>1, <3>3 DEF StoreArtifact
  <2>3. CASE old = None
    BY <2>1, <2>3 DEF StoreArtifact
  <2>4. old \in Calls \cup {None}
    BY DEF Typed, TypeOK, Inventories
  <2> QED BY <2>2, <2>3, <2>4
<1>3. attempt' \in [Calls -> Attempts]
  <2> DEFINE row == [attempt[a] EXCEPT !.stage = "server_bound", !.pending = None,
                                       !.artifact = call[c].secret]
  <2>0. attempt[a] \in Attempts
    BY DEF Typed, TypeOK
  <2>1. row \in Attempts
    BY <1>0, <2>0 DEF Attempts, Stages
  <2>2. attempt' = [attempt EXCEPT ![a] = row]
    BY DEF StoreArtifact, Typed, TypeOK
  <2> QED BY <2>1, <2>2 DEF Typed, TypeOK
<1>4. tokens' \subseteq Calls \X Calls
  <2>1. tokens' = tokens \cup {<<a, call[c].secret>>}
    BY DEF StoreArtifact
  <2> QED BY <1>0, <2>1 DEF Typed, TypeOK
<1>5. events' \subseteq Events
  <2>1. license[a].revision \in Nat
    BY DEF Typed, TypeOK, Licenses
  <2>2. [license |-> a, revision |-> license[a].revision, status |-> "active"] \in Events
    BY <2>1 DEF Events, LicenseStatus
  <2>3. events' = events \cup {[license |-> a, revision |-> license[a].revision, status |-> "active"]}
    BY DEF StoreArtifact
  <2> QED BY <2>2, <2>3 DEF Typed, TypeOK
<1> DEFINE next == [call[c] EXCEPT !.pc = "respond"]
<1>6. call' = [call EXCEPT ![c] = next]
  BY DEF StoreArtifact
<1>7. next \in CallStates /\ next.pc = "respond" /\ next.code \in Codes /\ next.drive \in Drives
      /\ next.key \in Keys /\ next.attempt = a
  BY CallTyped DEF CallStates, Steps
<1> HIDE DEF next
<1>8. call' \in [Calls -> CallStates] /\ CallsTyped'
  BY <1>6, <1>7, CallStepTyped
<1>9. UNCHANGED <<binding, device, reply>>
  BY DEF StoreArtifact
<1> QED BY <1>1, <1>2, <1>3, <1>4, <1>5, <1>8, <1>9 DEF Typed, TypeOK

LEMMA CompleteBindingTyped ==
  ASSUME Typed, NEW c \in Calls, CompleteBinding(c), call[c].secret # None,
         attempt[call[c].attempt].code \in Codes
  PROVE  Typed'
<1> DEFINE a == call[c].attempt
<1>1. call[c].pc = "complete_locked" /\ a \in Calls
  BY CallTyped DEF CompleteBinding
<1>2. {"ACTIVATION_CODE_ALREADY_BOUND", "ACTIVATION_IN_PROGRESS"} \subseteq Refusals
  BY DEF Refusals
<1>3. ASSUME NEW result \in Refusals, FailBound(c, result, a), UNCHANGED rows
      PROVE  Typed'
  BY <1>1, <1>3, FailBoundTyped DEF rows, Typed, TypeOK
<1>4. CASE RespondWith(c, a) /\ UNCHANGED rows
  BY <1>1, <1>4, RespondWithTyped DEF rows, Typed, TypeOK
<1>5. CASE StoreArtifact(c, a)
  BY <1>1, <1>5, StoreArtifactTyped
<1> QED BY <1>2, <1>3, <1>4, <1>5 DEF CompleteBinding

LEMMA RespondTyped ==
  ASSUME Typed, NEW c \in Calls, Respond(c)
  PROVE  Typed'
<1> DEFINE next == [call[c] EXCEPT !.pc = "done"]
<1>1. call' = [call EXCEPT ![c] = next]
  BY DEF Respond
<1>2. next \in CallStates /\ next.pc = "done" /\ next.code \in Codes /\ next.drive \in Drives
      /\ next.key \in Keys
  BY CallTyped DEF CallStates, Steps, Respond
<1> HIDE DEF next
<1>3. call' \in [Calls -> CallStates] /\ CallsTyped'
  BY <1>1, <1>2, CallStepTyped
<1>4. reply' \in [Calls -> Replies]
  <2>1. [result |-> "ok", stage |-> "none", attempt |-> call[c].attempt,
         secret |-> call[c].secret] \in Replies
    BY CallTyped DEF Replies
  <2> QED BY <2>1 DEF Respond, Typed, TypeOK
<1> QED BY <1>3, <1>4 DEF Respond, rows, Typed, TypeOK

LEMMA FailTyped ==
  ASSUME Typed, NEW c \in Calls, Fail(c)
  PROVE  Typed'
<1>1. "ACTIVATION_SERVICE_UNAVAILABLE" \in Refusals
  BY DEF Refusals
<1>2. call[c].pc # "idle" /\ UNCHANGED rows
  BY DEF Fail
<1>3. CASE Refuse(c, "ACTIVATION_SERVICE_UNAVAILABLE")
  BY <1>1, <1>2, <1>3, RefuseTyped DEF rows, Typed, TypeOK
<1>4. ASSUME NEW a \in Calls, FailBound(c, "ACTIVATION_SERVICE_UNAVAILABLE", a)
      PROVE  Typed'
  BY <1>1, <1>2, <1>4, FailBoundTyped DEF rows, Typed, TypeOK
<1>5. call[c].pc \in {"complete", "complete_locked", "respond"} => call[c].attempt \in Calls
  BY CallTyped
<1> QED BY <1>3, <1>4, <1>5 DEF Fail

LEMMA InventoryTyped ==
  ASSUME Typed, NEW i \in Codes, InventoryStep(i)
  PROVE  Typed'
<1>0. inventory[i] \in Inventories /\ binding[i] \in Bindings
  BY DEF Typed, TypeOK
<1>1. /\ [inventory[i] EXCEPT !.status = "prepared"] \in Inventories
      /\ [inventory[i] EXCEPT !.leaseLive = FALSE] \in Inventories
  BY <1>0 DEF Inventories, InventoryStatus
<1>2. /\ [binding[i] EXCEPT !.configured = TRUE] \in Bindings
      /\ [binding[i] EXCEPT !.configured = TRUE, !.mapped = TRUE] \in Bindings
  BY <1>0 DEF Bindings
<1>3. CASE CreateInventory(i)
  BY <1>1, <1>3 DEF CreateInventory, Typed, TypeOK, CallsTyped
<1>4. CASE MarkConfigured(i)
  BY <1>2, <1>4 DEF MarkConfigured, Typed, TypeOK, CallsTyped
<1>5. CASE SetMapping(i)
  <2>1. binding' = [binding EXCEPT ![i] = [binding[i] EXCEPT !.configured = TRUE, !.mapped = TRUE]]
    BY <1>5 DEF SetMapping, Typed, TypeOK
  <2> QED BY <1>2, <1>5, <2>1 DEF SetMapping, Typed, TypeOK, CallsTyped
<1>6. CASE LeaseExpires(i)
  BY <1>1, <1>6 DEF LeaseExpires, Typed, TypeOK, CallsTyped
<1> QED BY <1>3, <1>4, <1>5, <1>6 DEF InventoryStep

LEMMA CommitTyped ==
  ASSUME Typed, NEW a \in Calls, NEW k \in Keys, CommitActivation(a, k)
  PROVE  Typed'
<1> DEFINE row == [attempt[a] EXCEPT !.stage = "committed", !.commit = k]
<1>1. attempt[a] \in Attempts
  BY AttemptTyped
<1>2. row \in Attempts
  BY <1>1 DEF Attempts, Stages
<1>3. attempt' = [attempt EXCEPT ![a] = row]
  BY DEF CommitActivation, Typed, TypeOK
<1>4. attempt' \in [Calls -> Attempts]
  BY <1>2, <1>3 DEF Typed, TypeOK
<1> QED BY <1>4 DEF CommitActivation, Typed, TypeOK, CallsTyped

\* Mutate, with the statuses the four actions pass to it.
LEMMA MutateTyped ==
  ASSUME Typed, NEW l \in Calls, NEW to \in LicenseStatus \cap DeviceStatus,
         NEW bs \in {"active", "disabled", "revoked"}, NEW r \in Codes \cup {None},
         attempt[l].code \in Codes, MutateLicense(l, to, bs, r)
  PROVE  /\ license' \in [Calls -> Licenses] /\ device' \in [Calls -> Devices]
         /\ binding' \in [Codes -> Bindings] /\ events' \subseteq Events
         /\ UNCHANGED <<attempt, tokens, call, reply>>
<1> DEFINE i == attempt[l].code
           n == NextRevision(l)
           lrow == [license[l] EXCEPT !.status = to, !.revision = n, !.replacedIn = r]
<1>0. license[l] \in Licenses /\ device[l] \in Devices /\ binding[i] \in Bindings
  BY DEF Typed, TypeOK
<1>1. n \in Nat
  BY <1>0 DEF Licenses, NextRevision
<1> HIDE DEF n
<1>2. lrow \in Licenses
  BY <1>0, <1>1 DEF Licenses
<1>3. license' = [license EXCEPT ![l] = lrow]
  BY DEF MutateLicense, Typed, TypeOK, n
<1>4. [device[l] EXCEPT !.status = to] \in Devices /\ [binding[i] EXCEPT !.status = bs] \in Bindings
  BY <1>0 DEF Devices, Bindings
<1>5. [license |-> l, revision |-> n, status |-> to] \in Events
  BY <1>1 DEF Events
<1>6. events' = events \cup {[license |-> l, revision |-> n, status |-> to]}
  BY DEF MutateLicense, n
<1>7. events' \subseteq Events
  BY <1>5, <1>6 DEF Typed, TypeOK
<1> HIDE DEF lrow
<1> QED BY ZenonT(40), <1>2, <1>3, <1>4, <1>7 DEF MutateLicense, Typed, TypeOK

LEMMA LicenseStepTyped ==
  ASSUME Typed, NEW l \in Calls, license[l].status # "none" => attempt[l].code \in Codes,
         LicenseStep(l)
  PROVE  Typed'
<1> DEFINE i == attempt[l].code
<1>0. /\ {"active", "disabled", "revoked", "reissued"} \subseteq LicenseStatus \cap DeviceStatus
      /\ None \in Codes \cup {None}
  BY DEF LicenseStatus, DeviceStatus
<1>1. license[l].status # "none"
  BY DEF LicenseStep, Disable, Enable, Revoke, Reissue, ExpireLicense, MutateLicense,
         ValidAdminTransition
<1>2. ASSUME NEW row \in Inventories
      PROVE  [inventory EXCEPT ![i] = row] \in [Codes -> Inventories]
  BY DEF Typed, TypeOK
<1>3. [inventory[i] EXCEPT !.status = "revoked"] \in Inventories
  BY <1>1 DEF Typed, TypeOK, Inventories, InventoryStatus
<1>4. CASE Disable(l)
  BY <1>0, <1>1, <1>4, MutateTyped DEF Disable, Typed, TypeOK, CallsTyped
<1>5. CASE Enable(l)
  BY <1>0, <1>1, <1>5, MutateTyped DEF Enable, Typed, TypeOK, CallsTyped
<1>6. CASE Revoke(l)
  BY <1>0, <1>1, <1>2, <1>3, <1>6, MutateTyped DEF Revoke, Typed, TypeOK, CallsTyped
<1>7. ASSUME NEW r \in Codes, Reissue(l, r)
      PROVE  Typed'
  <2> DEFINE fresh == [NoInventory EXCEPT !.status = "prepared", !.replaces = l,
                                          !.entitlement = NextRevision(l)]
             taken == [inventory EXCEPT ![i].status = "revoked"]
  <2>1. NextRevision(l) \in Nat
    BY DEF NextRevision, Typed, TypeOK, Licenses
  <2>2. fresh \in Inventories
    BY <2>1 DEF NoInventory, Inventories, InventoryStatus
  <2>3. taken \in [Codes -> Inventories]
    BY <1>2, <1>3
  <2>4. inventory' = [taken EXCEPT ![r] = fresh]
    BY <1>7 DEF Reissue
  <2> HIDE DEF fresh, taken
  <2>5. inventory' \in [Codes -> Inventories]
    BY <2>2, <2>3, <2>4
  <2>6. MutateLicense(l, "reissued", "revoked", r) /\ r \in Codes \cup {None}
    BY <1>7 DEF Reissue
  <2>7. /\ license' \in [Calls -> Licenses] /\ device' \in [Calls -> Devices]
        /\ binding' \in [Codes -> Bindings] /\ events' \subseteq Events
        /\ UNCHANGED <<attempt, tokens, call, reply>>
    BY <1>0, <1>1, <2>6, MutateTyped
  <2> QED BY <2>5, <2>7 DEF Typed, TypeOK, CallsTyped
<1>8. CASE ExpireLicense(l)
  <2> DEFINE n == NextRevision(l)
             row == [license[l] EXCEPT !.status = "expired", !.revision = n]
             event == [license |-> l, revision |-> n, status |-> "expired"]
  <2>1. n \in Nat /\ license[l] \in Licenses
    BY DEF NextRevision, Typed, TypeOK, Licenses
  <2> HIDE DEF n
  <2>2. row \in Licenses /\ event \in Events
    BY <2>1 DEF Licenses, LicenseStatus, Events
  <2>3. license' = [license EXCEPT ![l] = row] /\ events' = events \cup {event}
    BY <1>8 DEF ExpireLicense, n, Typed, TypeOK
  <2> HIDE DEF row, event
  <2> QED BY <2>2, <2>3, <1>8 DEF ExpireLicense, Typed, TypeOK, CallsTyped
<1> QED BY <1>4, <1>5, <1>6, <1>7, <1>8 DEF LicenseStep


-----------------------------------------------------------------------------
(***************************************************************************)
(* The inductive invariant.  StatusesAgree alone is not inductive: a        *)
(* completion writes the rows of the attempt its request remembers, so the  *)
(* induction carries what every request remembers, and, since a code is     *)
(* taken by an insert that checks the rows of all the others, BoundOnce.    *)
(***************************************************************************)
Consistent == Typed /\ StatusesAgree /\ MemoryIsTrue /\ BoundOnce /\ AnswersAreUsable

LEMMA ConsistentInit == Init => Consistent
<1> SUFFICES ASSUME Init PROVE Consistent
  OBVIOUS
<1>1. Typed
  BY TypedInit
<1>2. \A a \in Calls : ~Bound(a)
  BY DEF Init, Bound, NoAttempt
<1>3. StatusesAgree
  BY <1>2 DEF Init, StatusesAgree, RowsOwned, BindingStory, NoBinding, NoInventory
<1>4. MemoryIsTrue
  BY <1>2 DEF Init, MemoryIsTrue, MaterialAgrees, Remembers, IdleCall, NoReply
<1>5. BoundOnce
  BY <1>2 DEF BoundOnce
<1>6. AnswersAreUsable
  BY DEF Init, AnswersAreUsable, NoReply
<1> QED BY <1>1, <1>3, <1>4, <1>5, <1>6 DEF Consistent

\* What the story of a code says of a bound attempt, and the converse.
LEMMA Story ==
  ASSUME Typed, StatusesAgree, NEW a \in Calls, Bound(a)
  PROVE  /\ attempt[a].code \in Codes
         /\ binding[attempt[a].code].device = a
         /\ BindingStory(attempt[a].code)
<1>1. attempt[a].code # None /\ binding[attempt[a].code].device = a
  BY DEF StatusesAgree, RowsOwned
<1>2. attempt[a].code \in Codes
  BY <1>1 DEF Typed, TypeOK, Attempts
<1> QED BY <1>1, <1>2 DEF StatusesAgree

\* The tables of a bound code that is not active yet, and of one that is.
LEMMA StoryOfInventory ==
  ASSUME Typed, StatusesAgree, NEW a \in Calls, Bound(a)
  PROVE  /\ inventory[attempt[a].code].status = "binding" <=> license[a].status = "prepared"
         /\ inventory[attempt[a].code].status = "binding" <=> attempt[a].artifact = None
         /\ inventory[attempt[a].code].status = "binding" <=> attempt[a].stage = "requested"
         /\ inventory[attempt[a].code].status = "binding" <=> inventory[attempt[a].code].lease # None
<1> DEFINE i == attempt[a].code
<1>1. BindingStory(i) /\ binding[i].device = a /\ a # None
  BY Story, ServerAssumption
<1> QED BY <1>1 DEF BindingStory

LEMMA Unbound ==
  ASSUME Typed, StatusesAgree, NEW a \in Calls, license[a].status # "none"
  PROVE  Bound(a)
BY DEF StatusesAgree, RowsOwned, NoLicense

LEMMA InStock ==
  ASSUME Typed, StatusesAgree, NEW i \in Codes, inventory[i].status \in {"absent", "prepared"}
  PROVE  binding[i].device = None /\ binding[i].status = "active" /\ inventory[i].lease = None
         /\ \A a \in Calls : Bound(a) => attempt[a].code # i
<1>1. BindingStory(i)
  BY DEF StatusesAgree
<1>2. binding[i].device = None /\ binding[i].status = "active" /\ inventory[i].lease = None
  BY <1>1 DEF BindingStory
<1>3. None \notin Calls
  BY ServerAssumption
<1> QED BY <1>2, <1>3, Story

-----------------------------------------------------------------------------
(* The actions that change rows keep the tables in agreement. *)

LEMMA TakeOverLeaseAgrees ==
  ASSUME Consistent, NEW c \in Calls, NEW a \in Calls, Bound(a), LeaseIsFree(a), TakeOverLease(c, a)
  PROVE  StatusesAgree'
<1> DEFINE i == attempt[a].code
<1>1. i \in Codes /\ c # None
  BY Story, ServerAssumption DEF Consistent
<1>2. /\ \A j \in Codes : inventory'[j].status = inventory[j].status
      /\ \A j \in Codes : j # i => inventory'[j].lease = inventory[j].lease
      /\ inventory'[i].lease = c
  BY <1>1 DEF TakeOverLease, Consistent, Typed, TypeOK, Inventories
<1>3. inventory[i].status = "binding"
  BY DEF LeaseIsFree
<1>4. UNCHANGED <<binding, device, license, attempt>>
  BY DEF TakeOverLease
<1>5. RowsOwned'
  BY <1>4 DEF Consistent, StatusesAgree, RowsOwned, Bound
<1>6. ASSUME NEW j \in Codes PROVE BindingStory(j)'
  <2>1. BindingStory(j)
    BY DEF Consistent, StatusesAgree
  <2> QED BY <1>1, <1>2, <1>3, <1>4, <2>1 DEF BindingStory, Bound
<1> QED BY <1>5, <1>6 DEF StatusesAgree

LEMMA InsertBindingAgrees ==
  ASSUME Consistent, NEW c \in Calls, ~Bound(c), call[c].code \in Codes,
         inventory[call[c].code].status = "prepared", InsertBinding(c)
  PROVE  StatusesAgree'
<1> DEFINE i == call[c].code
<1>1. binding[i].device = None /\ binding[i].status = "active"
      /\ \A b \in Calls : Bound(b) => attempt[b].code # i
  BY InStock DEF Consistent
<1>2. c # None
  BY ServerAssumption
<1>3. /\ inventory'[i].status = "binding" /\ inventory'[i].lease = c
      /\ \A j \in Codes : j # i => inventory'[j] = inventory[j]
  BY DEF InsertBinding, Consistent, Typed, TypeOK, Inventories
<1>4. /\ binding'[i].device = c /\ binding'[i].status = "active"
      /\ \A j \in Codes : j # i => binding'[j] = binding[j]
  BY <1>1 DEF InsertBinding, Consistent, Typed, TypeOK, Bindings
<1>5. /\ device'[c].status = "active"
      /\ license'[c].status = "prepared"
      /\ attempt'[c].stage = "requested" /\ attempt'[c].code = i /\ attempt'[c].artifact = None
  BY DEF InsertBinding, Consistent, Typed, TypeOK, NoLicense, NoAttempt
<1>6. \A b \in Calls : b # c => device'[b] = device[b] /\ license'[b] = license[b]
                                /\ attempt'[b] = attempt[b]
  BY DEF InsertBinding, Consistent, Typed, TypeOK
<1>7. RowsOwned'
  <2>1. ASSUME NEW b \in Calls, Bound(b)'
        PROVE  attempt'[b].code # None /\ binding'[attempt'[b].code].device = b
    <3>1. CASE b = c
      BY <1>4, <1>5, <3>1, ServerAssumption
    <3>2. CASE b # c
      <4>1. Bound(b)
        BY <1>6, <2>1, <3>2 DEF Bound
      <4> QED BY <1>1, <1>4, <1>6, <3>2, <4>1, Story, ServerAssumption DEF Consistent
    <3> QED BY <3>1, <3>2
  <2>2. ASSUME NEW b \in Calls, ~Bound(b)'
        PROVE  device'[b] = NoDevice /\ license'[b] = NoLicense
    <3>1. b # c
      BY <1>5, <2>2 DEF Bound
    <3> QED BY <1>6, <2>2, <3>1 DEF Bound, Consistent, StatusesAgree, RowsOwned
  <2> QED BY <2>1, <2>2 DEF RowsOwned, Bound
<1>8. ASSUME NEW j \in Codes PROVE BindingStory(j)'
  <2>1. CASE j = i
    BY <1>2, <1>3, <1>4, <1>5, <2>1 DEF BindingStory, Bound
  <2>2. CASE j # i
    <3>1. BindingStory(j)
      BY DEF Consistent, StatusesAgree
    <3>2. binding[j].device \in Calls \cup {None} /\ binding[j].device # c
      BY <3>1, <1>2 DEF BindingStory, Consistent, Typed, TypeOK, Bindings
    <3> QED BY <1>3, <1>4, <1>6, <2>2, <3>1, <3>2 DEF BindingStory, Bound
  <2> QED BY <2>1, <2>2
<1> QED BY <1>7, <1>8 DEF StatusesAgree


\* Storing an artifact changes one licence's status and the links of another.
LEMMA StoredLicenses ==
  ASSUME Typed, NEW c \in Calls, NEW a \in Calls, StoreArtifact(c, a)
  PROVE  \A b \in Calls :
           /\ license'[b].status = IF b = a THEN "active" ELSE license[b].status
           /\ license'[b].secret = license[b].secret
           /\ license'[b].revision = license[b].revision
<1> DEFINE linked == [license EXCEPT ![a].status = "active"]
           old == inventory[attempt[a].code].replaces
<1>1. ASSUME NEW b \in Calls
      PROVE  /\ linked[b].status = IF b = a THEN "active" ELSE license[b].status
             /\ linked[b].secret = license[b].secret
             /\ linked[b].revision = license[b].revision
             /\ linked[b] \in Licenses
  BY DEF Typed, TypeOK, Licenses, LicenseStatus
<1>2. linked \in [Calls -> Licenses]
  BY DEF Typed, TypeOK, Licenses, LicenseStatus
<1>3. license' \in {linked, [linked EXCEPT ![old].replacedBy = a, ![old].replacedIn = None]}
  BY DEF StoreArtifact
<1> HIDE DEF linked, old
<1>4. ASSUME NEW b \in Calls, license' = [linked EXCEPT ![old].replacedBy = a, ![old].replacedIn = None]
      PROVE  /\ license'[b].status = linked[b].status
             /\ license'[b].secret = linked[b].secret
             /\ license'[b].revision = linked[b].revision
  <2>1. CASE b = old
    <3>1. license'[b] = [linked[b] EXCEPT !.replacedBy = a, !.replacedIn = None]
      BY <1>2, <1>4, <2>1
    <3> QED BY <1>1, <3>1 DEF Licenses
  <2>2. CASE b # old
    BY <1>2, <1>4, <2>2
  <2> QED BY <2>1, <2>2
<1> QED BY <1>1, <1>3, <1>4

LEMMA StoredAttempt ==
  ASSUME Typed, NEW c \in Calls, NEW a \in Calls, StoreArtifact(c, a)
  PROVE  /\ attempt'[a].stage = "server_bound"
         /\ attempt'[a].artifact = call[c].secret
         /\ attempt'[a].pending = None
         /\ attempt'[a].code = attempt[a].code
         /\ attempt'[a].key = attempt[a].key
         /\ \A b \in Calls : b # a => attempt'[b] = attempt[b]
BY DEF StoreArtifact, Typed, TypeOK, Attempts

LEMMA StoreArtifactAgrees ==
  ASSUME Consistent, NEW c \in Calls, NEW a \in Calls, Bound(a), HoldsLease(c, a),
         call[c].secret # None, StoreArtifact(c, a)
  PROVE  StatusesAgree'
<1> DEFINE i == attempt[a].code
<1>1. i \in Codes /\ binding[i].device = a /\ BindingStory(i)
  BY Story DEF Consistent
<1>2. inventory[i].status = "binding"
  BY DEF HoldsLease
<1>3. /\ inventory'[i].status = "active" /\ inventory'[i].lease = None
      /\ \A j \in Codes : j # i => inventory'[j] = inventory[j]
  BY <1>1 DEF StoreArtifact, Consistent, Typed, TypeOK, Inventories
<1>4. /\ license'[a].status = "active"
      /\ \A b \in Calls : b # a => license'[b].status = license[b].status
  BY StoredLicenses DEF Consistent
<1>5. /\ attempt'[a].stage = "server_bound" /\ attempt'[a].artifact # None
      /\ attempt'[a].code = attempt[a].code
      /\ \A b \in Calls : b # a => attempt'[b] = attempt[b]
  BY DEF StoreArtifact, Consistent, Typed, TypeOK, Attempts
<1>6. UNCHANGED <<binding, device>>
  BY DEF StoreArtifact
<1>7. RowsOwned'
  <2>1. ASSUME NEW b \in Calls, Bound(b)'
        PROVE  attempt'[b].code # None /\ binding'[attempt'[b].code].device = b
    <3>1. Bound(b)
      BY <1>5, <2>1 DEF Bound
    <3> QED BY <1>5, <1>6, <3>1 DEF Consistent, StatusesAgree, RowsOwned
  <2>2. ASSUME NEW b \in Calls, ~Bound(b)'
        PROVE  device'[b] = NoDevice /\ license'[b] = NoLicense
    <3>1. b # a /\ ~Bound(b)
      BY <1>5, <2>2 DEF Bound
    <3>2. device[b] = NoDevice /\ license[b] = NoLicense
      BY <3>1 DEF Consistent, StatusesAgree, RowsOwned
    <3>3. license[b].status # "reissued"
      BY <3>2 DEF NoLicense
    <3>4. license'[b] = license[b]
      BY <3>1, <3>3 DEF StoreArtifact, Consistent, Typed, TypeOK
    <3> QED BY <1>6, <3>2, <3>4
  <2> QED BY <2>1, <2>2 DEF RowsOwned, Bound
<1>8. ASSUME NEW j \in Codes PROVE BindingStory(j)'
  <2>1. BindingStory(j)
    BY DEF Consistent, StatusesAgree
  <2>2. CASE j = i
    BY <1>1, <1>2, <1>3, <1>4, <1>5, <1>6, <2>2, ServerAssumption DEF BindingStory, Bound
  <2>3. CASE j # i
    <3>1. binding[j].device \in Calls \cup {None} /\ binding[j].device # a
      BY <2>1, <2>3, ServerAssumption DEF BindingStory, Consistent, Typed, TypeOK, Bindings
    <3> QED BY <1>3, <1>4, <1>5, <1>6, <2>1, <2>3, <3>1 DEF BindingStory, Bound
  <2> QED BY <2>2, <2>3
<1> QED BY <1>7, <1>8 DEF StatusesAgree

LEMMA CommitAgrees ==
  ASSUME Consistent, NEW a \in Calls, NEW k \in Keys, CommitActivation(a, k)
  PROVE  StatusesAgree'
<1>1. UNCHANGED <<inventory, binding, device, license>>
  BY DEF CommitActivation
<1>2. /\ attempt[a].stage \in {"server_bound", "committed"}
      /\ attempt'[a].stage = "committed"
      /\ attempt'[a].code = attempt[a].code /\ attempt'[a].artifact = attempt[a].artifact
      /\ \A b \in Calls : b # a => attempt'[b] = attempt[b]
  BY DEF CommitActivation, CommitResult, Consistent, Typed, TypeOK, Attempts
<1>3. \A b \in Calls : /\ Bound(b)' <=> Bound(b)
                       /\ attempt'[b].code = attempt[b].code
                       /\ attempt'[b].artifact = attempt[b].artifact
                       /\ attempt'[b].stage = "requested" <=> attempt[b].stage = "requested"
  BY <1>2 DEF Bound
<1>4. RowsOwned'
  BY <1>1, <1>3 DEF Consistent, StatusesAgree, RowsOwned
<1>5. ASSUME NEW j \in Codes PROVE BindingStory(j)'
  <2>1. BindingStory(j) /\ binding[j].device \in Calls \cup {None}
    BY DEF Consistent, StatusesAgree, Typed, TypeOK, Bindings
  <2> QED BY <1>1, <1>3, <2>1 DEF BindingStory
<1> QED BY <1>4, <1>5 DEF StatusesAgree

LEMMA InventoryAgrees ==
  ASSUME Consistent, NEW i \in Codes, InventoryStep(i)
  PROVE  StatusesAgree'
<1>1. UNCHANGED <<device, license, attempt>>
  BY DEF InventoryStep, CreateInventory, MarkConfigured, SetMapping, LeaseExpires
<1>2. \A j \in Codes : binding'[j].device = binding[j].device /\ binding'[j].status = binding[j].status
  BY DEF InventoryStep, CreateInventory, MarkConfigured, SetMapping, LeaseExpires, Consistent,
         Typed, TypeOK, Bindings
<1>3. \A j \in Codes : /\ inventory'[j].lease = inventory[j].lease
                       /\ \/ inventory'[j].status = inventory[j].status
                          \/ inventory[j].status = "absent" /\ inventory'[j].status = "prepared"
  BY DEF InventoryStep, CreateInventory, MarkConfigured, SetMapping, LeaseExpires, Consistent,
         Typed, TypeOK, Inventories
<1>4. RowsOwned'
  <2>1. ASSUME NEW b \in Calls, Bound(b)'
        PROVE  attempt'[b].code # None /\ binding'[attempt'[b].code].device = b
    <3>1. Bound(b)
      BY <1>1, <2>1 DEF Bound
    <3> QED BY <1>1, <1>2, <3>1, Story, ServerAssumption DEF Consistent
  <2> QED BY <1>1, <2>1 DEF RowsOwned, Bound, Consistent, StatusesAgree
<1>5. ASSUME NEW j \in Codes PROVE BindingStory(j)'
  <2>1. BindingStory(j)
    BY DEF Consistent, StatusesAgree
  <2> QED BY <1>1, <1>2, <1>3, <2>1 DEF BindingStory, Bound
<1> QED BY <1>4, <1>5 DEF StatusesAgree

\* One operator action, seen from its effect on the statuses of one licence's rows.
LEMMA MutateAgrees ==
  ASSUME Consistent, NEW l \in Calls, NEW to \in {"active", "disabled", "revoked", "reissued"},
         NEW bs, NEW r, MutateLicense(l, to, bs, r),
         bs = (CASE to \in {"active", "disabled"} -> to [] OTHER -> "revoked"),
         \A j \in Codes \ {attempt[l].code} : /\ inventory'[j].lease = inventory[j].lease
                       /\ \/ inventory'[j].status = inventory[j].status
                          \/ inventory[j].status = "absent" /\ inventory'[j].status = "prepared",
         LET i == attempt[l].code IN
           /\ inventory'[i].lease = inventory[i].lease
           /\ inventory'[i].status = IF to \in {"revoked", "reissued"} THEN "revoked"
                                                                       ELSE inventory[i].status
  PROVE  StatusesAgree'
<1> DEFINE i == attempt[l].code
<1>1. license[l].status \in {"active", "disabled"}
  BY DEF MutateLicense, ValidAdminTransition
<1>2. Bound(l)
  BY <1>1, Unbound DEF Consistent
<1>3. i \in Codes /\ binding[i].device = l /\ BindingStory(i)
  BY <1>2, Story DEF Consistent
<1>4. inventory[i].status = "active"
  BY <1>1, <1>3, ServerAssumption DEF BindingStory
<1>5. UNCHANGED attempt
  BY DEF MutateLicense
<1>6. /\ license'[l].status = to
      /\ \A b \in Calls : b # l => license'[b] = license[b]
  BY DEF MutateLicense, Consistent, Typed, TypeOK, Licenses
<1>7. /\ device'[l].status = to
      /\ \A b \in Calls : b # l => device'[b] = device[b]
  BY DEF MutateLicense, Consistent, Typed, TypeOK, Devices
<1>8. /\ binding'[i].status = bs
      /\ \A j \in Codes : binding'[j].device = binding[j].device
      /\ \A j \in Codes : j # i => binding'[j] = binding[j]
  BY <1>3 DEF MutateLicense, Consistent, Typed, TypeOK, Bindings
<1>9. RowsOwned'
  <2>1. ASSUME NEW b \in Calls, Bound(b)'
        PROVE  attempt'[b].code # None /\ binding'[attempt'[b].code].device = b
    <3>1. Bound(b)
      BY <1>5, <2>1 DEF Bound
    <3> QED BY <1>5, <1>8, <3>1, Story, ServerAssumption DEF Consistent
  <2>2. ASSUME NEW b \in Calls, ~Bound(b)'
        PROVE  device'[b] = NoDevice /\ license'[b] = NoLicense
    <3>1. ~Bound(b) /\ b # l
      BY <1>2, <1>5, <2>2 DEF Bound
    <3> QED BY <1>6, <1>7, <3>1 DEF Consistent, StatusesAgree, RowsOwned
  <2> QED BY <2>1, <2>2 DEF RowsOwned, Bound
<1>10. ASSUME NEW j \in Codes PROVE BindingStory(j)'
  <2>1. BindingStory(j)
    BY DEF Consistent, StatusesAgree
  <2>2. CASE j = i
    <3>1. /\ binding'[i].device = l /\ l # None /\ Bound(l)' /\ attempt'[l].code = i
          /\ attempt'[l].stage # "requested" /\ attempt'[l].artifact # None
          /\ inventory'[i].lease = None
      BY <1>2, <1>3, <1>4, <1>5, <1>8, StoryOfInventory, ServerAssumption DEF Bound, Consistent
    <3>2. inventory'[i].status = IF to \in {"revoked", "reissued"} THEN "revoked" ELSE "active"
      BY <1>4
    <3>3. CASE to = "active"
      BY <1>6, <1>7, <1>8, <2>2, <3>1, <3>2, <3>3 DEF BindingStory
    <3>4. CASE to = "disabled"
      BY <1>6, <1>7, <1>8, <2>2, <3>1, <3>2, <3>4 DEF BindingStory
    <3>5. CASE to \in {"revoked", "reissued"}
      BY <1>6, <1>7, <1>8, <2>2, <3>1, <3>2, <3>5 DEF BindingStory
    <3> QED BY <3>3, <3>4, <3>5
  <2>3. CASE j # i
    <3>1. binding[j].device \in Calls \cup {None} /\ binding[j].device # l
      BY <2>1, <2>3, ServerAssumption DEF BindingStory, Consistent, Typed, TypeOK, Bindings
    <3> QED BY <1>5, <1>6, <1>7, <1>8, <2>1, <2>3, <3>1 DEF BindingStory, Bound
  <2> QED BY <2>2, <2>3
<1> QED BY <1>9, <1>10 DEF StatusesAgree


LEMMA LicenseStepAgrees ==
  ASSUME Consistent, NEW l \in Calls, LicenseStep(l)
  PROVE  StatusesAgree'
<1> DEFINE i == attempt[l].code
<1>1. license[l].status \in {"active", "disabled"}
  BY DEF LicenseStep, Disable, Enable, Revoke, Reissue, ExpireLicense, MutateLicense,
         ValidAdminTransition
<1>2. Bound(l) /\ i \in Codes /\ binding[i].device = l /\ BindingStory(i)
  BY <1>1, Unbound, Story DEF Consistent
<1>3. inventory[i].status = "active" /\ inventory[i].lease = None
  BY <1>1, <1>2, ServerAssumption DEF BindingStory
<1>4. CASE Disable(l)
  BY <1>4, MutateAgrees DEF Disable
<1>5. CASE Enable(l)
  BY <1>5, MutateAgrees DEF Enable
<1>6. CASE Revoke(l)
  <2>1. /\ inventory'[i].status = "revoked" /\ inventory'[i].lease = inventory[i].lease
        /\ \A j \in Codes \ {i} : inventory'[j] = inventory[j]
    BY <1>2, <1>6 DEF Revoke, Consistent, Typed, TypeOK, Inventories
  <2> QED BY <1>6, <2>1, MutateAgrees DEF Revoke
<1>7. ASSUME NEW r \in Codes, Reissue(l, r) PROVE StatusesAgree'
  <2>1. r # i /\ inventory[r].status = "absent" /\ inventory[r].lease = None
    <3>1. inventory[r].status = "absent" /\ r # i
      BY <1>3, <1>7 DEF Reissue
    <3> QED BY <3>1, InStock DEF Consistent
  <2> DEFINE taken == [inventory EXCEPT ![i].status = "revoked"]
             fresh == [NoInventory EXCEPT !.status = "prepared", !.replaces = l,
                                          !.entitlement = NextRevision(l)]
  <2>2. inventory' = [taken EXCEPT ![r] = fresh]
    BY <1>7 DEF Reissue
  <2>3. fresh.status = "prepared" /\ fresh.lease = None
    BY DEF NoInventory
  <2>4. /\ taken[i].status = "revoked" /\ taken[i].lease = inventory[i].lease
        /\ DOMAIN taken = Codes
        /\ \A j \in Codes \ {i} : taken[j] = inventory[j]
    BY <1>2 DEF Consistent, Typed, TypeOK, Inventories
  <2> HIDE DEF taken, fresh
  <2>5. /\ inventory'[i].status = "revoked" /\ inventory'[i].lease = inventory[i].lease
        /\ inventory'[r].status = "prepared" /\ inventory'[r].lease = None
        /\ \A j \in Codes \ {i, r} : inventory'[j] = inventory[j]
    BY <1>2, <2>1, <2>2, <2>3, <2>4
  <2>6. MutateLicense(l, "reissued", "revoked", r)
    BY <1>7 DEF Reissue
  <2>7. \A j \in Codes \ {i} : /\ inventory'[j].lease = inventory[j].lease
                       /\ \/ inventory'[j].status = inventory[j].status
                          \/ inventory[j].status = "absent" /\ inventory'[j].status = "prepared"
    BY <2>1, <2>5
  <2> QED BY <2>5, <2>6, <2>7, MutateAgrees
<1>8. CASE ExpireLicense(l)
  <2>1. UNCHANGED <<inventory, binding, device, attempt>>
    BY <1>8 DEF ExpireLicense
  <2>2. /\ license[l].status = "active" /\ license'[l].status = "expired"
        /\ \A b \in Calls : b # l => license'[b] = license[b]
    BY <1>8 DEF ExpireLicense, Consistent, Typed, TypeOK, Licenses
  <2>3. RowsOwned'
    <3>1. \A b \in Calls : Bound(b)' <=> Bound(b)
      BY <2>1 DEF Bound
    <3> QED BY <1>2, <2>1, <2>2, <3>1 DEF Consistent, StatusesAgree, RowsOwned
  <2>4. ASSUME NEW j \in Codes PROVE BindingStory(j)'
    <3>1. BindingStory(j) /\ binding[j].device \in Calls \cup {None}
      BY DEF Consistent, StatusesAgree, Typed, TypeOK, Bindings
    <3> QED BY <2>1, <2>2, <3>1 DEF BindingStory, Bound
  <2> QED BY <2>3, <2>4 DEF StatusesAgree
<1> QED BY <1>4, <1>5, <1>6, <1>7, <1>8 DEF LicenseStep


-----------------------------------------------------------------------------
(* The steps that write the tables, with what is known when they are taken. *)

Takes(c) ==
  /\ call[c].pc = "begin_locked" /\ call[c].attempt \in Calls
  /\ Bound(call[c].attempt) /\ SameRequest(call[c].attempt, c)
  /\ LeaseIsFree(call[c].attempt)
  /\ TakeOverLease(c, call[c].attempt)

Inserts(c) ==
  /\ call[c].pc = "begin_locked" /\ ~Bound(c) /\ call[c].code \in Codes
  /\ inventory[call[c].code].status = "prepared"
  /\ \A b \in Calls : device[b].drive # call[c].drive
  /\ WithKey(call[c].key) = {}
  /\ InsertBinding(c)

Stores(c) ==
  /\ call[c].pc = "complete_locked" /\ call[c].attempt \in Calls
  /\ Bound(call[c].attempt) /\ attempt[call[c].attempt].artifact = None
  /\ HoldsLease(c, call[c].attempt)
  /\ call[c].secret # None /\ call[c].secret = license[call[c].attempt].secret
  /\ StoreArtifact(c, call[c].attempt)

Writes ==
  \/ \E c \in Calls : Takes(c) \/ Inserts(c) \/ Stores(c)
  \/ \E a \in Calls, k \in Keys : CommitActivation(a, k)
  \/ \E i \in Codes : InventoryStep(i)
  \/ \E l \in Calls : LicenseStep(l)

LEMMA Remembered ==
  ASSUME Consistent, NEW c \in Calls
  PROVE  Remembers(c)
BY DEF Consistent, MemoryIsTrue

LEMMA ResumeWrites ==
  ASSUME Consistent, NEW c \in Calls, ResumeAttempt(c)
  PROVE  UNCHANGED rows \/ Takes(c)
<1>1. call[c].pc = "begin_locked" /\ call[c].attempt \in Calls
  BY CallTyped DEF ResumeAttempt, Consistent
<1>2. Bound(call[c].attempt)
  BY <1>1, Remembered, ServerAssumption DEF Remembers
<1> QED BY <1>1, <1>2 DEF ResumeAttempt, Takes

LEMMA FreshWrites ==
  ASSUME Consistent, NEW c \in Calls, BeginFresh(c)
  PROVE  UNCHANGED rows \/ Inserts(c)
<1>1. call[c].pc = "begin_locked" /\ call[c].code \in Codes /\ ~Bound(c)
  BY Remembered DEF BeginFresh, Remembers
<1>2. FreshResult(c) = "bind" => /\ inventory[call[c].code].status = "prepared"
                                 /\ \A b \in Calls : device[b].drive # call[c].drive
                                 /\ WithKey(call[c].key) = {}
  BY DEF FreshResult
<1> QED BY <1>1, <1>2 DEF BeginFresh, Inserts

LEMMA CompletionWrites ==
  ASSUME Consistent, NEW c \in Calls, CompleteBinding(c)
  PROVE  UNCHANGED rows \/ Stores(c)
<1>1. call[c].pc = "complete_locked" /\ call[c].attempt \in Calls
  BY CallTyped DEF CompleteBinding, Consistent
<1>2. Bound(call[c].attempt) /\ call[c].secret = license[call[c].attempt].secret
  BY <1>1, Remembered DEF Remembers
<1>3. call[c].secret # None
  BY <1>1, <1>2 DEF Consistent, MemoryIsTrue, MaterialAgrees
<1> QED BY <1>1, <1>2, <1>3 DEF CompleteBinding, Stores

LEMMA StepWrites ==
  ASSUME Consistent, Next
  PROVE  UNCHANGED rows \/ Writes
<1>1. ASSUME NEW c \in Calls, RequestStep(c) \/ Fail(c) \/ LicenseStep(c)
      PROVE  UNCHANGED rows \/ Writes
  <2>1. CASE Validate(c) \/ ReadAttempt(c) \/ ReadForCompletion(c) \/ Respond(c) \/ Fail(c)
    BY <2>1 DEF Validate, ReadAttempt, ReadForCompletion, Respond, Fail
  <2>2. CASE ResumeAttempt(c)
    BY <2>2, ResumeWrites DEF Writes
  <2>3. CASE BeginFresh(c)
    BY <2>3, FreshWrites DEF Writes
  <2>4. CASE CompleteBinding(c)
    BY <2>4, CompletionWrites DEF Writes
  <2>5. CASE LicenseStep(c)
    BY <2>5 DEF Writes
  <2> QED BY <1>1, <2>1, <2>2, <2>3, <2>4, <2>5 DEF RequestStep
<1>2. ASSUME NEW c \in Calls, NEW i \in Codes, NEW d \in Drives, NEW k \in Keys, Receive(c, i, d, k)
      PROVE  UNCHANGED rows
  BY <1>2 DEF Receive
<1> QED BY <1>1, <1>2 DEF Next, Writes

-----------------------------------------------------------------------------
(* What no step takes back from a bound attempt. *)

Keeps(a) ==
  /\ Bound(a)'
  /\ attempt'[a].code = attempt[a].code
  /\ attempt'[a].key = attempt[a].key
  /\ device'[a].drive = device[a].drive
  /\ license'[a].secret = license[a].secret
  /\ attempt[a].artifact # None => attempt'[a].artifact = attempt[a].artifact

LEMMA StepKeeps ==
  ASSUME Consistent, UNCHANGED rows \/ Writes, NEW a \in Calls, Bound(a)
  PROVE  Keeps(a)
<1> USE DEF Keeps, Bound
<1>1. CASE UNCHANGED rows
  BY <1>1 DEF rows
<1>2. ASSUME NEW c \in Calls, Takes(c) PROVE Keeps(a)
  BY <1>2 DEF Takes, TakeOverLease
<1>3. ASSUME NEW c \in Calls, Inserts(c) PROVE Keeps(a)
  BY <1>3 DEF Inserts, InsertBinding, Consistent, Typed, TypeOK
<1>4. ASSUME NEW c \in Calls, Stores(c) PROVE Keeps(a)
  <2>1. /\ attempt'[a].code = attempt[a].code /\ attempt'[a].key = attempt[a].key
        /\ attempt'[a].stage # "none"
        /\ attempt[a].artifact # None => attempt'[a].artifact = attempt[a].artifact
    BY <1>4, StoredAttempt DEF Stores, Consistent
  <2>2. UNCHANGED device /\ license'[a].secret = license[a].secret
    BY <1>4, StoredLicenses DEF Stores, StoreArtifact, Consistent
  <2> QED BY <2>1, <2>2
<1>5. ASSUME NEW b \in Calls, NEW k \in Keys, CommitActivation(b, k) PROVE Keeps(a)
  BY <1>5 DEF CommitActivation, Consistent, Typed, TypeOK, Attempts
<1>6. ASSUME NEW i \in Codes, InventoryStep(i) PROVE Keeps(a)
  BY <1>6 DEF InventoryStep, CreateInventory, MarkConfigured, SetMapping, LeaseExpires
<1>7. ASSUME NEW l \in Calls, LicenseStep(l) PROVE Keeps(a)
  <2>1. UNCHANGED attempt
    BY <1>7 DEF LicenseStep, Disable, Enable, Revoke, Reissue, ExpireLicense, MutateLicense
  <2>2. license'[a].secret = license[a].secret
    BY SMTT(30), <1>7 DEF LicenseStep, Disable, Enable, Revoke, Reissue, ExpireLicense, MutateLicense,
                Consistent, Typed, TypeOK, Licenses
  <2>3. device'[a].drive = device[a].drive
    BY SMTT(30), <1>7 DEF LicenseStep, Disable, Enable, Revoke, Reissue, ExpireLicense, MutateLicense,
                Consistent, Typed, TypeOK, Devices
  <2> QED BY <2>1, <2>2, <2>3
<1> QED BY <1>1, <1>2, <1>3, <1>4, <1>5, <1>6, <1>7 DEF Writes

LEMMA StepAgrees ==
  ASSUME Consistent, UNCHANGED rows \/ Writes
  PROVE  StatusesAgree'
<1>1. CASE UNCHANGED rows
  BY <1>1 DEF rows, Consistent, StatusesAgree, RowsOwned, BindingStory, Bound
<1>2. ASSUME NEW c \in Calls, Takes(c) PROVE StatusesAgree'
  BY <1>2, TakeOverLeaseAgrees DEF Takes
<1>3. ASSUME NEW c \in Calls, Inserts(c) PROVE StatusesAgree'
  BY <1>3, InsertBindingAgrees DEF Inserts
<1>4. ASSUME NEW c \in Calls, Stores(c) PROVE StatusesAgree'
  BY <1>4, StoreArtifactAgrees DEF Stores
<1> QED BY <1>1, <1>2, <1>3, <1>4, CommitAgrees, InventoryAgrees, LicenseStepAgrees DEF Writes


-----------------------------------------------------------------------------
(* The other conjuncts of the inductive invariant. *)

\* An attempt that appears in a step is the one the step inserts.
LEMMA StepBinds ==
  ASSUME Consistent, UNCHANGED rows \/ Writes, NEW a \in Calls, Bound(a)', ~Bound(a)
  PROVE  Inserts(a)
<1> USE DEF Bound
<1>1. ASSUME NEW c \in Calls, Takes(c) \/ Stores(c) PROVE FALSE
  <2>1. CASE Takes(c)
    BY <2>1 DEF Takes, TakeOverLease
  <2>2. CASE Stores(c)
    BY <2>2, StoredAttempt DEF Stores, Consistent
  <2> QED BY <1>1, <2>1, <2>2
<1>2. ASSUME NEW c \in Calls, Inserts(c) PROVE c = a
  BY <1>2 DEF Inserts, InsertBinding, Consistent, Typed, TypeOK
<1>3. ASSUME NEW b \in Calls, NEW k \in Keys, CommitActivation(b, k) PROVE FALSE
  BY <1>3 DEF CommitActivation, CommitResult, Consistent, Typed, TypeOK
<1>4. ASSUME NEW i \in Codes, InventoryStep(i) PROVE FALSE
  BY <1>4 DEF InventoryStep, CreateInventory, MarkConfigured, SetMapping, LeaseExpires
<1>5. ASSUME NEW l \in Calls, LicenseStep(l) PROVE FALSE
  BY <1>5 DEF LicenseStep, Disable, Enable, Revoke, Reissue, ExpireLicense, MutateLicense
<1>6. ~UNCHANGED rows
  BY DEF rows
<1> QED BY <1>1, <1>2, <1>3, <1>4, <1>5, <1>6 DEF Writes

\* The rows an insert writes for its own attempt.
LEMMA Inserted ==
  ASSUME Typed, NEW c \in Calls, InsertBinding(c)
  PROVE  /\ attempt'[c] = [NoAttempt EXCEPT !.stage = "requested", !.code = call[c].code,
                                            !.key = call[c].key, !.pending = c]
         /\ device'[c].drive = call[c].drive
         /\ license'[c].secret = c
         /\ tokens' = tokens
BY DEF InsertBinding, Typed, TypeOK, NoLicense

LEMMA StepBoundOnce ==
  ASSUME Consistent, UNCHANGED rows \/ Writes
  PROVE  BoundOnce'
<1> SUFFICES ASSUME NEW a \in Calls, NEW b \in Calls, Bound(a)', Bound(b)', a # b
             PROVE  /\ attempt'[a].code # attempt'[b].code
                    /\ attempt'[a].key # attempt'[b].key
                    /\ device'[a].drive # device'[b].drive
  BY DEF BoundOnce
<1>1. CASE Bound(a) /\ Bound(b)
  BY <1>1, StepKeeps DEF Consistent, BoundOnce, Keeps
<1>2. ASSUME NEW x \in Calls, NEW y \in Calls, Bound(x), ~Bound(y), Bound(y)'
      PROVE  /\ attempt'[x].code # attempt'[y].code
             /\ attempt'[x].key # attempt'[y].key
             /\ device'[x].drive # device'[y].drive
  <2>1. Inserts(y)
    BY <1>2, StepBinds
  <2>2. Keeps(x)
    BY <1>2, StepKeeps
  <2>3. /\ attempt'[y].code = call[y].code /\ attempt'[y].key = call[y].key
        /\ device'[y].drive = call[y].drive
    BY ZenonT(40), <2>1, Inserted DEF Inserts, NoAttempt, Consistent
  <2>4. attempt[x].code # call[y].code
    BY <1>2, <2>1, InStock DEF Inserts, Consistent
  <2>5. attempt[x].key # call[y].key
    BY <1>2, <2>1 DEF Inserts, WithKey
  <2>6. device[x].drive # call[y].drive
    BY <2>1 DEF Inserts
  <2> QED BY <2>2, <2>3, <2>4, <2>5, <2>6 DEF Keeps
<1>3. CASE ~Bound(a) /\ ~Bound(b)
  <2>1. Inserts(a) /\ Inserts(b)
    BY <1>3, StepBinds
  <2>2. attempt' = [attempt EXCEPT ![a] = [NoAttempt EXCEPT !.stage = "requested",
                       !.code = call[a].code, !.key = call[a].key, !.pending = a]]
    BY <2>1 DEF Inserts, InsertBinding
  <2>3. attempt'[b] = attempt[b]
    BY <2>2 DEF Consistent, Typed, TypeOK
  <2> QED BY <1>3, <2>3 DEF Bound
<1> QED BY <1>1, <1>2, <1>3

LEMMA StepMaterial ==
  ASSUME Consistent, UNCHANGED rows \/ Writes
  PROVE  MaterialAgrees'
<1>0. MaterialAgrees
  BY DEF Consistent, MemoryIsTrue
<1>1. CASE UNCHANGED rows
  BY <1>0, <1>1 DEF rows, MaterialAgrees, Bound
<1>2. ASSUME NEW c \in Calls, Takes(c) PROVE MaterialAgrees'
  BY <1>0, <1>2 DEF Takes, TakeOverLease, MaterialAgrees, Bound
<1>3. ASSUME NEW c \in Calls, Inserts(c) PROVE MaterialAgrees'
  <2>1. /\ attempt'[c].stage # "none" /\ attempt'[c].pending = c /\ attempt'[c].artifact = None
        /\ license'[c].secret = c /\ tokens' = tokens /\ c # None
    BY ZenonT(40), <1>3, Inserted, ServerAssumption DEF Inserts, Consistent, NoAttempt
  <2>2. \A b \in Calls : b # c => attempt'[b] = attempt[b] /\ license'[b] = license[b]
    BY <1>3 DEF Inserts, InsertBinding, Consistent, Typed, TypeOK
  <2>3. ~Bound(c) /\ None \notin Calls
    BY <1>3, ServerAssumption DEF Inserts
  <2> QED BY <1>0, <2>1, <2>2, <2>3 DEF MaterialAgrees, Bound
<1>4. ASSUME NEW c \in Calls, Stores(c) PROVE MaterialAgrees'
  <2> DEFINE a == call[c].attempt
  <2>1. a \in Calls /\ Bound(a) /\ attempt[a].artifact = None
        /\ call[c].secret # None /\ call[c].secret = license[a].secret
    BY <1>4 DEF Stores
  <2>2. /\ attempt'[a].stage # "none" /\ attempt'[a].artifact = call[c].secret
        /\ attempt'[a].pending = None
        /\ \A b \in Calls : b # a => attempt'[b] = attempt[b]
    BY <1>4, <2>1, StoredAttempt DEF Stores, Consistent
  <2>3. \A b \in Calls : license'[b].secret = license[b].secret
    BY <1>4, <2>1, StoredLicenses DEF Stores, Consistent
  <2>4. tokens' = tokens \cup {<<a, call[c].secret>>}
    BY <1>4 DEF Stores, StoreArtifact
  <2>5. None \notin Calls
    BY ServerAssumption
  <2> HIDE DEF a
  <2> QED BY <1>0, <2>1, <2>2, <2>3, <2>4, <2>5 DEF MaterialAgrees, Bound
<1>5. ASSUME NEW a \in Calls, NEW k \in Keys, CommitActivation(a, k) PROVE MaterialAgrees'
  <2>1. \A b \in Calls : /\ Bound(b)' <=> Bound(b)
                         /\ attempt'[b].artifact = attempt[b].artifact
                         /\ attempt'[b].pending = attempt[b].pending
    BY <1>5 DEF CommitActivation, CommitResult, Consistent, Typed, TypeOK, Attempts, Bound
  <2> QED BY <1>0, <1>5, <2>1 DEF CommitActivation, MaterialAgrees
<1>6. ASSUME NEW i \in Codes, InventoryStep(i) PROVE MaterialAgrees'
  BY <1>0, <1>6 DEF InventoryStep, CreateInventory, MarkConfigured, SetMapping, LeaseExpires,
                    MaterialAgrees, Bound
<1>7. ASSUME NEW l \in Calls, LicenseStep(l) PROVE MaterialAgrees'
  <2>1. UNCHANGED <<attempt, tokens>>
    BY <1>7 DEF LicenseStep, Disable, Enable, Revoke, Reissue, ExpireLicense, MutateLicense
  <2>2. \A b \in Calls : license'[b].secret = license[b].secret
    BY <1>7 DEF LicenseStep, Disable, Enable, Revoke, Reissue, ExpireLicense, MutateLicense,
                Consistent, Typed, TypeOK, Licenses
  <2> QED BY <1>0, <2>1, <2>2 DEF MaterialAgrees, Bound
<1> QED BY <1>1, <1>2, <1>3, <1>4, <1>5, <1>6, <1>7 DEF Writes


-----------------------------------------------------------------------------
(* What the requests remember stays true. *)

\* A request that does not move keeps a true memory, whatever the others write.
LEMMA Bystander ==
  ASSUME Consistent, UNCHANGED rows \/ Writes, NEW x \in Calls,
         call'[x] = call[x], reply'[x] = reply[x]
  PROVE  Remembers(x)'
<1> DEFINE a == call[x].attempt
<1>1. Remembers(x) /\ a \in Calls \cup {None} /\ None \notin Calls
  BY Remembered, CallTyped, ServerAssumption DEF Consistent
<1>2. ~Bound(x) /\ call[x].pc # "complete" => ~Bound(x)'
  <2>1. Inserts(x) => call'[x].pc = "complete"
    <3>1. call[x] \in CallStates
      BY DEF Consistent, Typed, TypeOK
    <3>2. Inserts(x) => call' = [call EXCEPT ![x] = [call[x] EXCEPT !.pc = "complete", !.attempt = x,
                                                                    !.secret = x]]
      BY DEF Inserts, InsertBinding
    <3> QED BY ZenonT(40), <3>1, <3>2 DEF CallStates, Consistent, Typed, TypeOK
  <2> QED BY <2>1, StepBinds
<1>3. a \in Calls /\ Bound(a) => Keeps(a)
  BY StepKeeps
<1>4. call[x].pc \in {"complete", "complete_locked", "respond"} =>
        a \in Calls /\ Bound(a) /\ Bound(a)' /\ SameRequest(a, x)' /\ call'[x].secret = license'[a].secret
  BY <1>1, <1>3 DEF Remembers, Keeps, SameRequest
<1>5. call[x].pc = "respond" => attempt'[a].artifact = call[x].secret
  <2>1. call[x].pc = "respond" => attempt[a].artifact # None
    BY <1>1, <1>4 DEF Remembers, Consistent, MemoryIsTrue, MaterialAgrees
  <2> QED BY <1>1, <1>3, <1>4, <2>1 DEF Remembers, Keeps
<1>6. call[x].pc = "begin_locked" /\ a # None => Bound(a)' /\ attempt'[a].key = call[x].key
  BY <1>1, <1>3 DEF Remembers, Keeps
<1> QED BY <1>1, <1>2, <1>4, <1>5, <1>6 DEF Remembers

\* A request that has answered.
LEMMA Answered ==
  ASSUME Consistent, NEW c \in Calls, call[c].pc # "idle",
         call' = [call EXCEPT ![c].pc = "done"]
  PROVE  Remembers(c)'
<1>1. call'[c].pc = "done" /\ call'[c].code = call[c].code /\ call'[c].drive = call[c].drive
      /\ call'[c].key = call[c].key
  BY DEF Consistent, Typed, TypeOK, CallStates
<1> QED BY <1>1, Remembered DEF Remembers

\* A request that turns to a stored artifact.
LEMMA TurnedToArtifact ==
  ASSUME Consistent, NEW c \in Calls, NEW a \in Calls, call[c].pc # "idle", Bound(a),
         SameRequest(a, c), attempt[a].artifact # None, reply[c].result = "none",
         RespondWith(c, a), UNCHANGED rows
  PROVE  Remembers(c)'
<1>1. /\ call'[c].pc = "respond" /\ call'[c].code = call[c].code /\ call'[c].drive = call[c].drive
      /\ call'[c].key = call[c].key /\ call'[c].attempt = a
      /\ call'[c].secret = attempt[a].artifact
  BY DEF RespondWith, Consistent, Typed, TypeOK, CallStates
<1>2. attempt[a].artifact = license[a].secret
  BY DEF Consistent, MemoryIsTrue, MaterialAgrees
<1>3. call[c].code \in Codes /\ call[c].drive \in Drives /\ call[c].key \in Keys
  BY CallTyped DEF Consistent
<1>4. UNCHANGED <<attempt, device, license>> /\ reply'[c] = reply[c] /\ a # None
  BY ServerAssumption DEF rows, RespondWith
<1> QED BY <1>1, <1>2, <1>3, <1>4 DEF Remembers, Bound, SameRequest

LEMMA ReceiveRemembers ==
  ASSUME Consistent, NEW c \in Calls, NEW i \in Codes, NEW d \in Drives, NEW k \in Keys,
         Receive(c, i, d, k)
  PROVE  Remembers(c)'
<1>1. call'[c].pc = "validate" /\ call'[c].code = i /\ call'[c].drive = d /\ call'[c].key = k
      /\ call'[c].attempt = None
  BY DEF Receive, IdleCall, Consistent, Typed, TypeOK
<1>2. ~Bound(c) /\ reply[c].result = "none"
  BY Remembered DEF Receive, Remembers
<1> QED BY <1>1, <1>2 DEF Receive, rows, Remembers, Bound

LEMMA ValidateRemembers ==
  ASSUME Consistent, NEW c \in Calls, Validate(c)
  PROVE  Remembers(c)'
<1>1. CASE Refuse(c, ValidationResult(c))
  BY <1>1, Answered DEF Validate, Refuse
<1>2. CASE call' = [call EXCEPT ![c].pc = "begin"] /\ UNCHANGED reply
  <2>1. call'[c].pc = "begin" /\ call'[c].code = call[c].code /\ call'[c].drive = call[c].drive
        /\ call'[c].key = call[c].key /\ call'[c].attempt = call[c].attempt
    BY <1>2 DEF Consistent, Typed, TypeOK, CallStates
  <2>2. Remembers(c) /\ call[c].pc = "validate" /\ UNCHANGED rows
    BY Remembered DEF Validate
  <2> QED BY <1>2, <2>1, <2>2 DEF Remembers, rows, Bound
<1> QED BY <1>1, <1>2 DEF Validate

LEMMA ReadAttemptRemembers ==
  ASSUME Consistent, NEW c \in Calls, ReadAttempt(c)
  PROVE  Remembers(c)'
<1>0. Remembers(c) /\ call[c].pc = "begin" /\ UNCHANGED <<rows, reply>>
  BY Remembered DEF ReadAttempt
<1>1. CASE call' = [call EXCEPT ![c].pc = "begin_locked"]
  <2>1. call'[c].pc = "begin_locked" /\ call'[c].code = call[c].code
        /\ call'[c].drive = call[c].drive /\ call'[c].key = call[c].key
        /\ call'[c].attempt = call[c].attempt
    BY <1>1 DEF Consistent, Typed, TypeOK, CallStates
  <2> QED BY <1>0, <2>1 DEF Remembers, rows, Bound
<1>2. ASSUME NEW a \in WithKey(call[c].key),
             call' = [call EXCEPT ![c].pc = "begin_locked", ![c].attempt = a,
                                  ![c].seen = attempt[a].stage]
      PROVE  Remembers(c)'
  <2>1. call'[c].pc = "begin_locked" /\ call'[c].code = call[c].code
        /\ call'[c].drive = call[c].drive /\ call'[c].key = call[c].key
        /\ call'[c].attempt = a
    BY <1>2 DEF Consistent, Typed, TypeOK, CallStates
  <2>2. Bound(a) /\ attempt[a].key = call[c].key
    BY DEF WithKey
  <2> QED BY <1>0, <2>1, <2>2 DEF Remembers, rows, Bound
<1> QED BY <1>1, <1>2 DEF ReadAttempt

LEMMA TakesRemembers ==
  ASSUME Consistent, NEW c \in Calls, Takes(c)
  PROVE  Remembers(c)'
<1> DEFINE a == call[c].attempt
<1>1. a \in Calls /\ Bound(a) /\ SameRequest(a, c) /\ call[c].pc = "begin_locked" /\ a # None
  BY ServerAssumption DEF Takes
<1>2. attempt[a].artifact = None
  BY <1>1, StoryOfInventory DEF Takes, LeaseIsFree, Consistent
<1>3. attempt[a].pending = license[a].secret
  BY <1>1, <1>2 DEF Consistent, MemoryIsTrue, MaterialAgrees
<1>4. /\ call'[c].pc = "complete" /\ call'[c].code = call[c].code /\ call'[c].drive = call[c].drive
      /\ call'[c].key = call[c].key /\ call'[c].attempt = a /\ call'[c].secret = attempt[a].pending
  BY DEF Takes, TakeOverLease, Consistent, Typed, TypeOK, CallStates
<1>5. UNCHANGED <<device, license, attempt, reply>>
  BY DEF Takes, TakeOverLease
<1> QED BY <1>1, <1>3, <1>4, <1>5, Remembered DEF Remembers, Bound, SameRequest

LEMMA InsertsRemembers ==
  ASSUME Consistent, NEW c \in Calls, Inserts(c)
  PROVE  Remembers(c)'
<1>1. /\ attempt'[c].stage # "none" /\ attempt'[c].code = call[c].code
      /\ device'[c].drive = call[c].drive /\ license'[c].secret = c /\ c # None
  BY ZenonT(40), Inserted, ServerAssumption DEF Inserts, NoAttempt, Consistent
<1>2. /\ call'[c].pc = "complete" /\ call'[c].code = call[c].code /\ call'[c].drive = call[c].drive
      /\ call'[c].key = call[c].key /\ call'[c].attempt = c /\ call'[c].secret = c
  BY DEF Inserts, InsertBinding, Consistent, Typed, TypeOK, CallStates
<1>3. UNCHANGED reply /\ call[c].pc = "begin_locked"
  BY DEF Inserts, InsertBinding
<1> QED BY <1>1, <1>2, <1>3, Remembered DEF Remembers, Bound, SameRequest

LEMMA ResumeRemembers ==
  ASSUME Consistent, NEW c \in Calls, ResumeAttempt(c)
  PROVE  Remembers(c)'
<1> DEFINE a == call[c].attempt
<1>1. call[c].pc = "begin_locked" /\ a \in Calls
  BY CallTyped DEF ResumeAttempt, Consistent
<1>2. Bound(a) /\ reply[c].result = "none"
  BY <1>1, Remembered, ServerAssumption DEF Remembers
<1>3. CASE TakeOverLease(c, a) /\ LeaseIsFree(a) /\ SameRequest(a, c)
  BY <1>1, <1>2, <1>3, TakesRemembers DEF Takes
<1>4. CASE RespondWith(c, a) /\ UNCHANGED rows /\ attempt[a].artifact # None /\ SameRequest(a, c)
  BY <1>1, <1>2, <1>4, TurnedToArtifact
<1>5. CASE call' = [call EXCEPT ![c].pc = "done"]
  BY <1>1, <1>5, Answered
<1> QED BY <1>3, <1>4, <1>5 DEF ResumeAttempt, Refuse

LEMMA FreshRemembers ==
  ASSUME Consistent, NEW c \in Calls, BeginFresh(c)
  PROVE  Remembers(c)'
<1>1. call[c].pc = "begin_locked" /\ reply[c].result = "none"
  BY Remembered DEF BeginFresh, Remembers
<1>2. CASE InsertBinding(c) /\ FreshResult(c) = "bind"
  <2>1. ~UNCHANGED rows
    <3>1. ~Bound(c)
      BY <1>1, Remembered DEF Remembers
    <3> QED BY ZenonT(40), <1>2, <3>1, Inserted DEF Consistent, rows, Bound, NoAttempt
  <2> QED BY <2>1, FreshWrites, InsertsRemembers
<1>3. ASSUME NEW a \in BoundHere(c), RespondWith(c, a), UNCHANGED rows
      PROVE  Remembers(c)'
  <2>1. a \in Calls /\ Bound(a) /\ SameRequest(a, c) /\ inventory[attempt[a].code].status = "active"
    BY DEF BoundHere
  <2>2. attempt[a].artifact # None
    BY <2>1, StoryOfInventory DEF Consistent
  <2> QED BY <1>1, <1>3, <2>1, <2>2, TurnedToArtifact
<1>4. CASE call' = [call EXCEPT ![c].pc = "done"]
  BY <1>1, <1>4, Answered
<1> QED BY <1>2, <1>3, <1>4 DEF BeginFresh, Refuse

LEMMA ReadForCompletionRemembers ==
  ASSUME Consistent, NEW c \in Calls, ReadForCompletion(c)
  PROVE  Remembers(c)'
<1>1. /\ call'[c].pc = "complete_locked" /\ call'[c].code = call[c].code
      /\ call'[c].drive = call[c].drive /\ call'[c].key = call[c].key
      /\ call'[c].attempt = call[c].attempt /\ call'[c].secret = call[c].secret
  BY DEF ReadForCompletion, Consistent, Typed, TypeOK, CallStates
<1>2. call[c].pc = "complete" /\ UNCHANGED <<rows, reply>> /\ Remembers(c)
  BY Remembered DEF ReadForCompletion
<1> QED BY <1>1, <1>2 DEF Remembers, rows, Bound, SameRequest

LEMMA CompletionRemembers ==
  ASSUME Consistent, NEW c \in Calls, CompleteBinding(c)
  PROVE  Remembers(c)'
<1> DEFINE a == call[c].attempt
<1>1. call[c].pc = "complete_locked" /\ a \in Calls /\ Remembers(c) /\ a # None
  BY CallTyped, Remembered, ServerAssumption DEF CompleteBinding, Consistent
<1>2. Bound(a) /\ SameRequest(a, c) /\ call[c].secret = license[a].secret
      /\ reply[c].result = "none"
  BY <1>1 DEF Remembers
<1>3. CASE StoreArtifact(c, a) /\ HoldsLease(c, a) /\ attempt[a].artifact = None
  <2>1. /\ call'[c].pc = "respond" /\ call'[c].code = call[c].code /\ call'[c].drive = call[c].drive
        /\ call'[c].key = call[c].key /\ call'[c].attempt = a /\ call'[c].secret = call[c].secret
    <3>1. call' = [call EXCEPT ![c].pc = "respond"]
      BY <1>3 DEF StoreArtifact
    <3> QED BY <3>1 DEF Consistent, Typed, TypeOK, CallStates
  <2>2. /\ attempt'[a].stage # "none" /\ attempt'[a].artifact = call[c].secret
        /\ attempt'[a].code = attempt[a].code
    BY <1>1, <1>3, StoredAttempt DEF Consistent
  <2>3. UNCHANGED <<device, reply>> /\ license'[a].secret = license[a].secret
    BY <1>1, <1>3, StoredLicenses DEF StoreArtifact, Consistent
  <2> QED BY <1>1, <1>2, <2>1, <2>2, <2>3 DEF Remembers, Bound, SameRequest
<1>4. CASE RespondWith(c, a) /\ UNCHANGED rows /\ attempt[a].artifact # None
  BY <1>1, <1>2, <1>4, TurnedToArtifact
<1>5. CASE call' = [call EXCEPT ![c].pc = "done"]
  BY <1>1, <1>5, Answered
<1> QED BY <1>3, <1>4, <1>5 DEF CompleteBinding, FailBound


\* A step of one request is no step of another.
LEMMA OtherRequests ==
  ASSUME Consistent, NEW c \in Calls, RequestStep(c) \/ Fail(c), NEW x \in Calls, x # c
  PROVE  call'[x] = call[x] /\ reply'[x] = reply[x]
<1>1. reply \in [Calls -> Replies] /\ call \in [Calls -> CallStates]
  BY DEF Consistent, Typed, TypeOK
<1>2. /\ \E n : call' = [call EXCEPT ![c] = n]
      /\ \E r : reply' = [reply EXCEPT ![c] = r]
  <2>1. reply = [reply EXCEPT ![c] = reply[c]]
    BY <1>1
  <2> QED BY ZenonT(40), <2>1 DEF RequestStep, Validate, ReadAttempt, ResumeAttempt, BeginFresh,
             ReadForCompletion, CompleteBinding, Respond, Fail, Refuse, FailBound, RespondWith,
             TakeOverLease, InsertBinding, StoreArtifact
<1> QED BY <1>1, <1>2

\* One step leaves the memory of every request true: the one that moves, and the others.
LEMMA StepRemembers ==
  ASSUME Consistent, Next, NEW x \in Calls
  PROVE  Remembers(x)'
<1>0. UNCHANGED rows \/ Writes
  BY StepWrites
<1>1. ASSUME NEW c \in Calls, RequestStep(c) \/ Fail(c), x # c
      PROVE  call'[x] = call[x] /\ reply'[x] = reply[x]
  BY <1>1, OtherRequests
<1>2. ASSUME NEW c \in Calls, RequestStep(c) \/ Fail(c), x = c
      PROVE  Remembers(x)'
  <2>1. CASE Respond(c) \/ Fail(c)
    <3>1. call' = [call EXCEPT ![c].pc = "done"] /\ call[c].pc # "idle"
      BY <2>1 DEF Respond, Fail, Refuse, FailBound
    <3> QED BY <1>2, <3>1, Answered
  <2> QED BY <1>2, <2>1, ValidateRemembers, ReadAttemptRemembers, ResumeRemembers, FreshRemembers,
             ReadForCompletionRemembers, CompletionRemembers DEF RequestStep
<1>3. ASSUME NEW c \in Calls, NEW i \in Codes, NEW d \in Drives, NEW k \in Keys, Receive(c, i, d, k)
      PROVE  Remembers(x)'
  <2>1. CASE x = c
    BY <1>3, <2>1, ReceiveRemembers
  <2>2. CASE x # c
    <3>1. call'[x] = call[x] /\ reply'[x] = reply[x]
      BY <1>3, <2>2 DEF Receive, Consistent, Typed, TypeOK
    <3> QED BY <1>0, <3>1, Bystander
  <2> QED BY <2>1, <2>2
<1>4. ASSUME UNCHANGED <<call, reply>> PROVE Remembers(x)'
  BY <1>0, <1>4, Bystander
<1>5. ASSUME NEW l \in Calls, LicenseStep(l) PROVE UNCHANGED <<call, reply>>
  BY <1>5 DEF LicenseStep, Disable, Enable, Revoke, Reissue, ExpireLicense, MutateLicense
<1>6. ASSUME NEW i \in Codes, InventoryStep(i) PROVE UNCHANGED <<call, reply>>
  BY <1>6 DEF InventoryStep, CreateInventory, MarkConfigured, SetMapping, LeaseExpires
<1>7. ASSUME NEW a \in Calls, NEW k \in Keys, CommitActivation(a, k) PROVE UNCHANGED <<call, reply>>
  BY <1>7 DEF CommitActivation
<1>8. ASSUME NEW c \in Calls, RequestStep(c) \/ Fail(c) PROVE Remembers(x)'
  BY <1>0, <1>1, <1>2, <1>8, Bystander
<1> QED BY <1>3, <1>4, <1>5, <1>6, <1>7, <1>8 DEF Next

LEMMA StepTyped ==
  ASSUME Consistent, Next
  PROVE  Typed'
<1>0. Typed
  BY DEF Consistent
<1>1. ASSUME NEW c \in Calls, RequestStep(c) PROVE Typed'
  <2>1. ASSUME ResumeAttempt(c) PROVE attempt[call[c].attempt].code \in Codes
    <3>1. call[c].attempt \in Calls /\ Bound(call[c].attempt)
      BY <1>0, <2>1, CallTyped, Remembered, ServerAssumption DEF ResumeAttempt, Remembers
    <3> QED BY <3>1, Story DEF Consistent
  <2>2. ASSUME CompleteBinding(c)
        PROVE  call[c].secret # None /\ attempt[call[c].attempt].code \in Codes
    <3>1. call[c].attempt \in Calls /\ Bound(call[c].attempt)
          /\ call[c].secret = license[call[c].attempt].secret
      BY <1>0, <2>2, CallTyped, Remembered DEF CompleteBinding, Remembers
    <3> QED BY <3>1, Story DEF Consistent, MemoryIsTrue, MaterialAgrees
  <2> QED BY <1>0, <1>1, <2>1, <2>2, ValidateTyped, ReadAttemptTyped, ResumeAttemptTyped,
             BeginFreshTyped, ReadForCompletionTyped, CompleteBindingTyped, RespondTyped
          DEF RequestStep
<1>2. ASSUME NEW l \in Calls, LicenseStep(l) PROVE Typed'
  <2>1. license[l].status # "none" => attempt[l].code \in Codes
    BY Unbound, Story DEF Consistent
  <2> QED BY <1>0, <1>2, <2>1, LicenseStepTyped
<1> QED BY <1>0, <1>1, <1>2, ReceiveTyped, FailTyped, InventoryTyped, CommitTyped DEF Next

\* Only Respond answers "ok", and an answer is never taken back.
LEMMA OkIsResponse ==
  ASSUME Consistent, Next, NEW c \in Calls, reply[c].result # "ok", reply'[c].result = "ok"
  PROVE  Respond(c)
<1>0. call \in [Calls -> CallStates] /\ reply \in [Calls -> Replies]
  BY DEF Consistent, Typed, TypeOK
<1>1. ASSUME NEW b \in Calls, NEW result, NEW a, result # "ok",
             Refuse(b, result) \/ FailBound(b, result, a)
      PROVE  FALSE
  BY <1>0, <1>1 DEF Refuse, FailBound
<1>2. reply' # reply
  OBVIOUS
<1>3. ASSUME NEW b \in Calls, RequestStep(b) \/ Fail(b) PROVE Respond(c)
  <2>1. CASE Respond(b)
    BY <1>0, <2>1 DEF Respond
  <2>2. CASE Validate(b)
    BY <1>1, <1>2, <2>2 DEF Validate
  <2>3. CASE ResumeAttempt(b)
    BY <1>1, <1>2, <2>3 DEF ResumeAttempt, RespondWith, TakeOverLease
  <2>4. CASE BeginFresh(b)
    BY <1>1, <1>2, <2>4, "ok" \notin Refusals DEF BeginFresh, RespondWith, InsertBinding, Refusals
  <2>5. CASE CompleteBinding(b)
    BY <1>1, <1>2, <2>5 DEF CompleteBinding, RespondWith, StoreArtifact
  <2>6. CASE Fail(b)
    BY <1>1, <2>6 DEF Fail
  <2>7. CASE ReadAttempt(b) \/ ReadForCompletion(b)
    BY <1>2, <2>7 DEF ReadAttempt, ReadForCompletion
  <2> QED BY <1>3, <2>1, <2>2, <2>3, <2>4, <2>5, <2>6, <2>7 DEF RequestStep
<1>4. ~(\E b \in Calls, i \in Codes, d \in Drives, k \in Keys : Receive(b, i, d, k))
  BY <1>2 DEF Receive
<1>5. ~(\E l \in Calls : LicenseStep(l))
  BY <1>2 DEF LicenseStep, Disable, Enable, Revoke, Reissue, ExpireLicense, MutateLicense
<1>6. ~(\E i \in Codes : InventoryStep(i))
  BY <1>2 DEF InventoryStep, CreateInventory, MarkConfigured, SetMapping, LeaseExpires
<1>7. ~(\E a \in Calls, k \in Keys : CommitActivation(a, k))
  BY <1>2 DEF CommitActivation
<1> QED BY <1>3, <1>4, <1>5, <1>6, <1>7 DEF Next

LEMMA AnswersStand ==
  ASSUME Consistent, Next, NEW c \in Calls, call[c].pc = "done"
  PROVE  call'[c] = call[c] /\ reply'[c] = reply[c]
<1>1. ASSUME NEW b \in Calls, RequestStep(b) \/ Fail(b) PROVE b # c
  BY <1>1 DEF RequestStep, Validate, ReadAttempt, ResumeAttempt, BeginFresh, ReadForCompletion,
              CompleteBinding, Respond, Fail
<1>2. ASSUME NEW b \in Calls, NEW i \in Codes, NEW d \in Drives, NEW k \in Keys, Receive(b, i, d, k)
      PROVE  call'[c] = call[c] /\ reply'[c] = reply[c]
  BY <1>2 DEF Receive, Consistent, Typed, TypeOK
<1>3. ASSUME NEW l \in Calls, LicenseStep(l) PROVE UNCHANGED <<call, reply>>
  BY <1>3 DEF LicenseStep, Disable, Enable, Revoke, Reissue, ExpireLicense, MutateLicense
<1>4. ASSUME NEW i \in Codes, InventoryStep(i) PROVE UNCHANGED <<call, reply>>
  BY <1>4 DEF InventoryStep, CreateInventory, MarkConfigured, SetMapping, LeaseExpires
<1>5. ASSUME NEW a \in Calls, NEW k \in Keys, CommitActivation(a, k) PROVE UNCHANGED <<call, reply>>
  BY <1>5 DEF CommitActivation
<1> QED BY <1>1, <1>2, <1>3, <1>4, <1>5, OtherRequests DEF Next

LEMMA StepAnswers ==
  ASSUME Consistent, Next, MaterialAgrees'
  PROVE  AnswersAreUsable'
<1>0. UNCHANGED rows \/ Writes
  BY StepWrites
<1> DEFINE Usable(c, a, s) ==
      a \in Calls /\ s # None /\ Bound(a) /\ SameRequest(a, c) /\ attempt[a].artifact = s
<1>1. ASSUME NEW c \in Calls, NEW a, NEW s, Usable(c, a, s),
             call'[c].code = call[c].code, call'[c].drive = call[c].drive
      PROVE  /\ a # None /\ s # None /\ Bound(a)' /\ SameRequest(a, c)' /\ attempt'[a].artifact = s
             /\ license'[a].secret = s
             /\ \A t \in Calls : <<a, t>> \in tokens' <=> t = s
  <2>1. Keeps(a) /\ a # None
    BY <1>0, <1>1, StepKeeps, ServerAssumption
  <2>2. Bound(a)' /\ SameRequest(a, c)' /\ attempt'[a].artifact = s
    BY <1>1, <2>1 DEF Keeps, SameRequest
  <2> QED BY <1>1, <2>1, <2>2 DEF MaterialAgrees
<1>2. ASSUME NEW c \in Calls, reply'[c].result = "ok"
      PROVE  \E a, s : /\ Usable(c, a, s) /\ reply'[c].attempt = a /\ reply'[c].secret = s
                       /\ call'[c].code = call[c].code /\ call'[c].drive = call[c].drive
  <2>1. CASE reply[c].result = "ok"
    <3>1. call[c].pc = "done"
      BY <2>1, Remembered DEF Remembers
    <3>2. call'[c] = call[c] /\ reply'[c] = reply[c]
      BY <3>1, AnswersStand
    <3>3. reply[c].attempt \in Calls \cup {None}
      BY DEF Consistent, Typed, TypeOK, Replies
    <3>4. Usable(c, reply[c].attempt, reply[c].secret)
      BY <2>1, <3>3 DEF Consistent, AnswersAreUsable
    <3> QED BY <3>2, <3>4
  <2>2. CASE reply[c].result # "ok"
    <3>1. Respond(c)
      BY <1>2, <2>2, OkIsResponse
    <3>2. call[c].pc = "respond" /\ call[c].attempt \in Calls /\ Remembers(c)
      BY <3>1, CallTyped, Remembered DEF Respond, Consistent
    <3>3. Usable(c, call[c].attempt, call[c].secret)
      BY <3>2 DEF Remembers, Consistent, MemoryIsTrue, MaterialAgrees
    <3>4. reply'[c].attempt = call[c].attempt /\ reply'[c].secret = call[c].secret
      BY <3>1 DEF Respond, Consistent, Typed, TypeOK
    <3>5. call'[c].code = call[c].code /\ call'[c].drive = call[c].drive
      BY <3>1 DEF Respond, Consistent, Typed, TypeOK, CallStates
    <3> QED BY <3>3, <3>4, <3>5
  <2> QED BY <2>1, <2>2
<1> HIDE DEF Usable
<1> QED BY <1>1, <1>2 DEF AnswersAreUsable

-----------------------------------------------------------------------------
LEMMA ConsistentStep == Consistent /\ [Next]_vars => Consistent'
<1>1. ASSUME Consistent, Next PROVE Consistent'
  <2>1. UNCHANGED rows \/ Writes
    BY <1>1, StepWrites
  <2>2. Typed' /\ StatusesAgree' /\ BoundOnce' /\ MaterialAgrees'
    BY <1>1, <2>1, StepTyped, StepAgrees, StepBoundOnce, StepMaterial
  <2>3. \A c \in Calls : Remembers(c)'
    BY <1>1, StepRemembers
  <2>4. AnswersAreUsable'
    BY <1>1, <2>2, StepAnswers
  <2> QED BY <2>2, <2>3, <2>4 DEF Consistent, MemoryIsTrue
<1>2. ASSUME Consistent, UNCHANGED vars PROVE Consistent'
  BY <1>2 DEF vars, Consistent, Typed, TypeOK, CallsTyped, StatusesAgree, RowsOwned, BindingStory,
              MemoryIsTrue, MaterialAgrees, Remembers, BoundOnce, AnswersAreUsable, Bound, SameRequest
<1> QED BY <1>1, <1>2

LEMMA AlwaysConsistent == Spec => []Consistent
BY ConsistentInit, ConsistentStep, PTL DEF Spec

\* Every table keeps its columns' domains.
THEOREM TypeCorrect == Spec => []TypeOK
<1>1. Consistent => TypeOK
  BY DEF Consistent, Typed
<1> QED BY <1>1, AlwaysConsistent, PTL

\* The statuses of a code, its mapping, device, licence and attempt fit together after
\* every transaction, whatever requests, operators, expiries and failures interleave.
THEOREM StatusesAlwaysAgree == Spec => []StatusesAgree
<1>1. Consistent => StatusesAgree
  BY DEF Consistent
<1> QED BY <1>1, AlwaysConsistent, PTL

\* What a request carries across the gaps between its transactions stays true.
THEOREM MemoryIsAlwaysTrue == Spec => []MemoryIsTrue
<1>1. Consistent => MemoryIsTrue
  BY DEF Consistent
<1> QED BY <1>1, AlwaysConsistent, PTL

\* No two attempts share a code, a drive or an idempotency key.
THEOREM AlwaysBoundOnce == Spec => []BoundOnce
<1>1. Consistent => BoundOnce
  BY DEF Consistent
<1> QED BY <1>1, AlwaysConsistent, PTL

\* Every successful answer carries the material that is bound to the drive that asked.
THEOREM AnswersAlwaysUsable == Spec => []AnswersAreUsable
<1>1. Consistent => AnswersAreUsable
  BY DEF Consistent
<1> QED BY <1>1, AlwaysConsistent, PTL


\* A bound code keeps its device, an attempt its code and drive, and a stored artifact is
\* never replaced.
THEOREM BindingsArePermanent == Spec => BindingIsPermanent
<1>1. ASSUME Consistent, Next, Consistent', NEW a \in Calls, Bound(a)
      PROVE  /\ Keeps(a)
             /\ binding'[attempt[a].code].device = binding[attempt[a].code].device
  <2>1. Keeps(a)
    BY <1>1, StepWrites, StepKeeps
  <2>2. binding[attempt[a].code].device = a
    BY <1>1, Story DEF Consistent
  <2>3. binding'[attempt'[a].code].device = a
    BY <1>1, <2>1 DEF Keeps, Consistent, StatusesAgree, RowsOwned
  <2> QED BY <2>1, <2>2, <2>3 DEF Keeps
<1>2. ASSUME Consistent, NEW i \in Codes, binding[i].device # None
      PROVE  /\ binding[i].device \in Calls /\ Bound(binding[i].device)
             /\ attempt[binding[i].device].code = i
  <2>1. BindingStory(i)
    BY <1>2 DEF Consistent, StatusesAgree
  <2> QED BY <1>2, <2>1 DEF BindingStory, Consistent, Typed, TypeOK, Bindings
<1>3. Consistent /\ [Next]_vars /\ Consistent' =>
        [/\ \A i \in Codes : binding[i].device # None => binding'[i].device = binding[i].device
         /\ \A a \in Calls : Bound(a) =>
              /\ attempt'[a].code = attempt[a].code
              /\ device'[a].drive = device[a].drive
              /\ attempt[a].artifact # None => attempt'[a].artifact = attempt[a].artifact]_vars
  BY <1>1, <1>2 DEF Keeps
<1> QED BY <1>3, AlwaysConsistent, PTL DEF Spec, BindingIsPermanent

\* Revoked, reissued and expired licences never change again, and every other change of a
\* status, except the activation itself, raises the revision by one.
THEOREM RevisionsAlwaysOrder == Spec => RevisionsOrderStatuses
<1> DEFINE Ordered(l) ==
      /\ license[l].status \in {"revoked", "reissued", "expired"} =>
           license'[l].status = license[l].status /\ license'[l].revision = license[l].revision
      /\ license[l].status \notin {"none", "prepared"} /\ license'[l].status # license[l].status =>
           license'[l].revision = license[l].revision + 1
<1>1. ASSUME Consistent, Next, NEW l \in Calls PROVE Ordered(l)
  <2>0. license \in [Calls -> Licenses]
    BY <1>1 DEF Consistent, Typed, TypeOK
  <2>1. CASE UNCHANGED rows
    BY <2>1 DEF rows
  <2>2. ASSUME NEW c \in Calls, Takes(c) PROVE Ordered(l)
    BY <2>2 DEF Takes, TakeOverLease
  <2>3. ASSUME NEW c \in Calls, Inserts(c) PROVE Ordered(l)
    <3>1. license[c].status = "none"
      BY <1>1, <2>3 DEF Inserts, Consistent, StatusesAgree, RowsOwned, NoLicense
    <3>2. \A b \in Calls : b # c => license'[b] = license[b]
      BY <2>0, <2>3 DEF Inserts, InsertBinding
    <3> QED BY <3>1, <3>2
  <2>4. ASSUME NEW c \in Calls, Stores(c) PROVE Ordered(l)
    <3> DEFINE a == call[c].attempt
    <3>1. a \in Calls /\ Bound(a) /\ HoldsLease(c, a)
      BY <2>4 DEF Stores
    <3>2. license[a].status = "prepared"
      BY <1>1, <3>1, StoryOfInventory DEF HoldsLease, Consistent
    <3>3. /\ license'[l].status = IF l = a THEN "active" ELSE license[l].status
          /\ license'[l].revision = license[l].revision
      BY <1>1, <2>4, <3>1, StoredLicenses DEF Stores, Consistent
    <3> QED BY <3>2, <3>3
  <2>5. ASSUME NEW a \in Calls, NEW k \in Keys, CommitActivation(a, k) PROVE Ordered(l)
    BY <2>5 DEF CommitActivation
  <2>6. ASSUME NEW i \in Codes, InventoryStep(i) PROVE Ordered(l)
    BY <2>6 DEF InventoryStep, CreateInventory, MarkConfigured, SetMapping, LeaseExpires
  <2>7. ASSUME NEW m \in Calls, NEW to, NEW bs, NEW r, MutateLicense(m, to, bs, r) PROVE Ordered(l)
    <3>1. license[m].status \in {"active", "disabled"}
      BY <2>7 DEF MutateLicense, ValidAdminTransition
    <3>2. /\ license'[m].revision = license[m].revision + 1
          /\ \A b \in Calls : b # m => license'[b] = license[b]
      BY <2>0, <2>7 DEF MutateLicense, NextRevision, Licenses
    <3> QED BY <3>1, <3>2
  <2>8. ASSUME NEW m \in Calls, ExpireLicense(m) PROVE Ordered(l)
    <3>1. license[m].status = "active"
      BY <2>8 DEF ExpireLicense
    <3>2. /\ license'[m].revision = license[m].revision + 1
          /\ \A b \in Calls : b # m => license'[b] = license[b]
      BY <2>0, <2>8 DEF ExpireLicense, NextRevision, Licenses
    <3> QED BY <3>1, <3>2
  <2> HIDE DEF Ordered
  <2>9. ASSUME NEW m \in Calls, LicenseStep(m) PROVE Ordered(l)
    BY <2>7, <2>8, <2>9 DEF LicenseStep, Disable, Enable, Revoke, Reissue
  <2> QED BY <1>1, <2>1, <2>2, <2>3, <2>4, <2>5, <2>6, <2>9, StepWrites DEF Writes
<1>2. Consistent /\ [Next]_vars => [\A l \in Calls : Ordered(l)]_vars
  BY <1>1
<1> QED BY <1>2, AlwaysConsistent, PTL DEF Spec, RevisionsOrderStatuses

-----------------------------------------------------------------------------
(* The history of a licence and the links of a reissue.  Neither property  *)
(* is inductive: the first event is numbered by the entitlement only if    *)
(* the licence was issued at it, and a replacement is found only if the    *)
(* row it was bound to still names the licence it replaces.                *)

Gapless(l) ==
  IF license[l].status \in {"none", "prepared"} THEN EventsOf(l) = {}
  ELSE /\ {e.revision : e \in EventsOf(l)} =
            inventory[attempt[l].code].entitlement .. license[l].revision
       /\ \A e, f \in EventsOf(l) : e.revision = f.revision => e = f
       /\ [license |-> l, revision |-> license[l].revision, status |-> license[l].status] \in events

Linked(l) ==
  LET r == license[l].replacedIn
      n == license[l].replacedBy
  IN
  /\ license[l].status = "reissued" <=> r # None \/ n # None
  /\ r # None => /\ n = None
                 /\ inventory[r].replaces = l
                 /\ inventory[r].status \in {"prepared", "binding"}
                 /\ inventory[r].entitlement = license[l].revision
  /\ n # None => /\ inventory[attempt[n].code].replaces = l
                 /\ attempt[n].artifact # None
                 /\ license[n].revision >= license[l].revision

\* A licence is issued at its code's entitlement, only a bound attempt replaces another,
\* and a commit key is recorded by the commit.
Issued(l) ==
  /\ license[l].status = "prepared" =>
       license[l].revision = inventory[attempt[l].code].entitlement
  /\ license[l].replacedBy # None => Bound(license[l].replacedBy)
  /\ Bound(l) /\ attempt[l].stage # "committed" => attempt[l].commit = None

Recorded == \A l \in Calls : Gapless(l) /\ Linked(l) /\ Issued(l)

LEMMA RecordedInit == Init => Recorded
<1> SUFFICES ASSUME Init, NEW l \in Calls PROVE Gapless(l) /\ Linked(l) /\ Issued(l)
  BY DEF Recorded
<1>1. license[l] = NoLicense /\ attempt[l] = NoAttempt /\ events = {}
  BY DEF Init
<1> QED BY <1>1 DEF Gapless, Linked, Issued, EventsOf, NoLicense, NoAttempt, Bound

\* What an inventory row was created with never changes.
LEMMA StepStock ==
  ASSUME Consistent, UNCHANGED rows \/ Writes, NEW i \in Codes, inventory[i].status # "absent"
  PROVE  /\ inventory'[i].entitlement = inventory[i].entitlement
         /\ inventory'[i].replaces = inventory[i].replaces
<1> DEFINE Stands == /\ inventory'[i].entitlement = inventory[i].entitlement
                     /\ inventory'[i].replaces = inventory[i].replaces
<1>0. inventory \in [Codes -> Inventories]
  BY DEF Consistent, Typed, TypeOK
<1>1. CASE UNCHANGED rows
  BY <1>1 DEF rows
<1>2. ASSUME NEW c \in Calls, Takes(c) PROVE Stands
  BY <1>0, <1>2 DEF Takes, TakeOverLease, Inventories
<1>3. ASSUME NEW c \in Calls, Inserts(c) PROVE Stands
  BY <1>0, <1>3 DEF Inserts, InsertBinding, Inventories
<1>4. ASSUME NEW c \in Calls, Stores(c) PROVE Stands
  BY ZenonT(60), <1>0, <1>4 DEF Stores, StoreArtifact, Inventories
<1>5. ASSUME NEW a \in Calls, NEW k \in Keys, CommitActivation(a, k) PROVE Stands
  BY <1>5 DEF CommitActivation
<1>6. ASSUME NEW j \in Codes, InventoryStep(j) PROVE Stands
  BY <1>0, <1>6 DEF InventoryStep, CreateInventory, MarkConfigured, SetMapping, LeaseExpires, Inventories
<1>7. ASSUME NEW l \in Calls, LicenseStep(l) PROVE Stands
  <2>1. CASE Disable(l) \/ Enable(l) \/ ExpireLicense(l)
    BY <2>1 DEF Disable, Enable, ExpireLicense
  <2>2. CASE Revoke(l)
    BY <1>0, <2>2 DEF Revoke, Inventories
  <2>3. ASSUME NEW r \in Codes, Reissue(l, r) PROVE Stands
    <3>1. r # i
      BY <2>3 DEF Reissue
    <3> DEFINE taken == [inventory EXCEPT ![attempt[l].code].status = "revoked"]
               fresh == [NoInventory EXCEPT !.status = "prepared", !.replaces = l,
                                            !.entitlement = NextRevision(l)]
    <3>2. inventory' = [taken EXCEPT ![r] = fresh]
      BY <2>3 DEF Reissue
    <3>3. /\ DOMAIN taken = Codes
          /\ taken[i].entitlement = inventory[i].entitlement
          /\ taken[i].replaces = inventory[i].replaces
      BY <1>0 DEF Inventories
    <3> HIDE DEF taken, fresh
    <3> QED BY <3>1, <3>2, <3>3
  <2> QED BY <1>7, <2>1, <2>2, <2>3 DEF LicenseStep
<1> QED BY <1>1, <1>2, <1>3, <1>4, <1>5, <1>6, <1>7 DEF Writes

\* A licence nobody changed keeps its history, and one more event continues it.
LEMMA HistoryStands ==
  ASSUME NEW l \in Calls, Gapless(l),
         license'[l].status = license[l].status, license'[l].revision = license[l].revision,
         EventsOf(l)' = EventsOf(l),
         license[l].status \notin {"none", "prepared"} =>
           inventory'[attempt'[l].code].entitlement = inventory[attempt[l].code].entitlement
  PROVE  Gapless(l)'
<1>1. CASE license[l].status \in {"none", "prepared"}
  BY <1>1 DEF Gapless
<1>2. CASE license[l].status \notin {"none", "prepared"}
  <2> DEFINE e0 == [license |-> l, revision |-> license[l].revision, status |-> license[l].status]
  <2>1. e0 \in EventsOf(l)
    BY <1>2 DEF Gapless, EventsOf
  <2>2. e0 \in events'
    BY <2>1 DEF EventsOf
  <2> QED BY <1>2, <2>2 DEF Gapless
<1> QED BY <1>1, <1>2

LEMMA HistoryGrows ==
  ASSUME Typed, NEW l \in Calls, NEW to \in LicenseStatus \ {"prepared"}, Gapless(l),
         license[l].status \notin {"none", "prepared"},
         license'[l].status = to, license'[l].revision = license[l].revision + 1,
         events' = events \cup {[license |-> l, revision |-> license[l].revision + 1, status |-> to]},
         inventory'[attempt'[l].code].entitlement = inventory[attempt[l].code].entitlement,
         inventory[attempt[l].code].entitlement \in Nat
  PROVE  Gapless(l)'
<1> DEFINE rev == license[l].revision
           first == inventory[attempt[l].code].entitlement
           new == [license |-> l, revision |-> rev + 1, status |-> to]
           now == EventsOf(l)
<1>1. rev \in Nat /\ first \in Nat
  BY DEF Typed, TypeOK, Licenses
<1>2. /\ {e.revision : e \in now} = first .. rev
      /\ \A e, f \in now : e.revision = f.revision => e = f
      /\ rev \in {e.revision : e \in now}
  BY DEF Gapless, EventsOf
<1>3. EventsOf(l)' = now \cup {new}
  BY DEF EventsOf
<1> HIDE DEF now
<1>4. first <= rev
  BY <1>1, <1>2
<1>5. {e.revision : e \in now \cup {new}} = {e.revision : e \in now} \cup {rev + 1}
  <2>1. new.revision = rev + 1
    OBVIOUS
  <2> HIDE DEF new
  <2> QED BY <2>1
<1>6. {e.revision : e \in now \cup {new}} = first .. (rev + 1)
  BY <1>1, <1>2, <1>4, <1>5
<1>7. \A e \in now : e.revision # new.revision
  <2> SUFFICES ASSUME NEW e \in now, e.revision = rev + 1 PROVE FALSE
    OBVIOUS
  <2>1. rev + 1 \in first .. rev
    BY <1>2
  <2> QED BY <1>1, <2>1
<1>8. \A e, f \in now \cup {new} : e.revision = f.revision => e = f
  BY <1>2, <1>7
<1>9. new \in events'
  OBVIOUS
<1>10. /\ {e.revision : e \in EventsOf(l)'} = first .. (rev + 1)
       /\ \A e, f \in EventsOf(l)' : e.revision = f.revision => e = f
  BY <1>3, <1>6, <1>8
<1>11. license'[l].status \notin {"none", "prepared"}
  BY DEF LicenseStatus
<1> QED BY <1>9, <1>10, <1>11 DEF Gapless

LEMMA HistoryStarts ==
  ASSUME Typed, NEW l \in Calls, Gapless(l), license[l].status = "prepared",
         license'[l].status = "active", license'[l].revision = license[l].revision,
         events' = events \cup {[license |-> l, revision |-> license[l].revision, status |-> "active"]},
         inventory'[attempt'[l].code].entitlement = license[l].revision
  PROVE  Gapless(l)'
<1> DEFINE rev == license[l].revision
           new == [license |-> l, revision |-> rev, status |-> "active"]
<1>1. rev \in Nat
  BY DEF Typed, TypeOK, Licenses
<1>2. EventsOf(l)' = {new}
  BY DEF Gapless, EventsOf
<1>3. {e.revision : e \in {new}} = {rev}
  OBVIOUS
<1>4. rev .. rev = {rev}
  BY <1>1
<1> QED BY <1>2, <1>3, <1>4 DEF Gapless

\* A licence whose row stands keeps its links, when the rows they point at stand.
LEMMA LinksStand ==
  ASSUME NEW l \in Calls, Linked(l),
         license'[l].status = license[l].status, license'[l].revision = license[l].revision,
         license'[l].replacedIn = license[l].replacedIn,
         license'[l].replacedBy = license[l].replacedBy,
         license[l].replacedIn # None =>
           LET r == license[l].replacedIn IN
           /\ inventory'[r].replaces = inventory[r].replaces
           /\ inventory'[r].entitlement = inventory[r].entitlement
           /\ inventory'[r].status \in {"prepared", "binding"},
         license[l].replacedBy # None =>
           LET n == license[l].replacedBy IN
           /\ inventory'[attempt'[n].code].replaces = inventory[attempt[n].code].replaces
           /\ attempt'[n].artifact # None
           /\ license'[n].revision >= license[l].revision
  PROVE  Linked(l)'
BY DEF Linked

LEMMA BoundStock ==
  ASSUME Consistent, UNCHANGED rows \/ Writes, NEW a \in Calls, Bound(a)
  PROVE  /\ attempt[a].code \in Codes /\ attempt'[a].code = attempt[a].code
         /\ inventory[attempt[a].code] \in Inventories
         /\ inventory[attempt[a].code].status \in {"binding", "active", "revoked"}
         /\ inventory'[attempt[a].code].entitlement = inventory[attempt[a].code].entitlement
         /\ inventory'[attempt[a].code].replaces = inventory[attempt[a].code].replaces
<1> DEFINE i == attempt[a].code
<1>1. i \in Codes /\ binding[i].device = a /\ BindingStory(i) /\ a # None
  BY Story, ServerAssumption DEF Consistent
<1>2. inventory[i].status \in {"binding", "active", "revoked"}
  BY <1>1 DEF BindingStory
<1>3. attempt'[a].code = i
  BY StepKeeps DEF Keeps
<1>4. inventory[i] \in Inventories
  BY <1>1 DEF Consistent, Typed, TypeOK
<1> HIDE DEF i
<1>5. inventory'[i].entitlement = inventory[i].entitlement /\ inventory'[i].replaces = inventory[i].replaces
  BY <1>1, <1>2, StepStock
<1> QED BY <1>1, <1>2, <1>3, <1>4, <1>5 DEF i

\* What the writes do to the licence they are about, and to its links.
LEMMA Mutated ==
  ASSUME Consistent, NEW l \in Calls, NEW to, NEW bs, NEW r, MutateLicense(l, to, bs, r)
  PROVE  /\ license[l].status \in {"active", "disabled"} /\ Bound(l)
         /\ to \in {"active", "disabled", "revoked", "reissued"}
         /\ license'[l].status = to /\ license'[l].revision = license[l].revision + 1
         /\ license'[l].replacedIn = r /\ license'[l].replacedBy = license[l].replacedBy
         /\ \A b \in Calls : b # l => license'[b] = license[b]
<1>1. license[l].status \in {"active", "disabled"} /\ to \in {"active", "disabled", "revoked", "reissued"}
  BY DEF MutateLicense, ValidAdminTransition
<1>2. Bound(l)
  BY <1>1, Unbound DEF Consistent
<1>3. license[l] \in Licenses /\ license \in [Calls -> Licenses]
  BY DEF Consistent, Typed, TypeOK
<1> QED BY <1>1, <1>2, <1>3 DEF MutateLicense, NextRevision, Licenses

LEMMA Expired ==
  ASSUME Consistent, NEW l \in Calls, ExpireLicense(l)
  PROVE  /\ license[l].status = "active" /\ Bound(l)
         /\ license'[l].status = "expired" /\ license'[l].revision = license[l].revision + 1
         /\ license'[l].replacedIn = license[l].replacedIn
         /\ license'[l].replacedBy = license[l].replacedBy
         /\ \A b \in Calls : b # l => license'[b] = license[b]
<1>1. license[l].status = "active"
  BY DEF ExpireLicense
<1>2. Bound(l)
  BY <1>1, Unbound DEF Consistent
<1>3. license[l] \in Licenses /\ license \in [Calls -> Licenses]
  BY DEF Consistent, Typed, TypeOK
<1> QED BY <1>1, <1>2, <1>3 DEF ExpireLicense, NextRevision, Licenses

LEMMA StoredLinks ==
  ASSUME Typed, NEW c \in Calls, NEW a \in Calls, StoreArtifact(c, a), NEW b \in Calls
  PROVE  LET old   == inventory[attempt[a].code].replaces
             moved == /\ b = old /\ license[b].status = "reissued"
                      /\ license[b].replacedIn = attempt[a].code
         IN  /\ ~moved => /\ license'[b].replacedIn = license[b].replacedIn
                          /\ license'[b].replacedBy = license[b].replacedBy
             /\ b # a /\ moved => license'[b].replacedIn = None /\ license'[b].replacedBy = a
<1> DEFINE linked == [license EXCEPT ![a].status = "active"]
           old == inventory[attempt[a].code].replaces
           cond == old # None /\ license[old].status = "reissued" /\ license[old].replacedIn = attempt[a].code
<1>1. linked \in [Calls -> Licenses]
  BY DEF Typed, TypeOK, Licenses, LicenseStatus
<1>2. /\ linked[b].replacedIn = license[b].replacedIn /\ linked[b].replacedBy = license[b].replacedBy
      /\ linked[b] \in Licenses
  BY <1>1 DEF Typed, TypeOK, Licenses
<1>3. license' = IF cond THEN [linked EXCEPT ![old].replacedBy = a, ![old].replacedIn = None] ELSE linked
  BY DEF StoreArtifact
<1>4. b # None
  BY ServerAssumption
<1> HIDE DEF linked
<1>5. CASE cond /\ b = old
  <2>1. license'[b] = [linked[b] EXCEPT !.replacedBy = a, !.replacedIn = None]
    BY <1>1, <1>3, <1>5
  <2> HIDE DEF old
  <2> QED BY <1>2, <1>5, <2>1 DEF Licenses, old
<1>6. CASE ~(cond /\ b = old)
  <2>1. license'[b] = linked[b]
    BY <1>1, <1>3, <1>6
  <2> QED BY <1>2, <1>4, <1>6, <2>1
<1> QED BY <1>5, <1>6

\* The history is gapless after every write.
LEMMA StepHistory ==
  ASSUME Consistent, Recorded, UNCHANGED rows \/ Writes, NEW l \in Calls
  PROVE  Gapless(l)'
<1>0. Gapless(l) /\ Issued(l) /\ Typed
  BY DEF Recorded, Consistent
<1>1. license[l].status # "none" =>
        /\ inventory'[attempt'[l].code].entitlement = inventory[attempt[l].code].entitlement
        /\ inventory[attempt[l].code].entitlement \in Nat
  BY Unbound, BoundStock DEF Consistent, Inventories
<1>2. ASSUME license'[l] = license[l], EventsOf(l)' = EventsOf(l) PROVE Gapless(l)'
  BY <1>0, <1>1, <1>2, HistoryStands
<1>3. ASSUME UNCHANGED <<license, events>> PROVE Gapless(l)'
  BY <1>2, <1>3 DEF EventsOf
<1>4. CASE UNCHANGED rows
  BY <1>3, <1>4 DEF rows
<1>5. ASSUME NEW c \in Calls, Takes(c) PROVE Gapless(l)'
  BY <1>3, <1>5 DEF Takes, TakeOverLease
<1>6. ASSUME NEW c \in Calls, Inserts(c) PROVE Gapless(l)'
  <2>1. EventsOf(l)' = EventsOf(l)
    BY <1>6 DEF Inserts, InsertBinding, EventsOf
  <2>2. CASE l # c
    <3>1. license'[l] = license[l]
      BY <1>0, <1>6, <2>2 DEF Inserts, InsertBinding, Typed, TypeOK
    <3> QED BY <1>2, <2>1, <3>1
  <2>3. CASE l = c
    <3>1. license[l].status = "none"
      BY <1>6, <2>3 DEF Inserts, Consistent, StatusesAgree, RowsOwned, NoLicense
    <3>2. license'[l].status = "prepared"
      BY <1>0, <1>6, <2>3 DEF Inserts, InsertBinding, Typed, TypeOK, NoLicense
    <3> QED BY <1>0, <2>1, <3>1, <3>2 DEF Gapless
  <2> QED BY <2>2, <2>3
<1>7. ASSUME NEW c \in Calls, Stores(c) PROVE Gapless(l)'
  <2> DEFINE a == call[c].attempt
  <2>1. a \in Calls /\ Bound(a) /\ HoldsLease(c, a) /\ StoreArtifact(c, a)
    BY <1>7 DEF Stores
  <2>2. license[a].status = "prepared"
    BY <2>1, StoryOfInventory DEF HoldsLease, Consistent
  <2>3. events' = events \cup {[license |-> a, revision |-> license[a].revision, status |-> "active"]}
    BY <2>1 DEF StoreArtifact
  <2>4. /\ license'[l].status = IF l = a THEN "active" ELSE license[l].status
        /\ license'[l].revision = license[l].revision
    BY <1>0, <2>1, StoredLicenses
  <2> HIDE DEF a
  <2>5. CASE l = a
    <3>1. license[l].revision = inventory[attempt[l].code].entitlement
      BY <1>0, <2>2, <2>5 DEF Issued, Bound
    <3> QED BY <1>0, <1>1, <2>2, <2>3, <2>4, <2>5, <3>1, HistoryStarts
  <2>6. CASE l # a
    <3>1. EventsOf(l)' = EventsOf(l)
      BY <2>3, <2>6 DEF EventsOf
    <3> QED BY <1>0, <1>1, <2>4, <2>6, <3>1, HistoryStands
  <2> QED BY <2>5, <2>6
<1>8. ASSUME NEW a \in Calls, NEW k \in Keys, CommitActivation(a, k) PROVE Gapless(l)'
  BY <1>3, <1>8 DEF CommitActivation
<1>9. ASSUME NEW i \in Codes, InventoryStep(i) PROVE Gapless(l)'
  BY <1>3, <1>9 DEF InventoryStep, CreateInventory, MarkConfigured, SetMapping, LeaseExpires
<1>10. ASSUME NEW m \in Calls, NEW to \in LicenseStatus \ {"prepared"},
              license[m].status \in {"active", "disabled"},
              license'[m].status = to, license'[m].revision = license[m].revision + 1,
              \A b \in Calls : b # m => license'[b] = license[b],
              events' = events \cup {[license |-> m, revision |-> license[m].revision + 1, status |-> to]}
       PROVE  Gapless(l)'
  <2>1. CASE l = m
    BY <1>0, <1>1, <1>10, <2>1, HistoryGrows
  <2>2. CASE l # m
    <3>1. EventsOf(l)' = EventsOf(l)
      BY <1>10, <2>2 DEF EventsOf
    <3> QED BY <1>2, <1>10, <2>2, <3>1
  <2> QED BY <2>1, <2>2
<1>11. ASSUME NEW m \in Calls, NEW to, NEW bs, NEW r, MutateLicense(m, to, bs, r) PROVE Gapless(l)'
  <2>1. events' = events \cup {[license |-> m, revision |-> license[m].revision + 1, status |-> to]}
    BY <1>11 DEF MutateLicense, NextRevision
  <2> QED BY <1>10, <1>11, <2>1, Mutated DEF LicenseStatus
<1>12. ASSUME NEW m \in Calls, ExpireLicense(m) PROVE Gapless(l)'
  <2>1. events' = events \cup {[license |-> m, revision |-> license[m].revision + 1, status |-> "expired"]}
    BY <1>12 DEF ExpireLicense, NextRevision
  <2> QED BY <1>10, <1>12, <2>1, Expired DEF LicenseStatus
<1>13. ASSUME NEW m \in Calls, LicenseStep(m) PROVE Gapless(l)'
  BY <1>11, <1>12, <1>13 DEF LicenseStep, Disable, Enable, Revoke, Reissue
<1> QED BY <1>4, <1>5, <1>6, <1>7, <1>8, <1>9, <1>13 DEF Writes

LEMMA StepIssued ==
  ASSUME Consistent, Recorded, UNCHANGED rows \/ Writes, NEW l \in Calls
  PROVE  Issued(l)'
<1>0. Issued(l) /\ Typed /\ Linked(l)
  BY DEF Recorded, Consistent
<1> DEFINE A == license'[l].status = "prepared" =>
                  license'[l].revision = inventory'[attempt'[l].code].entitlement
           B == license'[l].replacedBy # None => attempt'[license'[l].replacedBy].stage # "none"
           C == Bound(l)' /\ attempt'[l].stage # "committed" => attempt'[l].commit = None
<1>1. ASSUME license'[l].status = "prepared" => license[l].status = "prepared",
             license'[l].revision = license[l].revision \/ license'[l].status # "prepared"
      PROVE  A
  <2>1. CASE license'[l].status = "prepared"
    <3>1. Bound(l)
      BY <1>1, <2>1, Unbound DEF Consistent
    <3> QED BY <1>0, <1>1, <2>1, <3>1, BoundStock DEF Issued, Bound
  <2> QED BY <2>1
<1>2. license[l].replacedBy \in Calls \cup {None}
  BY <1>0 DEF Typed, TypeOK, Licenses
<1>3. ASSUME license'[l].replacedBy = license[l].replacedBy PROVE B
  BY <1>0, <1>2, <1>3, StepKeeps DEF Issued, Keeps, Bound
<1>4. ASSUME attempt'[l].commit = attempt[l].commit,
             attempt'[l].stage # "committed" => attempt[l].stage # "committed",
             Bound(l)
      PROVE  C
  BY <1>0, <1>4 DEF Issued, Bound
<1>5. ASSUME UNCHANGED attempt PROVE C
  BY <1>0, <1>5 DEF Issued, Bound
<1>6. ASSUME UNCHANGED license PROVE A /\ B
  BY <1>1, <1>3, <1>6
<1>7. CASE UNCHANGED rows
  BY <1>5, <1>6, <1>7 DEF rows, Issued, Bound
<1>8. ASSUME NEW c \in Calls, Takes(c) PROVE Issued(l)'
  BY <1>5, <1>6, <1>8 DEF Takes, TakeOverLease, Issued, Bound
<1>9. ASSUME NEW c \in Calls, Inserts(c) PROVE Issued(l)'
  <2>1. CASE l # c
    <3>1. license'[l] = license[l] /\ attempt'[l] = attempt[l]
      BY <1>0, <1>9, <2>1 DEF Inserts, InsertBinding, Typed, TypeOK
    <3>2. A /\ B
      BY <1>1, <1>3, <3>1
    <3>3. C
      BY <1>0, <3>1 DEF Issued, Bound
    <3> QED BY <3>2, <3>3 DEF Issued, Bound
  <2>2. CASE l = c
    <3> DEFINE i == call[c].code
    <3>1. license'[l] = [NoLicense EXCEPT !.status = "prepared", !.secret = c, !.revision = inventory[i].entitlement]
      BY <1>0, <1>9, <2>2 DEF Inserts, InsertBinding, Typed, TypeOK
    <3>2. i \in Codes /\ inventory[i].status # "absent"
      BY <1>9 DEF Inserts
    <3>3. attempt'[l].code = i /\ attempt'[l].commit = None
      BY <1>0, <1>9, <2>2, Inserted DEF Inserts, NoAttempt
    <3>4. inventory'[i].entitlement = inventory[i].entitlement
      BY <3>2, StepStock
    <3>5. license'[l].revision = inventory[i].entitlement /\ license'[l].replacedBy = None
      BY <3>1 DEF NoLicense
    <3> HIDE DEF i
    <3> QED BY <3>3, <3>4, <3>5 DEF Issued, Bound
  <2> QED BY <2>1, <2>2
<1>10. ASSUME NEW c \in Calls, Stores(c) PROVE Issued(l)'
  <2> DEFINE a == call[c].attempt
  <2>1. a \in Calls /\ Bound(a) /\ HoldsLease(c, a) /\ StoreArtifact(c, a)
    BY <1>10 DEF Stores
  <2>2. license[a].status = "prepared"
    BY <2>1, StoryOfInventory DEF HoldsLease, Consistent
  <2>3. /\ license'[l].status = IF l = a THEN "active" ELSE license[l].status
        /\ license'[l].revision = license[l].revision
    BY <1>0, <2>1, StoredLicenses
  <2>4. A
    BY <1>1, <2>3
  <2>5. license'[l].replacedBy \in {license[l].replacedBy, a} \/ l = a
    BY <1>0, <2>1, StoredLinks
  <2>6. l = a => license'[l].replacedBy = license[l].replacedBy
    BY <1>0, <2>1, <2>2, StoredLinks
  <2>7. attempt'[a].stage # "none"
    <3>1. \A b \in Calls : Bound(b) => attempt'[b].stage # "none"
      BY StepKeeps DEF Keeps, Bound
    <3> QED BY <2>1, <3>1
  <2>8. B
    BY <1>3, <2>5, <2>6, <2>7 DEF Bound
  <2>9. /\ attempt'[l].commit = attempt[l].commit
        /\ attempt'[l].stage # "committed" => attempt[l].stage # "committed" \/ l = a
        /\ Bound(l)' => Bound(l)
    BY <1>0, <2>1 DEF StoreArtifact, Typed, TypeOK, Attempts, Bound
  <2>10. attempt[a].stage # "committed"
    BY <2>1, StoryOfInventory DEF HoldsLease, Consistent
  <2>11. C
    BY <1>4, <2>9, <2>10
  <2> HIDE DEF a
  <2> QED BY <2>4, <2>8, <2>11 DEF Issued, Bound
<1>11. ASSUME NEW a \in Calls, NEW k \in Keys, CommitActivation(a, k) PROVE Issued(l)'
  <2>1. A /\ B
    BY <1>6, <1>11 DEF CommitActivation
  <2>2. C
    BY <1>0, <1>11 DEF CommitActivation, Typed, TypeOK, Attempts, Issued, Bound
  <2> QED BY <2>1, <2>2 DEF Issued, Bound
<1>12. ASSUME NEW i \in Codes, InventoryStep(i) PROVE Issued(l)'
  BY <1>5, <1>6, <1>12 DEF InventoryStep, CreateInventory, MarkConfigured, SetMapping, LeaseExpires, Issued,
                            Bound
<1>13. ASSUME NEW m \in Calls, NEW to, NEW bs, NEW r, MutateLicense(m, to, bs, r) PROVE Issued(l)'
  <2>1. A /\ B
    BY <1>1, <1>3, <1>13, Mutated
  <2>2. C
    BY <1>5, <1>13 DEF MutateLicense
  <2> QED BY <2>1, <2>2 DEF Issued, Bound
<1>14. ASSUME NEW m \in Calls, ExpireLicense(m) PROVE Issued(l)'
  <2>1. A /\ B
    BY <1>1, <1>3, <1>14, Expired
  <2>2. C
    BY <1>5, <1>14 DEF ExpireLicense
  <2> QED BY <2>1, <2>2 DEF Issued, Bound
<1>15. ASSUME NEW m \in Calls, LicenseStep(m) PROVE Issued(l)'
  BY <1>13, <1>14, <1>15 DEF LicenseStep, Disable, Enable, Revoke, Reissue
<1> QED BY <1>7, <1>8, <1>9, <1>10, <1>11, <1>12, <1>15 DEF Writes

\* A code that waits for its activation waits until the artifact of its attempt is stored.
LEMMA StepWaits ==
  ASSUME Consistent, UNCHANGED rows \/ Writes, NEW i \in Codes,
         inventory[i].status \in {"prepared", "binding"},
         \A b \in Calls : Bound(b) /\ attempt[b].code = i => attempt'[b].artifact = attempt[b].artifact
  PROVE  inventory'[i].status \in {"prepared", "binding"}
<1> DEFINE Waits == inventory'[i].status \in {"prepared", "binding"}
<1>0. inventory \in [Codes -> Inventories]
  BY DEF Consistent, Typed, TypeOK
<1>1. CASE UNCHANGED rows
  BY <1>1 DEF rows
<1>2. ASSUME NEW c \in Calls, Takes(c) PROVE Waits
  BY <1>0, <1>2 DEF Takes, TakeOverLease, Inventories
<1>3. ASSUME NEW c \in Calls, Inserts(c) PROVE Waits
  BY <1>0, <1>3 DEF Inserts, InsertBinding, Inventories
<1>4. ASSUME NEW c \in Calls, Stores(c) PROVE Waits
  <2>1. attempt[call[c].attempt].code # i
    BY <1>4, StoredAttempt DEF Stores, Consistent
  <2> QED BY <1>0, <1>4, <2>1 DEF Stores, StoreArtifact
<1>5. ASSUME NEW a \in Calls, NEW k \in Keys, CommitActivation(a, k) PROVE Waits
  BY <1>5 DEF CommitActivation
<1>6. ASSUME NEW j \in Codes, InventoryStep(j) PROVE Waits
  BY <1>0, <1>6 DEF InventoryStep, CreateInventory, MarkConfigured, SetMapping, LeaseExpires, Inventories
<1>7. ASSUME NEW m \in Calls, LicenseStep(m) PROVE Waits
  <2>1. CASE Disable(m) \/ Enable(m) \/ ExpireLicense(m)
    BY <2>1 DEF Disable, Enable, ExpireLicense
  <2>2. ASSUME NEW to, NEW bs, NEW r, MutateLicense(m, to, bs, r) PROVE attempt[m].code # i
    <3>1. license[m].status \in {"active", "disabled"} /\ Bound(m)
      BY <2>2, Mutated
    <3>2. BindingStory(attempt[m].code) /\ binding[attempt[m].code].device = m /\ m # None
      BY <3>1, Story, ServerAssumption DEF Consistent
    <3> QED BY <3>1, <3>2 DEF BindingStory
  <2>3. CASE Revoke(m)
    BY <1>0, <2>2, <2>3 DEF Revoke
  <2>4. ASSUME NEW r \in Codes, Reissue(m, r) PROVE Waits
    <3>1. r # i /\ attempt[m].code # i
      BY <2>2, <2>4 DEF Reissue
    <3> QED BY <1>0, <2>4, <3>1 DEF Reissue
  <2> QED BY <1>7, <2>1, <2>3, <2>4 DEF LicenseStep
<1> QED BY <1>1, <1>2, <1>3, <1>4, <1>5, <1>6, <1>7 DEF Writes

\* The revision of a licence never falls.
LEMMA StepRevision ==
  ASSUME Consistent, UNCHANGED rows \/ Writes, NEW b \in Calls, Bound(b)
  PROVE  /\ license[b].revision \in Nat /\ license'[b].revision \in Nat
         /\ license'[b].revision >= license[b].revision
<1> DEFINE Grows == license'[b].revision \in Nat /\ license'[b].revision >= license[b].revision
<1>0. Typed /\ license \in [Calls -> Licenses] /\ license[b].revision \in Nat
  BY DEF Consistent, Typed, TypeOK, Licenses
<1>1. ASSUME license'[b].revision \in {license[b].revision, license[b].revision + 1} PROVE Grows
  BY <1>0, <1>1
<1>2. ASSUME UNCHANGED license PROVE Grows
  BY <1>1, <1>2
<1>3. CASE UNCHANGED rows
  BY <1>2, <1>3 DEF rows
<1>4. ASSUME NEW c \in Calls, Takes(c) PROVE Grows
  BY <1>2, <1>4 DEF Takes, TakeOverLease
<1>5. ASSUME NEW c \in Calls, Inserts(c) PROVE Grows
  <2>1. license'[b] = license[b]
    BY <1>0, <1>5 DEF Inserts, InsertBinding
  <2> QED BY <1>1, <2>1
<1>6. ASSUME NEW c \in Calls, Stores(c) PROVE Grows
  BY <1>0, <1>1, <1>6, StoredLicenses DEF Stores
<1>7. ASSUME NEW a \in Calls, NEW k \in Keys, CommitActivation(a, k) PROVE Grows
  BY <1>2, <1>7 DEF CommitActivation
<1>8. ASSUME NEW i \in Codes, InventoryStep(i) PROVE Grows
  BY <1>2, <1>8 DEF InventoryStep, CreateInventory, MarkConfigured, SetMapping, LeaseExpires
<1>9. ASSUME NEW m \in Calls, NEW to, NEW bs, NEW r, MutateLicense(m, to, bs, r) PROVE Grows
  BY <1>1, <1>9, Mutated
<1>10. ASSUME NEW m \in Calls, ExpireLicense(m) PROVE Grows
  BY <1>1, <1>10, Expired
<1>11. ASSUME NEW m \in Calls, LicenseStep(m) PROVE Grows
  BY <1>9, <1>10, <1>11 DEF LicenseStep, Disable, Enable, Revoke, Reissue
<1> QED BY <1>0, <1>3, <1>4, <1>5, <1>6, <1>7, <1>8, <1>11 DEF Writes

\* A reissued licence is linked to its replacement after every write.
LEMMA StepLinked ==
  ASSUME Consistent, Recorded, UNCHANGED rows \/ Writes, NEW l \in Calls
  PROVE  Linked(l)'
<1> DEFINE r == license[l].replacedIn
           n == license[l].replacedBy
<1>0. Linked(l) /\ Issued(l) /\ Typed
  BY DEF Recorded, Consistent
<1>1. r \in Codes \cup {None} /\ n \in Calls \cup {None} /\ license[l].revision \in Nat
  BY <1>0 DEF Typed, TypeOK, Licenses
<1>2. r # None => /\ inventory[r].status \in {"prepared", "binding"}
                  /\ inventory'[r].replaces = inventory[r].replaces
                  /\ inventory'[r].entitlement = inventory[r].entitlement
  BY <1>0, <1>1, StepStock DEF Linked
<1>3. ASSUME n # None
      PROVE  /\ inventory'[attempt'[n].code].replaces = inventory[attempt[n].code].replaces
             /\ attempt'[n].artifact # None
             /\ license'[n].revision >= license[l].revision
  <2>1. n \in Calls /\ Bound(n)
    BY <1>0, <1>1, <1>3 DEF Issued
  <2>2. attempt[n].artifact # None /\ license[n].revision >= license[l].revision
    BY <1>0, <1>3 DEF Linked
  <2> HIDE DEF n
  <2>3. \A b \in Calls : Bound(b) =>
           /\ attempt[b].artifact # None => attempt'[b].artifact # None
           /\ license'[b].revision \in Nat /\ license[b].revision \in Nat
           /\ license'[b].revision >= license[b].revision
           /\ inventory'[attempt'[b].code].replaces = inventory[attempt[b].code].replaces
    BY StepKeeps, StepRevision, BoundStock DEF Keeps
  <2> QED BY <1>1, <2>1, <2>2, <2>3
<1>4. ASSUME license'[l].status = license[l].status, license'[l].revision = license[l].revision,
             license'[l].replacedIn = r, license'[l].replacedBy = n,
             r # None => \A b \in Calls : Bound(b) /\ attempt[b].code = r =>
                           attempt'[b].artifact = attempt[b].artifact
      PROVE  Linked(l)'
  <2>1. r # None => inventory'[r].status \in {"prepared", "binding"}
    BY <1>1, <1>2, <1>4, StepWaits
  <2> QED BY <1>0, <1>2, <1>3, <1>4, <2>1, LinksStand
<1>5. ASSUME UNCHANGED attempt, license'[l] = license[l] PROVE Linked(l)'
  BY <1>4, <1>5
<1>6. ASSUME license[l].status # "reissued", license'[l].status # "reissued",
             license'[l].replacedIn = None, license'[l].replacedBy = n
      PROVE  Linked(l)'
  BY <1>0, <1>6 DEF Linked
<1>7. CASE UNCHANGED rows
  BY <1>5, <1>7 DEF rows
<1>8. ASSUME NEW c \in Calls, Takes(c) PROVE Linked(l)'
  BY <1>5, <1>8 DEF Takes, TakeOverLease
<1>9. ASSUME NEW c \in Calls, Inserts(c) PROVE Linked(l)'
  <2>1. CASE l # c
    <3>1. license'[l] = license[l]
      BY <1>0, <1>9, <2>1 DEF Inserts, InsertBinding, Typed, TypeOK
    <3>2. \A b \in Calls : Bound(b) => attempt'[b] = attempt[b]
      BY <1>0, <1>9 DEF Inserts, InsertBinding, Typed, TypeOK
    <3> QED BY <1>4, <3>1, <3>2
  <2>2. CASE l = c
    <3>1. license[l] = NoLicense
      BY <1>9, <2>2 DEF Inserts, Consistent, StatusesAgree, RowsOwned
    <3>2. /\ license'[l].status = "prepared" /\ license'[l].replacedIn = None
          /\ license'[l].replacedBy = None
      BY <1>0, <1>9, <2>2 DEF Inserts, InsertBinding, Typed, TypeOK, NoLicense
    <3> QED BY <1>6, <3>1, <3>2 DEF NoLicense
  <2> QED BY <2>1, <2>2
<1>10. ASSUME NEW c \in Calls, Stores(c) PROVE Linked(l)'
  <2> DEFINE a == call[c].attempt
             i == attempt[a].code
  <2>1. /\ a \in Calls /\ Bound(a) /\ HoldsLease(c, a) /\ StoreArtifact(c, a)
        /\ call[c].secret # None /\ a # None
    BY <1>10, ServerAssumption DEF Stores
  <2>2. license[a].status = "prepared" /\ i \in Codes /\ i # None
    BY <2>1, Story, StoryOfInventory, ServerAssumption DEF HoldsLease, Consistent
  <2>3. /\ license'[l].status = IF l = a THEN "active" ELSE license[l].status
        /\ license'[l].revision = license[l].revision
        /\ license'[a].revision = license[a].revision
    BY <1>0, <2>1, StoredLicenses
  <2>4. /\ attempt'[a].code = i /\ attempt'[a].artifact # None
        /\ \A b \in Calls : b # a => attempt'[b] = attempt[b]
    BY <1>0, <2>1, StoredAttempt
  <2>5. /\ license[a].revision = inventory[i].entitlement
        /\ inventory'[i].replaces = inventory[i].replaces
    BY <2>1, <2>2, BoundStock DEF Recorded, Issued
  <2> DEFINE moved == /\ l = inventory[i].replaces /\ license[l].status = "reissued"
                      /\ license[l].replacedIn = i
  <2>6. /\ ~moved => license'[l].replacedIn = r /\ license'[l].replacedBy = n
        /\ l # a /\ moved => license'[l].replacedIn = None /\ license'[l].replacedBy = a
    BY <1>0, <2>1, StoredLinks
  <2> HIDE DEF a, i
  <2>7. CASE l = a
    <3>1. r = None /\ n = None
      BY <1>0, <2>2, <2>7 DEF Linked
    <3> QED BY <1>6, <2>2, <2>3, <2>6, <2>7, <3>1
  <2>8. CASE l # a /\ r = i
    <3>1. moved /\ inventory[i].entitlement = license[l].revision
      BY <1>0, <2>2, <2>8 DEF Linked
    <3>2. license'[l].status = "reissued" /\ license'[l].replacedIn = None /\ license'[l].replacedBy = a
      BY <2>3, <2>6, <2>8, <3>1
    <3>3. license'[a].revision >= license'[l].revision
      BY <1>1, <2>3, <2>5, <3>1
    <3>4. inventory'[attempt'[a].code].replaces = l
      BY <2>4, <2>5, <3>1
    <3> QED BY <2>1, <2>4, <3>2, <3>3, <3>4 DEF Linked
  <2>9. CASE l # a /\ r # i
    <3>1. \A b \in Calls : attempt[b].code = r => attempt'[b] = attempt[b]
      BY <2>4, <2>9 DEF i
    <3>2. license'[l].replacedIn = r /\ license'[l].replacedBy = n
      BY <2>6, <2>9
    <3>3. license'[l].status = license[l].status /\ license'[l].revision = license[l].revision
      BY <2>3, <2>9
    <3> QED BY <1>4, <3>1, <3>2, <3>3
  <2> QED BY <2>7, <2>8, <2>9
<1>11. ASSUME NEW a \in Calls, NEW k \in Keys, CommitActivation(a, k) PROVE Linked(l)'
  <2>1. \A b \in Calls : attempt'[b].artifact = attempt[b].artifact
    BY <1>0, <1>11 DEF CommitActivation, Typed, TypeOK, Attempts
  <2>2. UNCHANGED license
    BY <1>11 DEF CommitActivation
  <2> QED BY <1>4, <2>1, <2>2
<1>12. ASSUME NEW i \in Codes, InventoryStep(i) PROVE Linked(l)'
  BY <1>5, <1>12 DEF InventoryStep, CreateInventory, MarkConfigured, SetMapping, LeaseExpires
<1>13. ASSUME NEW m \in Calls, NEW to \in {"active", "disabled", "revoked"}, NEW bs,
              MutateLicense(m, to, bs, None)
       PROVE  Linked(l)'
  <2>1. UNCHANGED attempt
    BY <1>13 DEF MutateLicense
  <2> QED BY <1>5, <1>6, <1>13, <2>1, Mutated
<1>14. ASSUME NEW m \in Calls, NEW q \in Codes, Reissue(m, q) PROVE Linked(l)'
  <2>1. MutateLicense(m, "reissued", "revoked", q) /\ q # None
    BY <1>14, ServerAssumption DEF Reissue
  <2>2. /\ license[m].status # "reissued" /\ license'[m].status = "reissued"
        /\ license'[m].revision = license[m].revision + 1
        /\ license'[m].replacedIn = q /\ license'[m].replacedBy = license[m].replacedBy
        /\ \A b \in Calls : b # m => license'[b] = license[b]
    BY <2>1, Mutated
  <2>3. UNCHANGED attempt
    BY <2>1 DEF MutateLicense
  <2>4. CASE l # m
    BY <1>5, <2>2, <2>3, <2>4
  <2>5. CASE l = m
    <3>1. n = None
      BY <1>0, <2>2, <2>5 DEF Linked
    <3> DEFINE taken == [inventory EXCEPT ![attempt[m].code].status = "revoked"]
               fresh == [NoInventory EXCEPT !.status = "prepared", !.replaces = m,
                                            !.entitlement = license[m].revision + 1]
    <3>2. inventory' = [taken EXCEPT ![q] = fresh] /\ DOMAIN taken = Codes
      BY <1>0, <1>14 DEF Reissue, NextRevision, Typed, TypeOK
    <3>3. /\ fresh.status = "prepared" /\ fresh.replaces = m
          /\ fresh.entitlement = license[m].revision + 1
      BY DEF NoInventory
    <3> HIDE DEF taken, fresh
    <3>4. inventory'[q] = fresh
      BY <1>14, <3>2
    <3> QED BY <2>1, <2>2, <2>5, <3>1, <3>3, <3>4 DEF Linked
  <2> QED BY <2>4, <2>5
<1>15. ASSUME NEW m \in Calls, ExpireLicense(m) PROVE Linked(l)'
  <2>1. UNCHANGED attempt
    BY <1>15 DEF ExpireLicense
  <2>2. CASE l # m
    BY <1>5, <1>15, <2>1, <2>2, Expired
  <2>3. CASE l = m
    <3>1. r = None /\ license[l].status = "active" /\ license'[l].status = "expired"
          /\ license'[l].replacedIn = r /\ license'[l].replacedBy = n
      BY <1>0, <1>15, <2>3, Expired DEF Linked
    <3> QED BY <1>6, <3>1
  <2> QED BY <2>2, <2>3
<1>16. ASSUME NEW m \in Calls, LicenseStep(m) PROVE Linked(l)'
  BY <1>13, <1>14, <1>15, <1>16 DEF LicenseStep, Disable, Enable, Revoke
<1> QED BY <1>7, <1>8, <1>9, <1>10, <1>11, <1>12, <1>16 DEF Writes

LEMMA RecordedStep == Consistent /\ Recorded /\ [Next]_vars => Recorded'
<1>1. ASSUME Consistent, Recorded, Next PROVE Recorded'
  BY <1>1, StepWrites, StepHistory, StepLinked, StepIssued DEF Recorded
<1>2. ASSUME Recorded, UNCHANGED vars PROVE Recorded'
  BY <1>2 DEF vars, Recorded, Gapless, Linked, Issued, EventsOf, Bound
<1> QED BY <1>1, <1>2

LEMMA AlwaysRecorded == Spec => []Recorded
BY RecordedInit, RecordedStep, AlwaysConsistent, PTL DEF Spec

\* license_status_events holds one event per revision of every licence, from the
\* entitlement it was issued at to the current one, which carries the current status.
THEOREM HistoryAlwaysGapless == Spec => []HistoryIsGapless
<1>1. Recorded => HistoryIsGapless
  BY DEF Recorded, Gapless, HistoryIsGapless
<1> QED BY <1>1, AlwaysRecorded, PTL

\* A reissued licence points at the row that waits for its replacement or at the licence
\* that replaced it, never at both or neither, and the replacement's revision is not below it.
THEOREM ReissueAlwaysLinked == Spec => []ReissueLinked
<1>1. Recorded => ReissueLinked
  BY DEF Recorded, Linked, ReissueLinked
<1> QED BY <1>1, AlwaysRecorded, PTL

-----------------------------------------------------------------------------
(* The tables implement ActivationService: a write moves the bond of one   *)
(* code, or none.                                                          *)

Bond == [i \in Codes |-> BondOf(i)]

LEMMA InitIsFree == Init => Service!Init
BY DEF Init, Service!Init, Service!Free, BondOf, NoBinding

\* The bond of a bound code, and of a free one, when no attempt is inserted.
LEMMA BondIs ==
  ASSUME Consistent, NEW i \in Codes, binding[i].device # None
  PROVE  LET a == binding[i].device IN
         /\ a \in Calls /\ Bound(a) /\ attempt[a].code = i
         /\ BondOf(i) = [phase |-> PhaseOf(license[a].status), drive |-> device[a].drive,
                         key |-> attempt[a].key, commit |-> attempt[a].commit]
<1>1. BindingStory(i) /\ binding[i].device \in Calls
  BY DEF Consistent, StatusesAgree, Typed, TypeOK, Bindings
<1> QED BY <1>1 DEF BindingStory, BondOf

LEMMA BondsAfter ==
  ASSUME Consistent, Consistent', UNCHANGED rows \/ Writes,
         \A b \in Calls : attempt'[b].stage # "none" => Bound(b),
         NEW i \in Codes
  PROVE  IF binding[i].device = None THEN BondOf(i)' = BondOf(i)
         ELSE LET a == binding[i].device IN
              BondOf(i)' = [phase |-> PhaseOf(license'[a].status), drive |-> device[a].drive,
                           key |-> attempt[a].key, commit |-> attempt'[a].commit]
<1>1. CASE binding[i].device = None
  <2>1. binding'[i].device = None
    <3> SUFFICES ASSUME NEW a \in Calls, binding'[i].device = a PROVE FALSE
      BY DEF Consistent, Typed, TypeOK, Bindings
    <3>1. BindingStory(i)' /\ a # None
      BY ServerAssumption DEF Consistent, StatusesAgree
    <3>2. attempt'[a].stage # "none" /\ attempt'[a].code = i
      BY <3>1 DEF BindingStory, Bound
    <3>3. Bound(a)
      BY <3>2
    <3>4. attempt[a].code = i /\ binding[attempt[a].code].device = a
      BY <3>2, <3>3, Story, StepKeeps DEF Keeps, Consistent
    <3> QED BY <1>1, <3>1, <3>4
  <2> QED BY <1>1, <2>1 DEF BondOf
<1>2. CASE binding[i].device # None
  <2>0. PICK a \in Calls : a = binding[i].device
    BY <1>2, BondIs
  <2>1. /\ Bound(a) /\ attempt[a].code = i /\ a # None
        /\ BondOf(i) = [phase |-> PhaseOf(license[a].status), drive |-> device[a].drive,
                        key |-> attempt[a].key, commit |-> attempt[a].commit]
    BY <1>2, <2>0, BondIs, ServerAssumption
  <2>2. /\ attempt'[a].stage # "none" /\ attempt'[a].code = i
        /\ attempt'[a].key = attempt[a].key /\ device'[a].drive = device[a].drive
    BY <2>1, StepKeeps DEF Keeps, Bound
  <2>3. binding'[i].device = a
    BY <2>2 DEF Consistent, StatusesAgree, RowsOwned, Bound
  <2>4. BondOf(i)' = [phase |-> PhaseOf(license'[a].status), drive |-> device[a].drive,
                      key |-> attempt[a].key, commit |-> attempt'[a].commit]
    BY <2>1, <2>2, <2>3 DEF BondOf, PhaseOf
  <2> QED BY <1>2, <2>0, <2>4
<1> QED BY <1>1, <1>2

\* A write that changes the phase or the commit key of one attempt changes one bond.
LEMMA BondMoves ==
  ASSUME Consistent, Consistent', UNCHANGED rows \/ Writes,
         \A b \in Calls : attempt'[b].stage # "none" => Bound(b),
         NEW l \in Calls, Bound(l),
         \A b \in Calls : b # l => /\ license'[b].status = license[b].status
                                  /\ attempt'[b].commit = attempt[b].commit
  PROVE  /\ attempt[l].code \in Codes
         /\ Bond[attempt[l].code] =
              [phase |-> PhaseOf(license[l].status), drive |-> device[l].drive,
               key |-> attempt[l].key, commit |-> attempt[l].commit]
         /\ Bond' = [Bond EXCEPT ![attempt[l].code] =
                       [phase |-> PhaseOf(license'[l].status), drive |-> device[l].drive,
                        key |-> attempt[l].key, commit |-> attempt'[l].commit]]
<1>0. PICK i \in Codes : i = attempt[l].code
  BY Story DEF Consistent
<1>1. i = attempt[l].code /\ binding[i].device = l /\ l # None
  BY <1>0, Story, ServerAssumption DEF Consistent
<1>2. BondOf(i)' = [phase |-> PhaseOf(license'[l].status), drive |-> device[l].drive,
                   key |-> attempt[l].key, commit |-> attempt'[l].commit]
  BY <1>1, BondsAfter
<1>3. ASSUME NEW j \in Codes, j # i PROVE BondOf(j)' = BondOf(j)
  <2>1. CASE binding[j].device = None
    BY <2>1, BondsAfter
  <2>2. CASE binding[j].device # None
    <3>0. PICK a \in Calls : a = binding[j].device
      BY <2>2, BondIs
    <3>1. /\ attempt[a].code = j /\ a # l
          /\ BondOf(j) = [phase |-> PhaseOf(license[a].status), drive |-> device[a].drive,
                          key |-> attempt[a].key, commit |-> attempt[a].commit]
      BY <1>1, <1>3, <2>2, <3>0, BondIs
    <3>2. BondOf(j)' = [phase |-> PhaseOf(license'[a].status), drive |-> device[a].drive,
                       key |-> attempt[a].key, commit |-> attempt'[a].commit]
      BY <2>2, <3>0, BondsAfter
    <3> QED BY <3>1, <3>2
  <2> QED BY <2>1, <2>2
<1>4. Bond' = [Bond EXCEPT ![i] =
        [phase |-> PhaseOf(license'[l].status), drive |-> device[l].drive,
         key |-> attempt[l].key, commit |-> attempt'[l].commit]]
  BY <1>2, <1>3 DEF Bond
<1>5. BondOf(i) = [phase |-> PhaseOf(license[l].status), drive |-> device[l].drive,
                   key |-> attempt[l].key, commit |-> attempt[l].commit]
  BY <1>1, BondIs
<1>6. Bond[i] = BondOf(i)
  BY DEF Bond
<1> QED BY <1>0, <1>4, <1>5, <1>6

LEMMA BondStands ==
  ASSUME Consistent, Consistent', UNCHANGED rows \/ Writes,
         \A b \in Calls : attempt'[b].stage # "none" => Bound(b),
         \A b \in Calls : /\ license'[b].status = license[b].status
                         /\ attempt'[b].commit = attempt[b].commit
  PROVE  Bond' = Bond
<1>1. ASSUME NEW j \in Codes PROVE BondOf(j)' = BondOf(j)
  <2>1. CASE binding[j].device = None
    BY <2>1, BondsAfter
  <2>2. CASE binding[j].device # None
    <3>0. PICK a \in Calls : a = binding[j].device
      BY <2>2, BondIs
    <3>1. BondOf(j) = [phase |-> PhaseOf(license[a].status), drive |-> device[a].drive,
                       key |-> attempt[a].key, commit |-> attempt[a].commit]
      BY <2>2, <3>0, BondIs
    <3>2. BondOf(j)' = [phase |-> PhaseOf(license'[a].status), drive |-> device[a].drive,
                       key |-> attempt[a].key, commit |-> attempt'[a].commit]
      BY <2>2, <3>0, BondsAfter
    <3> QED BY <3>1, <3>2
  <2> QED BY <2>1, <2>2
<1> QED BY <1>1 DEF Bond

LEMMA MoveServes ==
  ASSUME Consistent, Consistent', UNCHANGED rows \/ Writes,
         \A b \in Calls : attempt'[b].stage # "none" => Bound(b),
         NEW l \in Calls, Bound(l), NEW from, NEW to,
         \A b \in Calls : b # l => license'[b].status = license[b].status,
         \A b \in Calls : attempt'[b].commit = attempt[b].commit,
         PhaseOf(license[l].status) \in from, PhaseOf(license'[l].status) = to
  PROVE  attempt[l].code \in Codes /\ Service!Move(attempt[l].code, from, to)
<1>0. PICK i \in Codes : i = attempt[l].code
  BY Story DEF Consistent
<1> DEFINE old == [phase |-> PhaseOf(license[l].status), drive |-> device[l].drive,
                   key |-> attempt[l].key, commit |-> attempt[l].commit]
<1>1. Bond[i] = old /\ Bond' = [Bond EXCEPT ![i] = [old EXCEPT !.phase = to]]
  BY <1>0, BondMoves
<1>2. Bond[i].phase \in from
  BY <1>1
<1> HIDE DEF old
<1>3. Bond' = [Bond EXCEPT ![i].phase = to]
  BY <1>1 DEF Bond
<1> QED BY <1>0, <1>2, <1>3 DEF Service!Move, Bond

LEMMA InsertServes ==
  ASSUME Consistent, Consistent', NEW c \in Calls, Inserts(c)
  PROVE  \E i \in Codes, d \in Drives, k \in Keys : Service!Bind(i, d, k)
<1> DEFINE i == call[c].code
           d == call[c].drive
           k == call[c].key
<1>0. /\ i \in Codes /\ d \in Drives /\ k \in Keys /\ c # None
      /\ None \notin Drives /\ None \notin Keys
  BY Remembered, ServerAssumption DEF Inserts, Remembers
<1>1. /\ \A b \in Calls : device[b].drive # d
      /\ \A b \in Calls : Bound(b) => attempt[b].key # k
      /\ inventory[i].status = "prepared" /\ InsertBinding(c) /\ ~Bound(c)
  BY DEF Inserts, WithKey
<1>2. binding[i].device = None
  BY <1>0, <1>1, InStock DEF Consistent
<1>3. BondOf(i) = Service!Free
  BY <1>2 DEF BondOf, Service!Free
<1>4. ASSUME NEW j \in Codes PROVE BondOf(j).drive # d /\ BondOf(j).key # k
  <2>1. CASE binding[j].device = None
    BY <1>0, <2>1 DEF BondOf
  <2>2. CASE binding[j].device # None
    <3>0. PICK a \in Calls : a = binding[j].device
      BY <2>2, BondIs
    <3>1. Bound(a) /\ BondOf(j).drive = device[a].drive /\ BondOf(j).key = attempt[a].key
      BY <2>2, <3>0, BondIs
    <3> QED BY <1>1, <3>1
  <2> QED BY <2>1, <2>2
<1>5. /\ binding' = [binding EXCEPT ![i].device = c]
      /\ binding \in [Codes -> Bindings] /\ license \in [Calls -> Licenses]
      /\ attempt \in [Calls -> Attempts] /\ device \in [Calls -> Devices]
  BY <1>1 DEF InsertBinding, Consistent, Typed, TypeOK
<1>6. /\ license'[c].status = "prepared" /\ device'[c].drive = d
      /\ attempt'[c].key = k /\ attempt'[c].commit = None
      /\ \A b \in Calls : b # c => /\ license'[b] = license[b] /\ attempt'[b] = attempt[b]
                                   /\ device'[b] = device[b]
  BY <1>1, <1>5 DEF InsertBinding, NoLicense, NoAttempt
<1> HIDE DEF i, d, k
<1>7. binding'[i].device = c /\ \A j \in Codes : j # i => binding'[j] = binding[j]
  BY <1>0, <1>5 DEF Bindings
<1>8. \E q \in Codes : q = i
  BY <1>0
<1>9. PICK q \in Codes : q = i
  BY <1>8
<1>10. BondOf(q)' = [phase |-> "pending", drive |-> d, key |-> k, commit |-> None]
  BY <1>0, <1>6, <1>7, <1>9 DEF BondOf, PhaseOf
<1>11. ASSUME NEW j \in Codes, j # q PROVE BondOf(j)' = BondOf(j)
  <2>1. binding'[j] = binding[j]
    BY <1>7, <1>9, <1>11
  <2>2. CASE binding[j].device = None
    BY <2>1, <2>2 DEF BondOf
  <2>3. CASE binding[j].device # None
    <3>0. PICK a \in Calls : a = binding[j].device
      BY <2>3, BondIs
    <3>1. Bound(a) /\ a # c
      BY <1>1, <2>3, <3>0, BondIs
    <3>2. license'[a] = license[a] /\ attempt'[a] = attempt[a] /\ device'[a] = device[a]
      BY <1>6, <3>1
    <3> QED BY <2>1, <3>0, <3>2 DEF BondOf
  <2> QED BY <2>2, <2>3
<1>12. Bond' = [Bond EXCEPT ![q] = [phase |-> "pending", drive |-> d, key |-> k, commit |-> None]]
  BY <1>10, <1>11 DEF Bond
<1>13. /\ Bond[q].phase = "free"
       /\ \A j \in Codes : Bond[j].drive # d /\ Bond[j].key # k
  BY <1>3, <1>4, <1>9 DEF Bond, Service!Free
<1>14. Service!Bind(q, d, k)
  BY <1>12, <1>13 DEF Service!Bind, Bond
<1> QED BY <1>0, <1>14

\* Every step of the server is a move of the service, or none.
LEMMA StepServes ==
  ASSUME Consistent, Recorded, Consistent', Next
  PROVE  Service!Next \/ UNCHANGED Bond
<1> DEFINE Serves == Service!Next \/ UNCHANGED Bond
<1>0. Typed /\ (UNCHANGED rows \/ Writes)
  BY StepWrites DEF Consistent
<1>1. ASSUME UNCHANGED <<license, attempt>> PROVE Serves
  BY <1>0, <1>1, BondStands DEF Bound
<1>2. CASE UNCHANGED rows
  BY <1>1, <1>2 DEF rows
<1>3. ASSUME NEW c \in Calls, Takes(c) PROVE Serves
  BY <1>1, <1>3 DEF Takes, TakeOverLease
<1>4. ASSUME NEW c \in Calls, Inserts(c) PROVE Serves
  BY <1>4, InsertServes DEF Service!Next
<1>5. ASSUME NEW c \in Calls, Stores(c) PROVE Serves
  <2> DEFINE a == call[c].attempt
  <2>1. a \in Calls /\ Bound(a) /\ HoldsLease(c, a) /\ StoreArtifact(c, a)
    BY <1>5 DEF Stores
  <2>2. license[a].status = "prepared"
    BY <2>1, StoryOfInventory DEF HoldsLease, Consistent
  <2>3. \A b \in Calls : license'[b].status = IF b = a THEN "active" ELSE license[b].status
    BY <1>0, <2>1, StoredLicenses
  <2>4. \A b \in Calls : /\ attempt'[b].commit = attempt[b].commit
                         /\ attempt'[b].stage # "none" => Bound(b)
    BY <1>0, <2>1 DEF StoreArtifact, Typed, TypeOK, Attempts, Bound
  <2> HIDE DEF a
  <2>5. PhaseOf(license[a].status) \in {"pending"} /\ PhaseOf(license'[a].status) = "active"
    BY <2>1, <2>2, <2>3 DEF PhaseOf
  <2>6. \A b \in Calls : b # a => license'[b].status = license[b].status
    BY <2>3
  <2>7. attempt[a].code \in Codes /\ Service!Move(attempt[a].code, {"pending"}, "active")
    BY <1>0, <2>1, <2>4, <2>5, <2>6, MoveServes
  <2> QED BY <2>7 DEF Service!Next, Service!Activate
<1>6. ASSUME NEW a \in Calls, NEW k \in Keys, CommitActivation(a, k) PROVE Serves
  <2>1. /\ UNCHANGED <<license, device>>
        /\ attempt[a].stage \in {"server_bound", "committed"}
        /\ attempt[a].stage = "committed" => attempt[a].commit = k
        /\ attempt'[a].commit = k
        /\ \A b \in Calls : b # a => attempt'[b] = attempt[b]
    BY <1>0, <1>6 DEF CommitActivation, CommitResult, Typed, TypeOK, Attempts
  <2>2. Bound(a) /\ \A b \in Calls : attempt'[b].stage # "none" => Bound(b)
    BY <2>1 DEF Bound
  <2>3. attempt[a].commit \in {None, k}
    BY <2>1, <2>2 DEF Recorded, Issued
  <2>4. license[a].status # "prepared"
    BY <2>1, <2>2, StoryOfInventory DEF Consistent
  <2>6. PhaseOf(license[a].status) \in {"active", "suspended", "ended"}
    BY <2>4 DEF PhaseOf
  <2>7. PICK i \in Codes : i = attempt[a].code
    BY <2>2, Story DEF Consistent
  <2> DEFINE old == [phase |-> PhaseOf(license[a].status), drive |-> device[a].drive,
                     key |-> attempt[a].key, commit |-> attempt[a].commit]
  <2>8. Bond[i] = old /\ Bond' = [Bond EXCEPT ![i] = [old EXCEPT !.commit = k]]
    BY <1>0, <2>1, <2>2, <2>7, BondMoves
  <2>9. Bond[i].phase \in {"active", "suspended", "ended"} /\ Bond[i].commit \in {None, k}
    BY <2>3, <2>6, <2>8
  <2> HIDE DEF old
  <2>10. Bond' = [Bond EXCEPT ![i].commit = k]
    BY <2>8 DEF Bond
  <2>11. Service!Commit(i, k)
    BY <2>9, <2>10 DEF Service!Commit, Bond
  <2> QED BY <2>11 DEF Service!Next
<1>7. ASSUME NEW i \in Codes, InventoryStep(i) PROVE Serves
  BY <1>1, <1>7 DEF InventoryStep, CreateInventory, MarkConfigured, SetMapping, LeaseExpires
<1>8. ASSUME NEW l \in Calls, NEW from, NEW to, UNCHANGED attempt, Bound(l),
             \A b \in Calls : b # l => license'[b] = license[b],
             PhaseOf(license[l].status) \in from, PhaseOf(license'[l].status) = to
      PROVE  attempt[l].code \in Codes /\ Service!Move(attempt[l].code, from, to)
  <2>1. \A b \in Calls : /\ attempt'[b].commit = attempt[b].commit
                         /\ attempt'[b].stage # "none" => Bound(b)
    BY <1>8 DEF Bound
  <2> QED BY <1>0, <1>8, <2>1, MoveServes
<1>9. ASSUME NEW l \in Calls, NEW to, NEW bs, NEW r, MutateLicense(l, to, bs, r) PROVE Serves
  <2>1. /\ Bound(l) /\ UNCHANGED attempt /\ license'[l].status = to
        /\ \A b \in Calls : b # l => license'[b] = license[b]
        /\ \/ to = "disabled" /\ license[l].status = "active"
           \/ to = "active" /\ license[l].status = "disabled"
           \/ to \in {"revoked", "reissued"} /\ license[l].status \in {"active", "disabled"}
    BY <1>9, Mutated DEF MutateLicense, ValidAdminTransition
  <2>2. CASE to = "disabled" /\ license[l].status = "active"
    <3>1. PhaseOf(license[l].status) \in {"active"} /\ PhaseOf(license'[l].status) = "suspended"
      BY <2>1, <2>2 DEF PhaseOf
    <3>2. attempt[l].code \in Codes /\ Service!Move(attempt[l].code, {"active"}, "suspended")
      BY <1>8, <2>1, <3>1
    <3> QED BY <3>2 DEF Service!Next, Service!Suspend
  <2>3. CASE to = "active" /\ license[l].status = "disabled"
    <3>1. PhaseOf(license[l].status) \in {"suspended"} /\ PhaseOf(license'[l].status) = "active"
      BY <2>1, <2>3 DEF PhaseOf
    <3>2. attempt[l].code \in Codes /\ Service!Move(attempt[l].code, {"suspended"}, "active")
      BY <1>8, <2>1, <3>1
    <3> QED BY <3>2 DEF Service!Next, Service!Resume
  <2>4. CASE to \in {"revoked", "reissued"} /\ license[l].status \in {"active", "disabled"}
    <3>1. PhaseOf(license[l].status) \in {"active", "suspended"} /\ PhaseOf(license'[l].status) = "ended"
      BY <2>1, <2>4 DEF PhaseOf
    <3>2. attempt[l].code \in Codes /\ Service!Move(attempt[l].code, {"active", "suspended"}, "ended")
      BY <1>8, <2>1, <3>1
    <3> QED BY <3>2 DEF Service!Next, Service!End
  <2> QED BY <2>1, <2>2, <2>3, <2>4
<1>10. ASSUME NEW l \in Calls, ExpireLicense(l) PROVE Serves
  <2>1. PhaseOf(license[l].status) \in {"active", "suspended"} /\ PhaseOf(license'[l].status) = "ended"
    BY <1>10, Expired DEF PhaseOf
  <2>2. UNCHANGED attempt
    BY <1>10 DEF ExpireLicense
  <2>3. attempt[l].code \in Codes /\ Service!Move(attempt[l].code, {"active", "suspended"}, "ended")
    BY <1>8, <1>10, <2>1, <2>2, Expired
  <2> QED BY <2>3 DEF Service!Next, Service!End
<1>11. ASSUME NEW l \in Calls, LicenseStep(l) PROVE Serves
  BY <1>9, <1>10, <1>11 DEF LicenseStep, Disable, Enable, Revoke, Reissue
<1> QED BY <1>0, <1>2, <1>3, <1>4, <1>5, <1>6, <1>7, <1>11 DEF Writes

\* The server's tables implement ActivationService: whatever requests, operators and
\* failures interleave, each code's bond is bound once, activated, committed, suspended,
\* resumed or ended as the service says, and in no other way.
THEOREM ServerImplementsService == Spec => ImplementsService
<1>1. Init => Service!Init
  BY InitIsFree
<1>2. Consistent /\ Recorded /\ Consistent' /\ [Next]_vars => [Service!Next]_Bond
  <2>1. UNCHANGED vars => UNCHANGED Bond
    BY DEF vars, Bond, BondOf, PhaseOf
  <2> QED BY <2>1, StepServes
<1>3. Consistent /\ Recorded /\ Consistent' /\ [Next]_vars => [Service!Next]_[i \in Codes |-> BondOf(i)]
  BY <1>2 DEF Bond
<1> QED BY <1>1, <1>3, AlwaysConsistent, AlwaysRecorded, PTL DEF Spec, ImplementsService, Service!Spec

=============================================================================
