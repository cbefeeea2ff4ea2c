------------------------------ MODULE DeviceAccess ------------------------------
(* The access tokens of one device and what is done with them: requests to the model proxy
   of the activation server, which authorises, admits, calls upstream and completes each of
   them (modelproxy/service.go, transport/model_proxy_http.go), and the operator's commands,
   of which "device-token reissue" writes the new secret to a file before its transaction
   commits (cmd/admin/main.go, admin_repository.go).  Time passes in steps; clocks of the
   server's instances and of its database agree.  A definition whose comment begins with
   "Mistake" is a wrong variant of the one after it; no action uses it. *)
EXTENDS Integers, FiniteSets

CONSTANTS
  Requests,    \* to the proxy
  Keys,        \* idempotency keys of reissues, each with an output file of its own
  Rpm,         \* requests per minute of the mapping
  Concurrent,  \* its concurrent requests
  Window,      \* the minute that requests are counted over
  Timeout,     \* of a request, MODEL_PROXY_TIMEOUT
  Lease,       \* of an admission, MODEL_PROXY_ADMISSION_LEASE
  ExpiresAt,   \* of the licence
  Troubles,    \* "late": a connection lost during a COMMIT that takes effect afterwards
  MaxTime,     \* bound: time
  MaxTokens,   \* bound: tokens drawn, the activation's included
  None

\* config.go refuses a lease that does not outlast the timeout, service.go one of more than
\* two minutes.
ASSUME AccessAssumption ==
  /\ IsFiniteSet(Requests)
  /\ Rpm \in Nat \ {0} /\ Concurrent \in Nat \ {0} /\ Window \in Nat \ {0}
  /\ Timeout \in Nat \ {0} /\ Lease \in Nat /\ Lease > Timeout /\ Lease <= 2 * Window
  /\ ExpiresAt \in Nat /\ MaxTime \in Nat /\ MaxTokens \in Nat \ {0}
  /\ Troubles \subseteq {"late"}
  /\ None \notin Keys /\ None \notin Nat

VARIABLES
  time,
  licence,   \* statuses of licence, device, mapping and inventory row, which change together
  token,     \* device_access_tokens
  newest,    \* the token issued last
  usable,    \* history: when each token was last usable
  request,   \* the requests in the server
  row,       \* model_proxy_admissions: the row of each request
  drawn,     \* token ids drawn so far
  op,        \* the command that runs for each key
  tx,        \* the reissue's transaction that is open
  done,      \* admin_operations: the token each key's operation completed with
  file,      \* the output file of each key
  delivered  \* tokens whose secret the operator has taken to the device

proxyVars == <<request, row>>
tokenVars == <<token, newest>>
commandVars == <<drawn, op, tx, done, file, delivered>>
worldVars == <<time, licence, usable>>
vars == <<worldVars, tokenVars, proxyVars, commandVars>>

Tokens == 1 .. MaxTokens
Running == {"arrived", "authorized", "admitted", "upstream"}

TypeOK ==
  /\ time \in Nat /\ licence \in {"active", "disabled", "ended"}
  /\ token \in [Tokens -> {"none", "active", "disabled", "revoked"}] /\ newest \in Tokens
  /\ usable \in [Tokens -> Int]
  /\ request \in [Requests -> [pc : Running \cup {"idle", "ended", "done"}, token : Tokens,
                               arrived : Int, admitted : Int]]
  /\ row \in [Requests -> {"none", "open", "completed"}]
  /\ drawn \in Tokens
  /\ op \in [Keys -> [pc : {"idle", "staged", "open", "committing", "unsure"}, token : Tokens]]
  /\ tx \in [key : Keys, token : Tokens, sent : BOOLEAN] \cup {None}
  /\ done \in [Keys -> Tokens \cup {None}] /\ file \in [Keys -> Tokens \cup {None}]
  /\ delivered \subseteq Tokens

NoCommand == [pc |-> "idle", token |-> 1]

\* A history that has not begun lies further back than any limit reaches.
Never == -(Timeout + Window)

Init ==
  /\ time = 0 /\ licence = "active"
  /\ token = [t \in Tokens |-> IF t = 1 THEN "active" ELSE "none"] /\ newest = 1
  /\ usable = [t \in Tokens |-> IF t = 1 THEN 0 ELSE Never]
  /\ request = [r \in Requests |-> [pc |-> "idle", token |-> 1, arrived |-> 0, admitted |-> Never]]
  /\ row = [r \in Requests |-> "none"]
  /\ drawn = 1 /\ op = [k \in Keys |-> NoCommand] /\ tx = None
  /\ done = [k \in Keys |-> None] /\ file = [k \in Keys |-> None] /\ delivered = {1}

\* What may be used now, in the world's terms; history remembers when that was so last.
InForce(t) == token[t] = "active" /\ licence = "active" /\ time < ExpiresAt
Remember == usable' = [t \in Tokens |-> IF InForce(t)' THEN time' ELSE usable[t]]

-----------------------------------------------------------------------------
(* The proxy. *)

\* Mistake: a licence that has ended is noticed only by its own checks.
Active_TokenOnly(t) == token[t] = "active"

\* active of service.go, over AuthorizeByDigest.
Active(t) == token[t] = "active" /\ licence = "active" /\ time < ExpiresAt

\* The deadline of the request's context is set when it arrives.
Arrive(r, t) ==
  /\ request[r].pc = "idle" /\ token[t] # "none"
  /\ request' = [request EXCEPT ![r] =
       [pc |-> "arrived", token |-> t, arrived |-> time, admitted |-> Never]]
  /\ UNCHANGED <<worldVars, tokenVars, row, commandVars>>

Moves(r, pc) == request' = [request EXCEPT ![r].pc = pc]

Authorize(r) ==
  /\ request[r].pc = "arrived"
  /\ IF Active(request[r].token) THEN Moves(r, "authorized") ELSE Moves(r, "done")
  /\ UNCHANGED <<worldVars, tokenVars, row, commandVars>>

Rows(t) == {q \in Requests : row[q] # "none" /\ request[q].token = t}
LeaseEnds(q) == request[q].admitted + Lease

\* What Admit deletes first; its ten minutes are ten windows.
Stale(t) ==
  {q \in Rows(t) : \/ row[q] = "open" /\ LeaseEnds(q) <= time
                   \/ request[q].admitted < time - 10 * Window}

\* Mistake: an admission counts until its request may have reached its timeout.
Holding_Timeout(t) ==
  {q \in Rows(t) \ Stale(t) : row[q] = "open" /\ request[q].admitted + Timeout > time}

Holding(t) == {q \in Rows(t) \ Stale(t) : row[q] = "open" /\ LeaseEnds(q) > time}
Recent(t) == {q \in Rows(t) \ Stale(t) : request[q].admitted > time - Window}

\* One transaction under the token's advisory lock; a refusal rolls the deletion back.
Admit(r) ==
  LET t == request[r].token IN
  /\ request[r].pc = "authorized"
  /\ IF Cardinality(Recent(t)) >= Rpm \/ Cardinality(Holding(t)) >= Concurrent
     THEN Moves(r, "done") /\ UNCHANGED row
     ELSE /\ \E pc \in {"admitted", "done"} :  \* done: the answer of the commit is lost
               request' = [request EXCEPT ![r].pc = pc, ![r].admitted = time]
          /\ row' = [q \in Requests |-> IF q = r THEN "open"
                                        ELSE IF q \in Stale(t) THEN "none" ELSE row[q]]
  /\ UNCHANGED <<worldVars, tokenVars, commandVars>>

\* The key is decrypted and the request sent on.
CallUpstream(r) ==
  /\ request[r].pc = "admitted" /\ Moves(r, "upstream")
  /\ UNCHANGED <<worldVars, tokenVars, row, commandVars>>

\* The key is unavailable; the call has its answer, or an error, or runs into the deadline.
Ends(r) ==
  /\ request[r].pc \in {"admitted", "upstream"} /\ Moves(r, "ended")
  /\ UNCHANGED <<worldVars, tokenVars, row, commandVars>>

\* finalize has a deadline of its own; Complete may fail, its error is only counted.
Finalize(r) ==
  /\ request[r].pc = "ended" /\ Moves(r, "done")
  /\ \/ row[r] = "open" /\ row' = [row EXCEPT ![r] = "completed"]
     \/ UNCHANGED row
  /\ UNCHANGED <<worldVars, tokenVars, commandVars>>

\* The instance is killed, or a step before the admission fails or runs into the deadline.
Killed(r) ==
  /\ request[r].pc \in Running \cup {"ended"} /\ Moves(r, "done")
  /\ UNCHANGED <<worldVars, tokenVars, row, commandVars>>

\* A running request does not outlast its deadline.
Tick ==
  /\ time < MaxTime
  /\ \A r \in Requests : request[r].pc \in Running => time < request[r].arrived + Timeout
  /\ time' = time + 1
  /\ UNCHANGED <<licence, tokenVars, proxyVars, commandVars>> /\ Remember

-----------------------------------------------------------------------------
(* Operators.  A reissue's transaction holds the rows' locks from its beginning to its end,
   so that every other command, and the expiry of the licence, waits for it. *)

Unlocked == tx = None

MutateLicence ==
  /\ Unlocked
  /\ \/ licence = "active" /\ licence' \in {"disabled", "ended"}
     \/ licence = "disabled" /\ licence' \in {"active", "ended"}
  /\ UNCHANGED <<time, tokenVars, proxyVars, commandVars>> /\ Remember

\* MutateDeviceToken takes the newest token of an active licence.
MutateDeviceToken ==
  /\ Unlocked /\ licence = "active"
  /\ \E to \in {"active", "disabled", "revoked"} :
       /\ to = "disabled" => token[newest] = "active"
       /\ to = "active" => token[newest] = "disabled"
       /\ to = "revoked" => token[newest] # "revoked"
       /\ token' = [token EXCEPT ![newest] = to]
  /\ UNCHANGED <<time, licence, newest, proxyVars, commandVars>> /\ Remember

Reissuable == licence = "active" /\ token[newest] = "active"

(* PrepareDeviceTokenReissue and stageDeviceToken, for a key that has no output file. *)
Prepare(k) ==
  /\ op[k].pc = "idle" /\ file[k] = None /\ Reissuable /\ drawn < MaxTokens
  /\ drawn' = drawn + 1
  /\ op' = [op EXCEPT ![k] = [pc |-> "staged", token |-> drawn + 1]]
  /\ UNCHANGED <<worldVars, tokenVars, proxyVars, tx, done, file, delivered>>

Returns(k) == op' = [op EXCEPT ![k] = NoCommand]

\* The operation is claimed, the rows are locked and checked, the secret is published.
Begin(k) ==
  /\ op[k].pc = "staged" /\ Unlocked
  /\ \/ /\ done[k] = None /\ Reissuable
        /\ op' = [op EXCEPT ![k].pc = "open"]
        /\ file' = [file EXCEPT ![k] = op[k].token]
        /\ tx' = [key |-> k, token |-> op[k].token, sent |-> FALSE]
     \* replayed, refused, or not published
     \/ Returns(k) /\ UNCHANGED <<file, tx>>
  /\ UNCHANGED <<worldVars, tokenVars, proxyVars, drawn, done, delivered>>

SendCommit(k) ==
  /\ op[k].pc = "open"
  /\ op' = [op EXCEPT ![k].pc = "committing"]
  /\ tx' = IF tx # None /\ tx.key = k THEN [tx EXCEPT !.sent = TRUE] ELSE tx
  /\ UNCHANGED <<worldVars, tokenVars, proxyVars, drawn, done, file, delivered>>

Commits ==
  /\ tx # None /\ tx.sent
  /\ token' = [token EXCEPT ![newest] = "revoked", ![tx.token] = "active"] /\ newest' = tx.token
  /\ done' = [done EXCEPT ![tx.key] = tx.token]
  /\ tx' = None
  /\ UNCHANGED <<time, licence, proxyVars, drawn, op, file, delivered>> /\ Remember

\* The connection is lost, or the commit fails.
RollsBack ==
  /\ tx # None /\ tx' = None
  /\ UNCHANGED <<worldVars, tokenVars, proxyVars, drawn, op, done, file, delivered>>

Succeeds(k) ==
  /\ op[k].pc = "committing" /\ done[k] = op[k].token /\ Returns(k)
  /\ UNCHANGED <<worldVars, tokenVars, proxyVars, drawn, tx, done, file, delivered>>

Over(k) == tx # None /\ tx.key = k => "late" \in Troubles

CommitFails(k) ==
  /\ op[k].pc = "committing" /\ Over(k)
  /\ op' = [op EXCEPT ![k].pc = "unsure"]
  /\ UNCHANGED <<worldVars, tokenVars, proxyVars, drawn, tx, done, file, delivered>>

\* Mistake: whatever ResolveDeviceTokenReissue answers or does not, the secret is withdrawn.
Resolve_Withdraws(k) ==
  /\ op[k].pc = "unsure" /\ Returns(k)
  /\ \/ done[k] = op[k].token /\ UNCHANGED file
     \/ file' = [file EXCEPT ![k] = None]
  /\ UNCHANGED <<worldVars, tokenVars, proxyVars, drawn, tx, done, delivered>>

\* ResolveDeviceTokenReissue and what the command does then: the secret stays when the
\* operation completed with it, or when that cannot be read.
Resolve(k) ==
  /\ op[k].pc = "unsure" /\ Returns(k)
  /\ \/ UNCHANGED file
     \/ done[k] # op[k].token /\ file' = [file EXCEPT ![k] = None]
  /\ UNCHANGED <<worldVars, tokenVars, proxyVars, drawn, tx, done, delivered>>

Dies(k) ==
  /\ op[k].pc # "idle" /\ Returns(k)
  /\ UNCHANGED <<worldVars, tokenVars, proxyVars, drawn, tx, done, file, delivered>>

\* Run again with the file there, the command compares it with the operation
\* (RecoverDeviceTokenReissue).  The operator delivers what is confirmed, and removes a
\* file whose operation has not completed.
Recover(k) ==
  /\ op[k].pc = "idle" /\ file[k] # None /\ Over(k)
  /\ done[k] \in {None, file[k]}
  /\ delivered' = IF done[k] = file[k] THEN delivered \cup {file[k]} ELSE delivered
  /\ file' = [file EXCEPT ![k] = None]
  /\ UNCHANGED <<worldVars, tokenVars, proxyVars, drawn, op, tx, done>>

-----------------------------------------------------------------------------
Next ==
  \/ Tick \/ MutateLicence \/ MutateDeviceToken \/ Commits \/ RollsBack
  \/ \E r \in Requests, t \in Tokens : Arrive(r, t)
  \/ \E r \in Requests : \/ Authorize(r) \/ Admit(r) \/ CallUpstream(r)
                         \/ Ends(r) \/ Finalize(r) \/ Killed(r)
  \/ \E k \in Keys : \/ Prepare(k) \/ Begin(k) \/ SendCommit(k) \/ Succeeds(k)
                     \/ CommitFails(k) \/ Resolve(k) \/ Dies(k) \/ Recover(k)

Spec == Init /\ [][Next]_vars

-----------------------------------------------------------------------------
(* Properties. *)

\* The limits of a mapping hold whatever instances are killed, completions fail, commits lose
\* their answers and admissions are deleted: no token has more calls at work than its
\* concurrent requests, nor more admissions within a minute than its rate.  (The rate is
\* only kept with a lease of a minute or more, since a deleted admission no longer counts.)
AtWork(t) == {r \in Requests : request[r].pc \in {"admitted", "upstream"} /\ request[r].token = t}
LastMinute(t) == {r \in Requests : request[r].admitted > time - Window /\ request[r].token = t}

LimitsHold ==
  \A t \in Tokens :
    /\ Cardinality(AtWork(t)) <= Concurrent
    /\ Lease >= Window => Cardinality(LastMinute(t)) <= Rpm

\* What is withdrawn (a token revoked, disabled or reissued, a licence disabled, revoked
\* or expired) stops working within the timeout of a request, although a request reads the
\* statuses once, before it waits for its admission, its key and its answer.
WithdrawalTakesHold ==
  \A r \in Requests : request[r].pc = "upstream" => time <= usable[request[r].token] + Timeout

\* No token comes into force whose secret nobody has: wherever the command, its connection or
\* the database stop, the output file still holds it, until it is delivered.
SecretIsKept ==
  \A t \in Tokens : token[t] # "none" => t \in delivered \/ \E k \in Keys : file[k] = t

=============================================================================
