---------------------------- MODULE ActivationClient ----------------------------
(***************************************************************************)
(* One drive being activated with one code: the desktop's activation        *)
(* coordinator and artifact writer, the launcher that decides at every      *)
(* start whether the activation window opens at all, and the server, which  *)
(* is ActivationService with the lease and the workers of a request added.  *)
(*                                                                         *)
(* preflight and submit are coroutines of one Electron process.  Each gets  *)
(* a slot of Runs; pc is the await it stands at, and what happens between    *)
(* two awaits is one step.  The process can be closed, killed or lose its   *)
(* drive at any await; the drive and the server keep what they have.        *)
(*                                                                         *)
(* A definition whose comment begins with "Mistake" is a wrong variant of   *)
(* the one after it; no action uses it.                                     *)
(***************************************************************************)
EXTENDS Naturals, FiniteSets

CONSTANTS
  Code, Drive,
  Keys,          \* idempotency keys
  Runs,          \* slots for the coroutines alive at once
  FileCount,     \* artifact files, the startup credential first, then the licence
  MaxRequests,   \* bound on the requests on their way to, or at, the server
  Callers,       \* who may drive the coordinator: the shipped "renderer", or "anyone" who calls
                 \* preflight, submit and cancel whenever the IPC accepts them
  None

ASSUME ClientAssumption ==
  /\ FileCount \in Nat /\ FileCount >= 3
  /\ MaxRequests \in Nat \ {0}
  /\ Callers \subseteq {"renderer", "anyone"}
  /\ None \notin Keys \cup Runs \cup {Code, Drive}

VARIABLES
  caller,     \* who drives the coordinator
  bond,       \* ActivationService: what the server holds for the code
  leaseLive,  \* whether the binding lease has not expired
  requests,   \* activation requests the server has not answered
  journal,    \* drive: .uclaw activation journal
  backup,     \* drive: the artifacts as they were before writeArtifacts
  files,      \* drive: the artifact files
  mode,       \* what the launcher started
  state,      \* coordinator: current.state, one "busy" for its five busy states
  pending,    \* coordinator: pendingJournal
  op,         \* coordinator: operation, the run that is current
  run         \* coordinator: the coroutines

server == <<bond, leaseLive>>
drive  == <<journal, backup, files>>
memory == <<mode, state, pending, op>>
vars   == <<caller, bond, leaseLive, requests, journal, backup, files, mode, state, pending, op, run>>

Server == INSTANCE ActivationService WITH Codes <- {Code}, Drives <- {Drive}

-----------------------------------------------------------------------------
Files      == 1 .. FileCount
Contents   == [Files -> {"old", "new"}]
Journals   == [stage : {"requested", "server_bound", "committed"}, key : Keys]
Requests   == [key : Keys, run : Runs \cup {None}, at : {"sent", "working"}]
Steps      == {"idle", "read_journal", "preflight", "write_request", "send", "waiting", "answered",
               "discard", "write_bound", "recover", "restore", "drop_backup", "clean_backup",
               "clean_journal", "snapshot", "write_backup", "write_file", "readback", "verify",
               "commit_remote", "commit_check", "commit_mark"}
RunStates  == [pc : Steps, key : Keys \cup {None}, from : {"none", "requested", "server_bound"},
               tries : 0 .. 2, answer : {"none", "ok", "refused", "unknown"},
               copy : Contents \cup {None}, todo : SUBSET Files,
               then : {"none", "write", "exit_preflight", "exit_submit", "exit_run"}]

IdleRun  == [pc |-> "idle", key |-> None, from |-> "none", tries |-> 0, answer |-> "none",
             copy |-> None, todo |-> {}, then |-> "none"]
NewFiles == [f \in Files |-> "new"]
OldFiles == [f \in Files |-> "old"]
Bond     == bond[Code]
StageOf(j) == IF j = None THEN "none" ELSE j.stage

ASSUME NoneIsNothing == None \notin Journals \cup Contents

TypeOK ==
  /\ caller \in Callers /\ bond \in [{Code} -> Server!Bonds] /\ leaseLive \in BOOLEAN
  /\ requests \subseteq Requests
  /\ journal \in Journals \cup {None} /\ backup \in Contents \cup {None} /\ files \in Contents
  /\ mode \in {"off", "activation", "normal", "refused"}
  /\ state \in {"checking", "input", "busy", "recovery", "error", "complete"}
  /\ pending \in Journals \cup {None} /\ op \in Runs \cup {None}
  /\ run \in [Runs -> RunStates]

Init ==
  /\ caller \in Callers /\ Server!Init /\ leaseLive = FALSE /\ requests = {}
  /\ journal = None /\ backup = None /\ files = OldFiles
  /\ mode = "off" /\ state = "checking" /\ pending = None /\ op = None
  /\ run = [r \in Runs |-> IdleRun]

-----------------------------------------------------------------------------
(* Coroutines. *)

Goto(r, pc) == run' = [run EXCEPT ![r].pc = pc]

Return(r) == run' = [run EXCEPT ![r] = IdleRun]

\* Mistake: no finally clause.
EndOperation_Forgotten(r) == op' = op

\* The finally clause of run(): only the current run gives the operation back.
EndOperation(r) == op' = IF op = r THEN None ELSE op

\* Orphaned requests go on at the server; nobody listens for their answers.
Orphan(lost) == {IF q.run \in lost THEN [q EXCEPT !.run = None] ELSE q : q \in requests}

\* `if (!isCurrent(token)) return current', after an await.
IfCurrent(r, pc) == IF op = r THEN Goto(r, pc) ELSE Return(r)

\* recovery(...): taken by every catch of run(), whether the run is current or not.
EnterRecovery(r) == state' = "recovery" /\ EndOperation(r) /\ Return(r) /\ UNCHANGED <<mode, pending>>

\* The activation process is gone, and its memory with it.
Die(last) ==
  /\ mode' = "off" /\ state' = last /\ pending' = None /\ op' = None
  /\ run' = [r \in Runs |-> IdleRun]
  /\ requests' = Orphan(Runs)

\* exit(20), after which the launcher starts over.
Exit == Die("complete")

Fresh(k) ==
  /\ k \notin {Bond.key, Bond.commit}
  /\ \A j \in {journal, pending} : j # None => j.key # k
  /\ \A r \in Runs : run[r].key # k
  /\ \A q \in requests : q.key # k

-----------------------------------------------------------------------------
(* The launcher: DetectActivationState looks at the startup credential and  *)
(* at the licence, and at nothing else.                                     *)

Boot ==
  /\ mode = "off"
  /\ mode' = (IF files[1] = "new" /\ files[2] = "new" THEN "normal"
              ELSE IF files[1] = "old" /\ files[2] = "old" THEN "activation"
              ELSE "refused")
  /\ state' = "checking"
  /\ UNCHANGED <<server, requests, drive, pending, op, run>>

\* The window is closed, the drive pulled out, the process killed.
Stop ==
  /\ mode = "activation"
  /\ Die("checking")
  /\ UNCHANGED <<server, drive>>

\* The application is closed, or the launcher has shown why it starts nothing.
Quit ==
  /\ mode \in {"normal", "refused"}
  /\ mode' = "off"
  /\ UNCHANGED <<server, requests, drive, state, pending, op, run>>

-----------------------------------------------------------------------------
(* preflight *)

Preflight(r) ==
  /\ mode = "activation" /\ op = None /\ run[r].pc = "idle"
  /\ caller = "anyone" \/ state \in {"checking", "error"}
  /\ state' = "checking"
  /\ Goto(r, "read_journal")
  /\ UNCHANGED <<server, requests, drive, mode, pending, op>>

ReadJournal(r) ==
  /\ run[r].pc = "read_journal"
  /\ pending' = journal
  /\ Goto(r, "preflight")
  /\ UNCHANGED <<server, requests, drive, mode, state, op>>

FinishPreflight(r) ==
  /\ run[r].pc = "preflight"
  /\ \/ /\ StageOf(pending) = "committed"
        /\ run' = [run EXCEPT ![r] = [@ EXCEPT !.pc = "recover", !.then = "exit_preflight"]]
        /\ UNCHANGED state
     \/ /\ StageOf(pending) \in {"requested", "server_bound"}
        /\ state' = "recovery" /\ Return(r)
     \/ pending = None /\ state' = "input" /\ Return(r)
  /\ UNCHANGED <<server, requests, drive, mode, pending, op>>

-----------------------------------------------------------------------------
(* submit, with the code the pending journal was written for. *)

SubmitFresh(r, k) ==
  /\ pending = None /\ Fresh(k)
  /\ op' = r /\ state' = "busy"
  /\ run' = [run EXCEPT ![r] = [IdleRun EXCEPT !.pc = "write_request", !.key = k, !.from = "requested"]]

\* Mistake: a resubmission is a new request.
SubmitAgain_NewKey(r) ==
  /\ StageOf(pending) \in {"requested", "server_bound"}
  /\ op' = r /\ state' = "busy"
  /\ \E k \in Keys :
       /\ Fresh(k)
       /\ run' = [run EXCEPT ![r] = [IdleRun EXCEPT !.pc = "send", !.key = k, !.from = pending.stage]]

SubmitAgain(r) ==
  /\ StageOf(pending) \in {"requested", "server_bound"}
  /\ op' = r /\ state' = "busy"
  /\ run' = [run EXCEPT ![r] = [IdleRun EXCEPT !.pc = "send", !.key = pending.key, !.from = pending.stage]]

SubmitCommitted(r) ==
  /\ StageOf(pending) = "committed"
  /\ run' = [run EXCEPT ![r] = [@ EXCEPT !.pc = "recover", !.then = "exit_submit"]]
  /\ UNCHANGED <<op, state>>

Submit(r) ==
  /\ mode = "activation" /\ op = None /\ run[r].pc = "idle"
  /\ caller = "anyone" \/ state \in {"input", "recovery"}
  /\ IF state \in {"input", "recovery"}
       THEN (\E k \in Keys : SubmitFresh(r, k)) \/ SubmitAgain(r) \/ SubmitCommitted(r)
       ELSE state' = "error" /\ UNCHANGED <<op, run>>
  /\ UNCHANGED <<server, requests, drive, mode, pending>>

WriteRequest(r) ==
  /\ run[r].pc = "write_request"
  /\ \/ /\ journal' = [stage |-> "requested", key |-> run[r].key]
        /\ pending' = IF op = r THEN journal' ELSE pending
        /\ IfCurrent(r, "send")
        /\ UNCHANGED <<state, op>>
     \/ /\ state' = "error" /\ EndOperation(r) /\ Return(r)
        /\ UNCHANGED <<journal, pending>>
  /\ UNCHANGED <<server, requests, backup, files, mode>>

\* cancel and close: a run the server has not answered yet is also aborted.
Cancel ==
  /\ caller = "anyone" /\ mode = "activation"
  /\ IF op = None
       THEN state' = (IF pending = None THEN "input" ELSE "recovery") /\ UNCHANGED <<op, run, requests>>
       ELSE /\ state' = "recovery" /\ op' = None
            /\ IF run[op].from = "requested" /\ run[op].pc \in {"send", "waiting"}
                 THEN /\ run' = [run EXCEPT ![op] = [@ EXCEPT !.pc = "answered", !.answer = "unknown"]]
                      /\ requests' = Orphan({op})
                 ELSE UNCHANGED <<run, requests>>
  /\ UNCHANGED <<server, drive, mode, pending>>

-----------------------------------------------------------------------------
(* client.activate: one retry of a retryable error, with the same key. *)

Send(r) ==
  /\ run[r].pc = "send" /\ Cardinality(requests) < MaxRequests
  /\ requests' = requests \cup {[key |-> run[r].key, run |-> r, at |-> "sent"]}
  /\ run' = [run EXCEPT ![r] = [@ EXCEPT !.pc = "waiting", !.tries = run[r].tries + 1]]
  /\ UNCHANGED <<server, drive, memory>>

\* The answer a of request q; `retryable' as the error table of the server says.
Answer(q, a, retryable) ==
  /\ requests' = requests \ {q}
  /\ IF q.run = None THEN UNCHANGED run
     ELSE IF retryable /\ run[q.run].tries < 2 THEN Goto(q.run, "send")
     ELSE run' = [run EXCEPT ![q.run] = [@ EXCEPT !.pc = "answered", !.answer = a]]

\* The deadline of the whole call: no second attempt.
GiveUp(r) ==
  /\ run[r].pc = "waiting"
  /\ requests' = Orphan({r})
  /\ run' = [run EXCEPT ![r] = [@ EXCEPT !.pc = "answered", !.answer = "unknown"]]
  /\ UNCHANGED <<server, drive, memory>>

-----------------------------------------------------------------------------
(* The server, see ActivationServer for its tables.  Only an error of the   *)
(* second phase is reported as server_bound; every other one is reported as *)
(* failed_before_bind.                                                      *)

Work(q) ==
  /\ requests' = (requests \ {q}) \cup {[q EXCEPT !.at = "working"]}
  /\ leaseLive' = TRUE
  /\ UNCHANGED run

BindCode(q)  == Server!Bind(Code, Drive, q.key) /\ Work(q)

TakeOver(q)  == Bond.phase = "pending" /\ Bond.key = q.key /\ ~leaseLive /\ Work(q) /\ UNCHANGED bond

\* Mistake: the request that finds a live lease is answered as if it held it.
InProgress_Ok(q) ==
  /\ Bond.phase = "pending" /\ Bond.key = q.key /\ leaseLive
  /\ Answer(q, "ok", FALSE) /\ UNCHANGED server

InProgress(q) ==
  /\ Bond.phase = "pending" /\ Bond.key = q.key /\ leaseLive
  /\ Answer(q, "refused", TRUE) /\ UNCHANGED server

Recovered(q) == Bond.phase = "active" /\ Answer(q, "ok", FALSE) /\ UNCHANGED server

AlreadyBound(q) ==
  /\ \/ Bond.phase = "pending" /\ Bond.key # q.key
     \/ Bond.phase \in {"suspended", "ended"}
  /\ Answer(q, "refused", FALSE) /\ UNCHANGED server

\* Validation or the KMS fails before BeginBinding.
Unavailable(q) == Answer(q, "refused", TRUE) /\ UNCHANGED server

Accept(q) ==
  /\ q.at = "sent"
  /\ BindCode(q) \/ TakeOver(q) \/ InProgress(q) \/ Recovered(q) \/ AlreadyBound(q) \/ Unavailable(q)
  /\ UNCHANGED <<drive, memory>>

Complete(q) ==
  /\ q.at = "working"
  /\ \/ Server!Activate(Code) /\ leaseLive' = FALSE
     \/ Bond.phase # "pending" /\ UNCHANGED server
  /\ Answer(q, "ok", FALSE)
  /\ UNCHANGED <<drive, memory>>

\* A deadline, a lost connection, a crash of the server: the request is dropped where it is.
Drop(q) ==
  /\ Answer(q, "unknown", TRUE) \/ Answer(q, "unknown", FALSE)
  /\ UNCHANGED <<server, drive, memory>>

LeaseExpires ==
  /\ leaseLive /\ leaseLive' = FALSE
  /\ UNCHANGED <<bond, requests, drive, memory, run>>

Operate ==
  /\ Server!Suspend(Code) \/ Server!Resume(Code) \/ Server!End(Code)
  /\ UNCHANGED <<leaseLive, requests, drive, memory, run>>

-----------------------------------------------------------------------------
(* run, after the answer. *)

\* Mistake: a bound journal is discarded as well.
Refused_AnyStage(r) ==
  /\ run[r].pc = "answered" /\ run[r].answer = "refused"
  /\ Goto(r, "discard") /\ UNCHANGED <<server, requests, drive, memory>>

Refused(r) ==
  /\ run[r].pc = "answered" /\ run[r].answer = "refused"
  /\ IF StageOf(journal) = "requested" /\ journal.key = run[r].key
       THEN Goto(r, "discard") /\ UNCHANGED memory
       ELSE EnterRecovery(r)
  /\ UNCHANGED <<server, requests, drive>>

DiscardJournal(r) ==
  /\ run[r].pc = "discard"
  /\ journal' = None /\ pending' = None /\ state' = "error" /\ EndOperation(r) /\ Return(r)
  /\ UNCHANGED <<server, requests, backup, files, mode>>

Unknown(r) ==
  /\ run[r].pc = "answered" /\ run[r].answer = "unknown"
  /\ EnterRecovery(r)
  /\ UNCHANGED <<server, requests, drive>>

Accepted(r) ==
  /\ run[r].pc = "answered" /\ run[r].answer = "ok"
  /\ IF op # r THEN Return(r) /\ UNCHANGED pending
     ELSE IF run[r].from = "requested" THEN Goto(r, "write_bound") /\ UNCHANGED pending
     ELSE /\ pending' = [stage |-> "server_bound", key |-> run[r].key]
          /\ run' = [run EXCEPT ![r] = [@ EXCEPT !.pc = "recover", !.then = "write"]]
  /\ UNCHANGED <<server, requests, drive, mode, state, op>>

WriteBound(r) ==
  /\ run[r].pc = "write_bound"
  /\ journal' = [stage |-> "server_bound", key |-> run[r].key]
  /\ IF op = r
       THEN /\ pending' = journal'
            /\ run' = [run EXCEPT ![r] = [@ EXCEPT !.pc = "recover", !.then = "write"]]
       ELSE Return(r) /\ UNCHANGED pending
  /\ UNCHANGED <<server, requests, backup, files, mode, state, op>>

-----------------------------------------------------------------------------
(* recoverPendingArtifacts, for finish, preflight and submit; the clean-up  *)
(* of a committed journal is also the end of commitArtifacts.               *)

Continue(r) ==
  CASE run[r].then = "write" ->
         /\ IF op = r THEN run' = [run EXCEPT ![r] = [@ EXCEPT !.pc = "snapshot", !.then = "none"]] ELSE Return(r)
         /\ UNCHANGED <<requests, memory>>
    [] run[r].then = "exit_run" /\ op # r -> Return(r) /\ UNCHANGED <<requests, memory>>
    [] OTHER -> Exit

\* Mistake: a committed journal is not told from a bound one.
Recover_IgnoresCommitted(r) ==
  /\ run[r].pc = "recover"
  /\ IF backup = None THEN Continue(r)
     ELSE /\ run' = [run EXCEPT ![r] = [@ EXCEPT !.pc = "restore", !.copy = backup, !.todo = Files]]
          /\ UNCHANGED <<requests, memory>>
  /\ UNCHANGED <<server, drive>>

Recover(r) ==
  /\ run[r].pc = "recover"
  /\ IF StageOf(journal) = "committed"
       THEN Goto(r, "clean_backup") /\ UNCHANGED <<requests, memory>>
     ELSE IF backup = None THEN Continue(r)
     ELSE /\ run' = [run EXCEPT ![r] = [@ EXCEPT !.pc = "restore", !.copy = backup, !.todo = Files]]
          /\ UNCHANGED <<requests, memory>>
  /\ UNCHANGED <<server, drive>>

\* Promise.all: the files are restored in any order.
RestoreFile(r) ==
  /\ run[r].pc = "restore"
  /\ \E f \in run[r].todo :
       /\ files' = [files EXCEPT ![f] = run[r].copy[f]]
       /\ run' = [run EXCEPT ![r] = [@ EXCEPT !.todo = run[r].todo \ {f},
                                            !.pc = IF run[r].todo = {f} THEN "drop_backup" ELSE "restore"]]
  /\ UNCHANGED <<server, requests, journal, backup, memory>>

DropBackup(r) ==
  /\ run[r].pc = "drop_backup"
  /\ backup' = None
  /\ Continue(r)
  /\ UNCHANGED <<server, journal, files>>

CleanBackup(r) ==
  /\ run[r].pc = "clean_backup"
  /\ backup' = None
  /\ Goto(r, "clean_journal")
  /\ UNCHANGED <<server, requests, journal, files, memory>>

CleanJournal(r) ==
  /\ run[r].pc = "clean_journal"
  /\ journal' = None
  /\ Continue(r)
  /\ UNCHANGED <<server, backup, files>>

-----------------------------------------------------------------------------
(* finish: writeArtifacts, verifyArtifacts, the remote commit and           *)
(* commitArtifacts.                                                         *)

Snapshot(r) ==
  /\ run[r].pc = "snapshot"
  /\ IF StageOf(journal) = "server_bound"
       THEN run' = [run EXCEPT ![r] = [@ EXCEPT !.pc = "write_backup", !.copy = files]] /\ UNCHANGED memory
       ELSE EnterRecovery(r)
  /\ UNCHANGED <<server, requests, drive>>

\* Mistake: the server is told before the files are written.
WriteBackup_CommitFirst(r) ==
  /\ run[r].pc = "write_backup"
  /\ backup' = run[r].copy
  /\ run' = [run EXCEPT ![r] = [@ EXCEPT !.pc = "commit_remote", !.copy = None]]
  /\ UNCHANGED <<server, requests, journal, files, memory>>

WriteBackup(r) ==
  /\ run[r].pc = "write_backup"
  /\ backup' = run[r].copy
  /\ run' = [run EXCEPT ![r] = [@ EXCEPT !.pc = "write_file", !.copy = None, !.todo = Files]]
  /\ UNCHANGED <<server, requests, journal, files, memory>>

WriteFile(r) ==
  /\ run[r].pc = "write_file"
  /\ LET f == FileCount + 1 - Cardinality(run[r].todo) IN
       /\ files' = [files EXCEPT ![f] = "new"]
       /\ run' = [run EXCEPT ![r] = [@ EXCEPT !.todo = run[r].todo \ {f},
                                            !.pc = IF f = FileCount THEN "readback" ELSE "write_file"]]
  /\ UNCHANGED <<server, requests, journal, backup, memory>>

Readback(r) ==
  /\ run[r].pc = "readback"
  /\ IF files = NewFiles THEN IfCurrent(r, "verify") /\ UNCHANGED memory ELSE EnterRecovery(r)
  /\ UNCHANGED <<server, requests, drive>>

\* verifyLicense, a function of the response and the clock, then verifyArtifacts.
Verify(r) ==
  /\ run[r].pc = "verify"
  /\ IF files = NewFiles THEN IfCurrent(r, "commit_remote") /\ UNCHANGED memory ELSE EnterRecovery(r)
  /\ UNCHANGED <<server, requests, drive>>

\* The commit is recorded and its answer arrives, or is lost, or it is refused.
CommitRemote(r) ==
  /\ run[r].pc = "commit_remote"
  /\ \/ Server!Commit(Code, run[r].key) /\ IfCurrent(r, "commit_check") /\ UNCHANGED memory
     \/ Server!Commit(Code, run[r].key) /\ EnterRecovery(r)
     \/ EnterRecovery(r) /\ UNCHANGED bond
  /\ UNCHANGED <<leaseLive, requests, drive>>

CheckCommit(r) ==
  /\ run[r].pc = "commit_check"
  /\ CASE StageOf(journal) = "committed" ->
            /\ run' = [run EXCEPT ![r] = [@ EXCEPT !.pc = "clean_backup", !.then = "exit_run"]]
            /\ UNCHANGED memory
       [] StageOf(journal) = "server_bound" /\ backup # None /\ files = NewFiles ->
            /\ run' = [run EXCEPT ![r] = [@ EXCEPT !.pc = "commit_mark", !.key = journal.key]]
            /\ UNCHANGED memory
       [] OTHER -> EnterRecovery(r)
  /\ UNCHANGED <<server, requests, drive>>

MarkCommitted(r) ==
  /\ run[r].pc = "commit_mark"
  /\ journal' = [stage |-> "committed", key |-> run[r].key]
  /\ run' = [run EXCEPT ![r] = [@ EXCEPT !.pc = "clean_backup", !.then = "exit_run"]]
  /\ UNCHANGED <<server, requests, backup, files, memory>>

\* A disk operation throws: preflight reports an error, run() asks for recovery.
Fail(r) ==
  /\ \/ /\ run[r].pc \in {"read_journal", "preflight"} \/ run[r].then = "exit_preflight"
        /\ state' = "error" /\ Return(r) /\ UNCHANGED <<mode, pending, op>>
     \/ /\ run[r].pc \in Steps \ {"idle", "read_journal", "preflight", "write_request", "send",
                                  "waiting", "answered"}
        /\ run[r].then # "exit_preflight"
        /\ EnterRecovery(r)
  /\ UNCHANGED <<server, requests, drive>>

-----------------------------------------------------------------------------
RunStep(r) ==
  \/ ReadJournal(r) \/ FinishPreflight(r)
  \/ WriteRequest(r) \/ Send(r) \/ GiveUp(r)
  \/ Refused(r) \/ DiscardJournal(r) \/ Unknown(r) \/ Accepted(r) \/ WriteBound(r)
  \/ Recover(r) \/ RestoreFile(r) \/ DropBackup(r) \/ CleanBackup(r) \/ CleanJournal(r)
  \/ Snapshot(r) \/ WriteBackup(r) \/ WriteFile(r) \/ Readback(r) \/ Verify(r)
  \/ CommitRemote(r) \/ CheckCommit(r) \/ MarkCommitted(r)

ServerStep(q) == Accept(q) \/ Complete(q) \/ Drop(q)

Step ==
  \/ Boot \/ Stop \/ Quit \/ Cancel
  \/ \E r \in Runs : Preflight(r) \/ Submit(r) \/ RunStep(r) \/ Fail(r)
  \/ \E q \in requests : ServerStep(q)
  \/ LeaseExpires \/ Operate

Next == Step /\ UNCHANGED caller

Spec == Init /\ [][Next]_vars

(***************************************************************************)
(* Every await ends: the awaits of a run are disk operations, calls with a  *)
(* deadline of their own, and continuations of the event loop; the server   *)
(* gives a request five seconds.  Nothing is assumed of the user, of the    *)
(* launcher, of operators or of failures.                                   *)
(***************************************************************************)
Fairness ==
  /\ \A r \in Runs : WF_vars(RunStep(r) /\ UNCHANGED caller)
  /\ WF_vars((\E q \in requests : ServerStep(q)) /\ UNCHANGED caller)

FairSpec == Spec /\ Fairness

-----------------------------------------------------------------------------
(* Properties that hold while one coroutine runs at a time. *)

\* Wherever writeArtifacts, the restore or the confirmation stopped, a drive with some of
\* the new artifacts still holds the backup that undoes them; and a journal is marked
\* committed only over all of them, none of which is taken back while the mark stands.
DriveIsRecoverable ==
  /\ files \notin {OldFiles, NewFiles} => backup # None
  /\ StageOf(journal) = "committed" => files = NewFiles

\* The drive never claims more than the server did: a bound journal was bound by an answer
\* of the second phase, a committed one by a recorded commit.  Driven by the shipped renderer,
\* a commit that was recorded though its answer was lost is repeated with the same key, so that
\* the server never refuses it as IDEMPOTENCY_CONFLICT.
JournalNeverAhead ==
  /\ StageOf(journal) \in {"server_bound", "committed"} => Bond.phase \notin {"free", "pending"}
  /\ StageOf(journal) = "committed" => Bond.commit # None
  /\ caller = "renderer" =>
       \A r \in Runs : run[r].pc = "commit_remote" => Bond.commit \in {None, run[r].key}

\* A bound journal is the only way back to the binding: until it is committed nothing
\* deletes it, replaces it or sets it back, neither a refusal nor a restart, as long as the
\* shipped renderer drives it.
BoundJournalIsKept ==
  [][caller = "renderer" /\ StageOf(journal) = "server_bound"
       => journal' = journal \/ StageOf(journal') = "committed"]_vars

\* The server is told of the commit only when all the new artifacts are on the drive.
CommitMeansComplete ==
  [][bond[Code].commit = None /\ bond'[Code].commit # None => files = NewFiles]_vars

\* A submit gives the operation back, however the server and the drive behave; while it
\* is held every other submit answers OPERATION_IN_PROGRESS.
SubmitEnds == \A r \in Runs : op = r ~> op # r

=============================================================================
