----------------------------- MODULE Maintenance -----------------------------
(* createMaintenanceService (desktop/src/data/maintenance-service.ts): backup with
   retention, restore with a rollback copy and a journal, cleanup through a quarantine,
   factory reset with a journal.  An operation is a task of several awaited file
   operations; any of them may throw, the process may stop between two of them.  A file's
   content and identity are one version number, 0 when it is absent; a collection is all
   of Files.  The consistency lease and the tracked write are taken in DesktopData. *)
EXTENDS Naturals, FiniteSets

CONSTANTS
  Files,         \* the files of the data root a backup covers
  Ops,           \* operations under way, one slot each
  MaxVersion,    \* bound: contents written to the data root
  MaxBackups,    \* bound: backups made
  RetainLatest,  \* the retention of an automatic backup
  Troubles,      \* what may go wrong: "io", "finish", "read", "early", ...
  None

Contents == [Files -> 0 .. MaxVersion]

ASSUME MaintenanceAssumption ==
  /\ MaxVersion \in Nat \ {0} /\ MaxBackups \in Nat \ {0} /\ RetainLatest \in Nat \ {0}
  /\ None \notin Files \cup Contents

VARIABLES
  live,          \* the data root: version of each file
  newest,        \* history: the content each file ought to have
  clock,         \* versions given out
  backups,       \* backups/backup-*: committed backups
  staging,       \* backups/.backup-*.staging exists
  rollback,      \* backups/.operation-*.rollback: the copies, or None
  journal,       \* backups/.operation-*.restore-journal.json exists
  quarantine,    \* a retention or cleanup quarantine exists
  resetJournal,  \* .maintenance/.factory-reset-journal.json exists
  op             \* the operations: record of the map and progress of the task

diskVars == <<backups, staging, rollback, journal, quarantine, resetJournal>>
maintenanceVars == <<live, newest, clock, diskVars, op>>

Kinds == {"backup", "restore", "reset", "cleanup"}
Absent == [f \in Files |-> 0]
Present(files) == {f \in Files : files[f] # 0}
Idle == [kind |-> "backup", state |-> "none", at |-> "idle",
         seen |-> Absent, copy |-> Absent, todo |-> {}, result |-> "none", partial |-> FALSE]

Results == {"none", "completed", "failed", "refused", "cancelled", "needs-recovery"}
Backup == [id : 1 .. MaxBackups, auto : BOOLEAN, copy : Contents]
Stages == {"idle", "precheck", "waiting", "begin", "copy", "unstage", "retain", "retire",
           "prepare", "write", "finish-journal", "finish-sync", "undo", "rewrite",
           "undo-journal", "undo-sync", "delete", "move", "remove", "done", "restart", "clear"}

MaintenanceTypeOK ==
  /\ live \in Contents /\ newest \in Contents /\ clock \in 0 .. MaxVersion
  /\ \A b \in backups : b \in Backup
  /\ staging \in BOOLEAN /\ journal \in BOOLEAN
  /\ quarantine \in BOOLEAN /\ resetJournal \in BOOLEAN
  /\ rollback \in Contents \cup {None}
  /\ \A o \in Ops :
       /\ op[o].kind \in Kinds /\ op[o].at \in Stages
       /\ op[o].state \in {"none", "queued", "running", "ended"} /\ op[o].result \in Results
       /\ op[o].todo \subseteq Files /\ op[o].seen \in Contents /\ op[o].copy \in Contents

MaintenanceInit ==
  /\ live = [f \in Files |-> 1] /\ newest = live /\ clock = 1
  /\ backups = {[id |-> 1, auto |-> TRUE, copy |-> live]}
  /\ staging = FALSE /\ rollback = None /\ journal = FALSE
  /\ quarantine = FALSE /\ resetJournal = FALSE
  /\ op = [o \in Ops |-> Idle]

-----------------------------------------------------------------------------
At(o, kind, stage) == op[o].kind = kind /\ op[o].at = stage
Becomes(o, record) == op' = [op EXCEPT ![o] = record]
Go(o, stage) == Becomes(o, [op[o] EXCEPT !.at = stage])
GoTodo(o, stage, todo) == Becomes(o, [op[o] EXCEPT !.at = stage, !.todo = todo])
(* The task leaves its try block; its finally follows.  Backup and restore have set the
   state of their result by then, unless they failed. *)
End(o, result) ==
  Becomes(o, [op[o] EXCEPT !.at = "done", !.result = result,
     !.state = IF result \in {"failed", "refused"} \/ op[o].kind = "reset" THEN @ ELSE "ended"])
(* The slot is free again. *)
Over(o) == Becomes(o, Idle)
OnlyOp == UNCHANGED <<live, newest, clock, diskVars>>
Trouble(t) == t \in Troubles

NextVersion == clock < MaxVersion /\ clock' = clock + 1

(* maintenanceRecoveryState and cacheRecoveryState, while no operation is at work. *)
Damaged == staging \/ rollback # None \/ journal \/ quarantine

(* The preview takes the fingerprint of what the operation will read or replace;
   requirePreview and startOperation take it back, when no operation is queued or running.
   The user who waits between the two sees what a queued operation sees that waits for
   its lease: one step. *)
StartOperation(o, kind, copy) ==
  /\ op[o].at = "idle"
  /\ \A p \in Ops : op[p].state \notin {"queued", "running"}
  /\ Becomes(o, [Idle EXCEPT !.kind = kind, !.state = "queued", !.at = "precheck",
                   !.seen = live, !.copy = copy])
  /\ OnlyOp

Starts(o) ==
  \/ /\ Trouble("backup") /\ \A b \in backups : b.id < MaxBackups
     /\ StartOperation(o, "backup", Absent)
  \/ \E b \in backups : Trouble("restore") /\ ~journal /\ StartOperation(o, "restore", b.copy)
  \/ Trouble("reset") /\ StartOperation(o, "reset", Absent)
  \/ Trouble("cleanup") /\ StartOperation(o, "cleanup", Absent)

(* cancelOperation aborts a signal.  It is modelled where the signal is read: there it may
   have been aborted. *)
Cancelled(o) == op[o].state \in {"queued", "running"}

(* assertNoRecoveryState refuses; otherwise the task goes on to its lease, "waiting" (a
   cleanup, which holds its tracked write already, goes on to its work). *)
Refused(kind) == Damaged \/ (resetJournal /\ kind # "reset")

-----------------------------------------------------------------------------
(* createBackup, under the lease: the staging directory, one copy after the other, the
   commit by a rename. *)
BackupBegins(o) ==
  /\ At(o, "backup", "begin")
  /\ staging' = TRUE
  /\ IF live = op[o].seen
     THEN Becomes(o, [op[o] EXCEPT !.at = "copy", !.todo = Present(live), !.seen = Absent])
     ELSE Becomes(o, [op[o] EXCEPT !.at = "unstage", !.result = "failed"])
  /\ UNCHANGED <<live, newest, clock, backups, rollback, journal, quarantine, resetJournal>>

BackupCopies(o, f) ==
  /\ At(o, "backup", "copy") /\ f \in op[o].todo
  /\ Becomes(o, [op[o] EXCEPT !.copy = [@ EXCEPT ![f] = live[f]], !.todo = @ \ {f}])
  /\ OnlyOp

BackupStops(o) ==
  /\ At(o, "backup", "copy")
  /\ \E result \in {"cancelled", "failed"} :
       /\ IF result = "cancelled" THEN Cancelled(o) /\ op[o].todo # {} ELSE Trouble("io")
       /\ Becomes(o, [op[o] EXCEPT !.at = "unstage", !.result = result])
  /\ OnlyOp

Unstage(o) ==
  /\ At(o, "backup", "unstage")
  /\ staging' \in (IF Trouble("io") THEN BOOLEAN ELSE {FALSE})
  /\ End(o, op[o].result)
  /\ UNCHANGED <<live, newest, clock, backups, rollback, journal, quarantine, resetJournal>>

BackupCommits(o) ==
  /\ At(o, "backup", "copy") /\ op[o].todo = {}
  /\ \E id \in 1 .. MaxBackups :
       /\ \A b \in backups : b.id < id
       /\ id = 1 \/ \E b \in backups : b.id = id - 1
       /\ \E auto \in BOOLEAN :
            /\ backups' = backups \cup {[id |-> id, auto |-> auto, copy |-> op[o].copy]}
            /\ Becomes(o, [op[o] EXCEPT !.at = IF auto THEN "retain" ELSE "done", !.copy = Absent,
                              !.state = IF auto THEN @ ELSE "ended", !.result = "completed"])
  /\ staging' = FALSE
  /\ UNCHANGED <<live, newest, clock, rollback, journal, quarantine, resetJournal>>

(* The retention: automatic backups beyond the newest RetainLatest, through a quarantine. *)
Expired ==
  {b \in backups : b.auto /\ Cardinality({c \in backups : c.auto /\ c.id > b.id}) >= RetainLatest}

RetireMoves(o, b) ==
  /\ At(o, "backup", "retain") /\ b \in Expired
  /\ backups' = backups \ {b}
  /\ quarantine' = TRUE
  /\ Go(o, "retire")
  /\ UNCHANGED <<live, newest, clock, staging, rollback, journal, resetJournal>>

(* The tree is removed; or the removal stops half way and is left to the user. *)
RetireRemoves(o) ==
  /\ At(o, "backup", "retire")
  /\ \/ quarantine' = FALSE /\ Go(o, "retain")
     \/ Trouble("io") /\ quarantine' = TRUE /\ End(o, "needs-recovery")
  /\ UNCHANGED <<live, newest, clock, backups, staging, rollback, journal, resetJournal>>

RetentionEnds(o) ==
  /\ At(o, "backup", "retain")
  /\ Expired = {} \/ Trouble("io")
  /\ End(o, "completed")
  /\ OnlyOp

-----------------------------------------------------------------------------
(* restoreBackup, under the lease.  Failing before the journal is written leaves the
   rollback directory behind. *)
RestoreBegins(o) ==
  /\ At(o, "restore", "begin")
  /\ IF live = op[o].seen
     THEN rollback' = Absent /\ Go(o, "prepare")
     ELSE rollback' = rollback /\ End(o, "refused")
  /\ UNCHANGED <<live, newest, clock, backups, staging, journal, quarantine, resetJournal>>

(* The copies and the journal.  The version of a file that is not in its place but in a
   staging transaction is nothing the restore knows of, or keeps. *)
RestorePrepares(o) ==
  /\ At(o, "restore", "prepare")
  /\ \/ /\ rollback' = [f \in Files |-> IF op[o].copy[f] # 0 THEN live[f] ELSE 0]
        /\ journal' = TRUE
        /\ newest' = [f \in Files |-> IF op[o].copy[f] # 0 /\ live[f] = 0 THEN 0 ELSE newest[f]]
        /\ GoTodo(o, "write", Present(op[o].copy))
     \/ Trouble("io") /\ End(o, "failed") /\ UNCHANGED <<newest, rollback, journal>>
  /\ UNCHANGED <<live, clock, backups, staging, quarantine, resetJournal>>

RestoreWrites(o, f) ==
  /\ At(o, "restore", "write") /\ f \in op[o].todo
  /\ live' = [live EXCEPT ![f] = op[o].copy[f]]
  /\ Becomes(o, [op[o] EXCEPT !.todo = @ \ {f}])
  /\ UNCHANGED <<newest, clock, diskVars>>

\* Mistake: the rollback goes over the files that are still to be written.
Undo_Unwritten(o, result) ==
  Becomes(o, [op[o] EXCEPT !.at = "undo", !.result = result])

(* The catch after "prepared": cancelled, or a write that failed. *)
Undo(o, result) ==
  Becomes(o, [op[o] EXCEPT !.at = "undo", !.result = result, !.todo = Present(op[o].copy)])

RestoreStops(o) ==
  /\ At(o, "restore", "write")
  /\ \/ Cancelled(o) /\ op[o].todo # {} /\ Undo(o, "cancelled")
     \/ Trouble("io") /\ Undo(o, "failed")
  /\ OnlyOp

(* All written: the rollback copies go, then the journal, then the directory is synced. *)
RestoreWritten(o) ==
  /\ At(o, "restore", "write") /\ op[o].todo = {}
  /\ newest' = [f \in Files |-> IF op[o].copy[f] # 0 THEN op[o].copy[f] ELSE newest[f]]
  /\ rollback' = None
  /\ Go(o, "finish-journal")
  /\ UNCHANGED <<live, clock, backups, staging, journal, quarantine, resetJournal>>

RestoreUnjournals(o) ==
  /\ At(o, "restore", "finish-journal")
  /\ journal' = FALSE
  /\ Go(o, "finish-sync")
  /\ UNCHANGED <<live, newest, clock, backups, staging, rollback, quarantine, resetJournal>>

RestoreSyncs(o) ==
  /\ At(o, "restore", "finish-sync")
  /\ End(o, "completed")
  /\ OnlyOp

(* What is left of the rollback copies when their removal stops half way. *)
Remains ==
  IF rollback = None THEN {None}
  ELSE {[f \in Files |-> IF f \in gone THEN 0 ELSE rollback[f]] : gone \in SUBSET Files}

RestoreFinishFails(o) ==
  /\ Trouble("finish")
  /\ \/ At(o, "restore", "write") /\ op[o].todo = {} /\ rollback' \in Remains
     \/ /\ At(o, "restore", "finish-journal") \/ At(o, "restore", "finish-sync")
        /\ UNCHANGED rollback
  /\ Undo(o, "failed")
  /\ UNCHANGED <<live, newest, clock, backups, staging, journal, quarantine, resetJournal>>

(* The rollback: every file the backup names is removed, then the copies come back. *)
UndoRemoves(o, f) ==
  /\ At(o, "restore", "undo") /\ f \in op[o].todo
  /\ live' = [live EXCEPT ![f] = 0]
  /\ Becomes(o, [op[o] EXCEPT !.todo = @ \ {f}])
  /\ UNCHANGED <<newest, clock, diskVars>>

Overwritten(o) == {f \in Files : op[o].copy[f] # 0 /\ op[o].seen[f] # 0}

UndoRemoved(o) ==
  /\ At(o, "restore", "undo") /\ op[o].todo = {}
  /\ GoTodo(o, "rewrite", Overwritten(o))
  /\ OnlyOp

HasCopy(f) == rollback # None /\ rollback[f] # 0

UndoRewrites(o, f) ==
  /\ At(o, "restore", "rewrite") /\ f \in op[o].todo /\ HasCopy(f)
  /\ live' = [live EXCEPT ![f] = rollback[f]]
  /\ Becomes(o, [op[o] EXCEPT !.todo = @ \ {f}])
  /\ UNCHANGED <<newest, clock, diskVars>>

(* The files are back: the copies go, then the journal, then the directory is synced. *)
UndoUncopies(o) ==
  /\ At(o, "restore", "rewrite") /\ op[o].todo = {}
  /\ rollback' = None
  /\ Go(o, "undo-journal")
  /\ UNCHANGED <<live, newest, clock, backups, staging, journal, quarantine, resetJournal>>

UndoUnjournals(o) ==
  /\ At(o, "restore", "undo-journal")
  /\ journal' = FALSE
  /\ Go(o, "undo-sync")
  /\ UNCHANGED <<live, newest, clock, backups, staging, rollback, quarantine, resetJournal>>

UndoEnds(o) ==
  /\ At(o, "restore", "undo-sync")
  /\ End(o, op[o].result)
  /\ OnlyOp

(* A rollback that fails, at any of its steps, is left to the user with whatever is still
   on the disk. *)
CopyMissing(o) == op[o].at = "rewrite" /\ ~ \A f \in op[o].todo : HasCopy(f)

UndoFails(o) ==
  /\ op[o].kind = "restore" /\ op[o].at \in {"undo", "rewrite", "undo-journal", "undo-sync"}
  /\ Trouble("undo") \/ CopyMissing(o)
  /\ IF op[o].at = "rewrite" /\ op[o].todo = {}
     THEN rollback' \in Remains ELSE UNCHANGED rollback
  /\ End(o, "needs-recovery")
  /\ UNCHANGED <<live, newest, clock, backups, staging, journal, quarantine, resetJournal>>

-----------------------------------------------------------------------------
(* executeFactoryReset, under the lease; the journal outlives everything but success. *)
ResetBegins(o) ==
  /\ At(o, "reset", "begin")
  /\ IF live = op[o].seen
     THEN resetJournal' = TRUE /\ GoTodo(o, "delete", Present(live))
     ELSE UNCHANGED resetJournal /\ End(o, "failed")
  /\ UNCHANGED <<live, newest, clock, backups, staging, rollback, journal, quarantine>>

ResetDeletes(o, f) ==
  /\ At(o, "reset", "delete") /\ f \in op[o].todo
  /\ live' = [live EXCEPT ![f] = 0]
  /\ newest' = [newest EXCEPT ![f] = 0]
  /\ Becomes(o, [op[o] EXCEPT !.todo = @ \ {f}])
  /\ UNCHANGED <<clock, diskVars>>

(* A file that cannot be deleted is counted; a changed one ends the task. *)
ResetSkips(o, f) ==
  /\ At(o, "reset", "delete") /\ f \in op[o].todo /\ Trouble("io")
  /\ \/ Becomes(o, [op[o] EXCEPT !.todo = @ \ {f}, !.partial = TRUE])
     \/ End(o, "failed")
  /\ OnlyOp

ResetEnds(o) ==
  /\ At(o, "reset", "delete")
  /\ op[o].todo = {} \/ Cancelled(o)
  /\ End(o, IF op[o].todo # {} THEN "cancelled"
            ELSE IF op[o].partial THEN "needs-recovery" ELSE "completed")
  /\ OnlyOp

(* After the lease is released. *)
ResetClears(o) ==
  /\ At(o, "reset", "clear")
  /\ \/ resetJournal' = FALSE
     \/ Trouble("io") /\ UNCHANGED resetJournal
  /\ Over(o)
  /\ UNCHANGED <<live, newest, clock, backups, staging, rollback, journal, quarantine>>

-----------------------------------------------------------------------------
(* executeCleanup, inside its tracked write: precheck, then the one cache item here. *)
CleanupBegins(o) ==
  /\ At(o, "cleanup", "begin")
  /\ IF Refused("cleanup") THEN End(o, "failed")
     ELSE \/ Cancelled(o) /\ End(o, "cancelled")
          \/ Becomes(o, [op[o] EXCEPT !.state = "running", !.at = "move"])
  /\ OnlyOp

CleanupMoves(o) ==
  /\ At(o, "cleanup", "move")
  /\ quarantine' = TRUE
  /\ Go(o, "remove")
  /\ UNCHANGED <<live, newest, clock, backups, staging, rollback, journal, resetJournal>>

CleanupRemoves(o) ==
  /\ At(o, "cleanup", "remove")
  /\ \/ quarantine' = FALSE /\ End(o, "completed")
     \/ Trouble("io") /\ UNCHANGED quarantine /\ End(o, "needs-recovery")
  /\ UNCHANGED <<live, newest, clock, backups, staging, rollback, journal, resetJournal>>

-----------------------------------------------------------------------------
(* A step of the task between its lease (or its tracked write) and its finally. *)
Work(o) ==
  \/ BackupBegins(o) \/ BackupStops(o) \/ Unstage(o) \/ BackupCommits(o)
  \/ RetireRemoves(o) \/ RetentionEnds(o)
  \/ \E b \in backups : RetireMoves(o, b)
  \/ \E f \in Files : BackupCopies(o, f) \/ RestoreWrites(o, f) \/ UndoRemoves(o, f)
                        \/ UndoRewrites(o, f) \/ ResetDeletes(o, f) \/ ResetSkips(o, f)
  \/ RestoreBegins(o) \/ RestorePrepares(o) \/ RestoreStops(o) \/ RestoreWritten(o)
  \/ RestoreUnjournals(o) \/ RestoreSyncs(o) \/ RestoreFinishFails(o)
  \/ UndoRemoved(o) \/ UndoUncopies(o) \/ UndoUnjournals(o) \/ UndoEnds(o) \/ UndoFails(o)
  \/ ResetBegins(o) \/ ResetEnds(o)
  \/ CleanupBegins(o) \/ CleanupMoves(o) \/ CleanupRemoves(o)
-----------------------------------------------------------------------------
(* A backup is committed only as a snapshot: file after file it was copied over many steps,
   and at its commit it is still what the data root holds. *)
BackupIsSnapshot ==
  [][\A b \in backups' \ backups : b.copy = live]_maintenanceVars

(* What a restore reports is so: completed, every file is that of the backup; cancelled or
   failed, every file is what it was; to be recovered, every file is what it was, or the
   journal is still there and a rollback copy of every file that was overwritten. *)
RestoreReport ==
  \A o \in Ops : At(o, "restore", "done") =>
    CASE op[o].result = "completed" ->
           \A f \in Present(op[o].copy) : live[f] = op[o].copy[f]
      [] op[o].result = "needs-recovery" ->
           \/ live = op[o].seen
           \/ /\ journal /\ rollback # None
              /\ \A f \in Overwritten(o) : rollback[f] = op[o].seen[f]
      [] op[o].result = "refused" -> TRUE
      [] OTHER -> live = op[o].seen
=============================================================================
