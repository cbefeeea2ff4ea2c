------------------------- MODULE ActivationClientProofs -------------------------
(***************************************************************************)
(* Theorems about ActivationClient, for every set of keys and of slots for  *)
(* coroutines, every number of artifact files and of requests, and whoever  *)
(* drives the coordinator.                                                  *)
(***************************************************************************)
EXTENDS ActivationClient, TLAPS

\* What the theorems suppose: one coroutine runs at a time.
Alive(r) == run[r].pc # "idle"

OneAtATime == \A r, s \in Runs : Alive(r) /\ Alive(s) => r = s

Coroutines == [pc : Steps, key : Keys \cup {None}, from : {"none", "requested", "server_bound"},
               tries : Nat, answer : {"none", "ok", "refused", "unknown"},
               copy : Contents \cup {None}, todo : SUBSET Files,
               then : {"none", "write", "exit_preflight", "exit_submit", "exit_run"}]

\* The part of the typing the proofs need.
Typed ==
  /\ bond \in [{Code} -> Server!Bonds] /\ requests \subseteq Requests
  /\ journal \in Journals \cup {None} /\ backup \in Contents \cup {None} /\ files \in Contents
  /\ pending \in Journals \cup {None} /\ op \in Runs \cup {None}
  /\ run \in [Runs -> Coroutines]

\* A coroutine and the process it runs in.
Lives ==
  /\ \A r \in Runs : run[r].pc = "idle" => run[r].then = "none"
  /\ mode # "activation" => pending = None /\ op = None /\ \A r \in Runs : run[r].pc = "idle"

-----------------------------------------------------------------------------
(* The drive. *)

Whole    == {OldFiles, NewFiles}
Writes   == {"write_backup", "write_file", "readback", "verify", "commit_remote", "commit_check", "commit_mark"}
Restores == {"restore", "drop_backup"}
Cleans   == {"clean_backup", "clean_journal"}
Asks     == {"send", "waiting", "answered"}

\* What a coroutine at its await knows of the drive.
Holds(r) ==
  /\ run[r].then # "none" => run[r].pc \in {"recover"} \cup Restores \cup Cleans
  /\ run[r].pc \in Restores => StageOf(journal) # "committed"
  /\ run[r].pc \in Writes => StageOf(journal) = "server_bound"
  /\ run[r].pc \in Cleans => StageOf(journal) = "committed"
  /\ run[r].pc \in {"snapshot", "write_backup", "clean_journal"} => backup = None
  /\ run[r].pc \in {"restore", "write_file"} => backup # None
  /\ run[r].pc \in {"restore", "write_backup"} => run[r].copy \in Whole
  /\ run[r].pc = "restore" => \A f \in Files \ run[r].todo : files[f] = run[r].copy[f]
  /\ run[r].pc = "drop_backup" => files \in Whole
  /\ run[r].pc \in {"commit_remote", "commit_check", "commit_mark"} => files = NewFiles

DriveSound ==
  /\ DriveIsRecoverable /\ backup \in Whole \cup {None}
  /\ \A r \in Runs : Holds(r)

-----------------------------------------------------------------------------
(* The server. *)

BoundForGood == Bond.phase \notin {"free", "pending"}

\* The requests the server has: each run waits for one at most, and one at work has bound the code.
Requested ==
  /\ \A q \in requests : q.run # None => run[q.run].pc = "waiting"
  /\ \A p, q \in requests : p.run = q.run /\ p.run # None => p = q
  /\ \A q \in requests : q.at = "working" => Bond.phase # "free"

\* What a coroutine, and the journal, know of the server.
Answered(r) ==
  /\ run[r].pc \in {"write_request", "write_bound", "snapshot"} \cup Asks \cup Writes => run[r].key \in Keys
  /\ run[r].then = "write" => run[r].key \in Keys
  /\ run[r].pc = "answered" /\ run[r].answer = "ok" => BoundForGood
  /\ run[r].pc = "write_bound" => BoundForGood
  /\ run[r].pc \in {"commit_check", "commit_mark"} => Bond.commit # None

Recorded ==
  /\ StageOf(journal) \in {"server_bound", "committed"} => BoundForGood
  /\ StageOf(journal) = "committed" => Bond.commit # None

ServerSound == Requested /\ Recorded /\ \A r \in Runs : Answered(r)

-----------------------------------------------------------------------------
(* The journal and the shipped renderer. *)

\* What the coordinator holds for the journal is the journal, unless that was committed, and
\* perhaps cleaned away, behind it.
Known ==
  \/ pending = journal
  \/ /\ StageOf(pending) = "server_bound"
     /\ journal = None \/ (StageOf(journal) = "committed" /\ journal.key = pending.key)

Current(r, stage) == op = r /\ state = "busy" /\ StageOf(pending) = stage /\ pending.key = run[r].key

Follows(r) ==
  /\ run[r].pc = "read_journal" => state = "checking"
  /\ run[r].pc = "preflight" => state = "checking" /\ pending = journal
  /\ run[r].pc = "write_request" =>
       op = r /\ state = "busy" /\ pending = None /\ journal = None /\ run[r].from = "requested"
  /\ run[r].pc \in Asks =>
       Current(r, run[r].from) /\ run[r].from \in {"requested", "server_bound"} /\ Known
  /\ run[r].pc \in {"discard", "write_bound"} => Current(r, "requested") /\ journal = pending
  /\ run[r].pc = "snapshot" => Current(r, "server_bound") /\ Known
  /\ run[r].pc \in Writes => Current(r, "server_bound") /\ journal = pending
  /\ run[r].pc \in {"recover"} \cup Restores \cup Cleans => run[r].then # "none"
  /\ run[r].then = "write" => Current(r, "server_bound") /\ Known
  /\ run[r].then = "exit_run" => Current(r, "server_bound") /\ Known /\ run[r].pc \in Cleans
  /\ run[r].then = "exit_preflight" => state = "checking" /\ StageOf(journal) = "committed"
  /\ run[r].then # "exit_submit"

\* Where the renderer may submit, the coordinator knows the journal.
Offered ==
  /\ state = "input" /\ mode = "activation" => pending = None /\ journal = None
  /\ state = "recovery" /\ mode = "activation" => StageOf(pending) \in {"requested", "server_bound"} /\ Known

\* A recorded commit has its journal, or all the new artifacts and nobody to ask for another.
Committed ==
  Bond.commit # None =>
    \/ StageOf(journal) \in {"server_bound", "committed"} /\ journal.key = Bond.commit
    \/ /\ journal = None /\ backup = None /\ files = NewFiles
       /\ mode = "activation" => state \in {"recovery", "busy"} /\ StageOf(pending) = "server_bound"

RendererSound == Offered /\ Committed /\ \A r \in Runs : Follows(r)

\* The inductive invariant.
Sound == Typed /\ Lives /\ DriveSound /\ ServerSound /\ (caller = "renderer" => RendererSound)

-----------------------------------------------------------------------------
(* How a coroutine moves. *)

LEMMA IdleIs ==
  /\ IdleRun \in Coroutines /\ IdleRun.pc = "idle" /\ IdleRun.then = "none" /\ IdleRun.key = None
  /\ IdleRun.from = "none" /\ IdleRun.answer = "none" /\ IdleRun.copy = None /\ IdleRun.todo = {}
BY DEF IdleRun, Coroutines, Steps

\* A step of one coroutine leaves the others where they are, and what it does not set as it was.
Elsewhere(r) == run' \in [Runs -> Coroutines] /\ \A s \in Runs : s # r => run'[s] = run[s]

Asked(r) == run'[r].key = run[r].key /\ run'[r].from = run[r].from

LEMMA GotoMoves ==
  ASSUME Typed, NEW r \in Runs, NEW pc \in Steps, Goto(r, pc)
  PROVE  /\ Elsewhere(r) /\ Asked(r) /\ run'[r].pc = pc /\ run'[r].then = run[r].then
         /\ run'[r].answer = run[r].answer /\ run'[r].copy = run[r].copy /\ run'[r].todo = run[r].todo
<1>1. run \in [Runs -> Coroutines]
  BY DEF Typed
<1> QED BY <1>1 DEF Goto, Coroutines, Elsewhere, Asked

LEMMA ThenMoves ==
  ASSUME Typed, NEW r \in Runs, NEW pc \in Steps,
         NEW then \in {"none", "write", "exit_preflight", "exit_submit", "exit_run"},
         run' = [run EXCEPT ![r] = [@ EXCEPT !.pc = pc, !.then = then]]
  PROVE  /\ Elsewhere(r) /\ Asked(r) /\ run'[r].pc = pc /\ run'[r].then = then
<1>1. run \in [Runs -> Coroutines]
  BY DEF Typed
<1> QED BY ZenonT(60), <1>1 DEF Coroutines, Elsewhere, Asked

LEMMA AnswerMoves ==
  ASSUME Typed, NEW r \in Runs, NEW answer \in {"ok", "refused", "unknown"},
         run' = [run EXCEPT ![r] = [@ EXCEPT !.pc = "answered", !.answer = answer]]
  PROVE  /\ Elsewhere(r) /\ Asked(r) /\ run'[r].pc = "answered" /\ run'[r].then = run[r].then
         /\ run'[r].answer = answer
<1>1. run \in [Runs -> Coroutines]
  BY DEF Typed
<1>2. "answered" \in Steps
  BY DEF Steps
<1> QED BY ZenonT(60), <1>1, <1>2 DEF Coroutines, Elsewhere, Asked

LEMMA CopyMoves ==
  ASSUME Typed, NEW r \in Runs, NEW pc \in Steps, NEW copy \in Contents \cup {None},
         run' = [run EXCEPT ![r] = [@ EXCEPT !.pc = pc, !.copy = copy, !.todo = Files]]
  PROVE  /\ Elsewhere(r) /\ Asked(r) /\ run'[r].pc = pc /\ run'[r].then = run[r].then
         /\ run'[r].copy = copy /\ run'[r].todo = Files
<1>1. run \in [Runs -> Coroutines]
  BY DEF Typed
<1> QED BY ZenonT(60), <1>1 DEF Coroutines, Elsewhere, Asked

LEMMA SnapshotMoves ==
  ASSUME Typed, NEW r \in Runs, NEW copy \in Contents,
         run' = [run EXCEPT ![r] = [@ EXCEPT !.pc = "write_backup", !.copy = copy]]
  PROVE  /\ Elsewhere(r) /\ Asked(r) /\ run'[r].pc = "write_backup" /\ run'[r].then = run[r].then
         /\ run'[r].copy = copy
<1>1. run \in [Runs -> Coroutines]
  BY DEF Typed
<1>2. "write_backup" \in Steps
  BY DEF Steps
<1> QED BY ZenonT(60), <1>1, <1>2 DEF Coroutines, Elsewhere, Asked

LEMMA TodoMoves ==
  ASSUME Typed, NEW r \in Runs, NEW f, NEW pc \in Steps,
         run' = [run EXCEPT ![r] = [@ EXCEPT !.todo = run[r].todo \ {f}, !.pc = pc]]
  PROVE  /\ Elsewhere(r) /\ Asked(r) /\ run'[r].pc = pc /\ run'[r].then = run[r].then
         /\ run'[r].copy = run[r].copy /\ run'[r].todo = run[r].todo \ {f}
<1>1. run \in [Runs -> Coroutines]
  BY DEF Typed
<1>2. run[r].todo \ {f} \in SUBSET Files
  BY <1>1 DEF Coroutines
<1> QED BY ZenonT(60), <1>1, <1>2 DEF Coroutines, Elsewhere, Asked

LEMMA KeyMoves ==
  ASSUME Typed, NEW r \in Runs, NEW pc \in Steps, NEW key \in Keys,
         run' = [run EXCEPT ![r] = [@ EXCEPT !.pc = pc, !.key = key]]
  PROVE  /\ Elsewhere(r) /\ run'[r].pc = pc /\ run'[r].key = key /\ run'[r].then = run[r].then
<1>1. run \in [Runs -> Coroutines]
  BY DEF Typed
<1> QED BY ZenonT(60), <1>1 DEF Coroutines, Elsewhere

LEMMA TriesMoves ==
  ASSUME Typed, NEW r \in Runs,
         run' = [run EXCEPT ![r] = [@ EXCEPT !.pc = "waiting", !.tries = run[r].tries + 1]]
  PROVE  /\ Elsewhere(r) /\ Asked(r) /\ run'[r].pc = "waiting" /\ run'[r].then = run[r].then
<1>1. run \in [Runs -> Coroutines]
  BY DEF Typed
<1>2. "waiting" \in Steps /\ run[r].tries + 1 \in Nat
  BY <1>1 DEF Steps, Coroutines
<1> QED BY ZenonT(60), <1>1, <1>2 DEF Coroutines, Elsewhere, Asked

LEMMA ReturnMoves ==
  ASSUME Typed, NEW r \in Runs, Return(r)
  PROVE  Elsewhere(r) /\ run'[r].pc = "idle" /\ run'[r].then = "none"
<1>1. run \in [Runs -> Coroutines]
  BY DEF Typed
<1> QED BY <1>1, IdleIs DEF Return, Elsewhere

LEMMA OrphansTyped ==
  ASSUME Typed, NEW lost \in SUBSET Runs
  PROVE  Orphan(lost) \subseteq Requests
BY DEF Typed, Orphan, Requests

LEMMA DieMoves ==
  ASSUME Typed, NEW last, Die(last)
  PROVE  /\ run' \in [Runs -> Coroutines] /\ \A s \in Runs : run'[s].pc = "idle" /\ run'[s].then = "none"
         /\ mode' = "off" /\ state' = last /\ pending' = None /\ op' = None
         /\ requests' = Orphan(Runs) /\ requests' \subseteq Requests
<1>1. Orphan(Runs) \subseteq Requests
  BY OrphansTyped
<1> QED BY <1>1, IdleIs DEF Die, Typed

-----------------------------------------------------------------------------
(* What a step of one coroutine has to show. *)

Alone(r) == \A s \in Runs : s # r => run'[s].pc = "idle" /\ run'[s].then = "none"

LEMMA RestIdle ==
  ASSUME Lives, OneAtATime, NEW r \in Runs, Alive(r), Elsewhere(r)
  PROVE  Alone(r)
BY DEF Lives, OneAtATime, Alive, Elsewhere, Alone

LEMMA RestIdleAfter ==
  ASSUME Lives, OneAtATime', NEW r \in Runs, run'[r].pc # "idle", Elsewhere(r)
  PROVE  Alone(r)
BY DEF Lives, OneAtATime, Alive, Elsewhere, Alone

LEMMA IdleKnows ==
  ASSUME NEW s \in Runs, run'[s].pc = "idle", run'[s].then = "none"
  PROVE  Holds(s)' /\ Answered(s)' /\ Follows(s)'
BY DEF Holds, Answered, Follows, Writes, Restores, Cleans, Asks

RestTyped ==
  /\ bond \in [{Code} -> Server!Bonds] /\ requests \subseteq Requests
  /\ journal \in Journals \cup {None} /\ backup \in Contents \cup {None} /\ files \in Contents
  /\ pending \in Journals \cup {None} /\ op \in Runs \cup {None}

LEMMA OneSound ==
  ASSUME NEW r \in Runs, Elsewhere(r), Alone(r), RestTyped',
         run'[r].pc = "idle" => run'[r].then = "none",
         mode' # "activation" => pending' = None /\ op' = None /\ run'[r].pc = "idle",
         DriveIsRecoverable', backup' \in Whole \cup {None}, Holds(r)',
         Requested', Recorded', Answered(r)',
         caller' = "renderer" => Offered' /\ Committed' /\ Follows(r)'
  PROVE  Sound'
<1>1. Typed'
  BY DEF Typed, RestTyped, Elsewhere
<1>2. Lives'
  BY DEF Lives, Alone
<1>3. \A s \in Runs : s # r => Holds(s)' /\ Answered(s)' /\ Follows(s)'
  BY IdleKnows DEF Alone
<1>4. DriveSound'
  BY <1>3 DEF DriveSound, Whole, OldFiles, NewFiles
<1>5. ServerSound'
  BY <1>3 DEF ServerSound
<1>6. caller' = "renderer" => RendererSound'
  BY <1>3 DEF RendererSound
<1> QED BY <1>1, <1>2, <1>4, <1>5, <1>6 DEF Sound

\* The requests under way when another coroutine than the one that waits takes a step.
LEMMA RequestsStay ==
  ASSUME Typed, Requested, UNCHANGED requests, NEW r \in Runs, Elsewhere(r), run[r].pc # "waiting",
         bond'[Code].phase = "free" => bond[Code].phase = "free"
  PROVE  Requested'
<1>1. ASSUME NEW q \in requests, q.run # None
      PROVE  run'[q.run].pc = "waiting"
  <2>1. q.run \in Runs /\ run[q.run].pc = "waiting"
    BY <1>1 DEF Typed, Requested, Requests
  <2> QED BY <2>1 DEF Elsewhere
<1> QED BY <1>1 DEF Requested, Bond

\* A step that leaves the server alone.
LEMMA DriveStepSound ==
  ASSUME Sound, OneAtATime, NEW r \in Runs, Alive(r), run[r].pc # "waiting", Elsewhere(r),
         UNCHANGED <<caller, bond, requests, mode>>,
         journal' \in Journals \cup {None}, files' \in Contents, backup' \in Whole \cup {None},
         pending' \in Journals \cup {None}, op' \in Runs \cup {None},
         run'[r].pc = "idle" => run'[r].then = "none",
         DriveIsRecoverable', Holds(r)', Recorded', Answered(r)',
         caller = "renderer" => Offered' /\ Committed' /\ Follows(r)'
  PROVE  Sound'
<1>1. Alone(r)
  BY RestIdle DEF Sound
<1>2. RestTyped'
  BY DEF Sound, Typed, RestTyped, Whole, OldFiles, NewFiles, Contents
<1>3. mode' = "activation"
  BY DEF Sound, Lives, Alive
<1>4. Requested'
  BY RequestsStay DEF Sound, ServerSound
<1> QED BY <1>1, <1>2, <1>3, <1>4, OneSound

\* A step that changes neither the drive nor the server.
LEMMA QuietSound ==
  ASSUME Sound, OneAtATime, NEW r \in Runs, Alive(r), run[r].pc # "waiting", Elsewhere(r),
         UNCHANGED <<caller, bond, requests, journal, backup, files, mode>>,
         pending' \in Journals \cup {None}, op' \in Runs \cup {None},
         run'[r].pc = "idle" => run'[r].then = "none", Holds(r)', Answered(r)',
         caller = "renderer" => Offered' /\ Committed' /\ Follows(r)'
  PROVE  Sound'
<1>1. DriveIsRecoverable' /\ backup' \in Whole \cup {None} /\ Recorded'
  BY DEF Sound, DriveSound, DriveIsRecoverable, Whole, ServerSound, Recorded, BoundForGood, Bond
<1>2. journal' \in Journals \cup {None} /\ files' \in Contents
  BY DEF Sound, Typed
<1> QED BY <1>1, <1>2, DriveStepSound

\* run() gives up: the coordinator asks for recovery.
LEMMA RecoverySound ==
  ASSUME Sound, OneAtATime, NEW r \in Runs, Alive(r), run[r].pc # "waiting", EnterRecovery(r),
         UNCHANGED <<caller, bond, requests, journal, backup, files>>,
         caller = "renderer" => StageOf(pending) \in {"requested", "server_bound"} /\ Known
  PROVE  Sound'
<1>1. /\ Elsewhere(r) /\ run'[r].pc = "idle" /\ run'[r].then = "none"
      /\ state' = "recovery" /\ UNCHANGED <<mode, pending>>
  BY ReturnMoves DEF EnterRecovery, Sound
<1>2. pending' \in Journals \cup {None} /\ op' \in Runs \cup {None}
  BY <1>1 DEF EnterRecovery, EndOperation, Sound, Typed
<1>3. Holds(r)' /\ Answered(r)' /\ Follows(r)'
  BY <1>1, IdleKnows
<1>4. caller = "renderer" => Offered' /\ Committed'
  BY <1>1 DEF Sound, RendererSound, Offered, Committed, Known, Bond
<1> QED BY <1>1, <1>2, <1>3, <1>4, QuietSound

\* The end of the process.
LEMMA DieSound ==
  ASSUME Sound, NEW last \in {"checking", "complete"}, Die(last), UNCHANGED <<caller, bond>>,
         journal' \in Journals \cup {None}, backup' \in Contents \cup {None}, files' \in Contents,
         DriveIsRecoverable', backup' \in Whole \cup {None}, Recorded',
         caller = "renderer" => Committed'
  PROVE  Sound'
<1>1. /\ run' \in [Runs -> Coroutines] /\ \A s \in Runs : run'[s].pc = "idle" /\ run'[s].then = "none"
      /\ mode' = "off" /\ state' = last /\ pending' = None /\ op' = None
      /\ requests' = Orphan(Runs) /\ requests' \subseteq Requests
  BY DieMoves DEF Sound
<1>2. \A s \in Runs : Holds(s)' /\ Answered(s)' /\ Follows(s)'
  BY <1>1, IdleKnows
<1>3. Requested'
  <2>1. ASSUME NEW q \in requests'
        PROVE  q.run = None /\ (q.at = "working" => Bond.phase # "free")
    <3>1. PICK p \in requests : q = IF p.run \in Runs THEN [p EXCEPT !.run = None] ELSE p
      BY <1>1, <2>1 DEF Orphan
    <3>2. p \in Requests
      BY DEF Sound, Typed
    <3>3. q.run = None /\ q.at = p.at
      BY <3>1, <3>2 DEF Requests
    <3> QED BY <3>3 DEF Sound, ServerSound, Requested
  <2> QED BY <2>1 DEF Requested, Bond
<1>4. Typed' /\ Lives'
  BY <1>1 DEF Typed, Lives, Sound
<1>5. DriveSound' /\ ServerSound'
  BY <1>2, <1>3 DEF DriveSound, ServerSound, Whole, OldFiles, NewFiles
<1>6. caller = "renderer" => RendererSound'
  BY <1>1, <1>2 DEF RendererSound, Offered
<1> QED BY <1>4, <1>5, <1>6 DEF Sound

-----------------------------------------------------------------------------
(* preflight, and the steps of a run that leave the drive and the server    *)
(* alone.                                                                   *)

LEMMA SoundAt ==
  ASSUME Sound, NEW r \in Runs
  PROVE  /\ Typed /\ Lives /\ run[r] \in Coroutines
         /\ DriveIsRecoverable /\ backup \in Whole \cup {None} /\ Holds(r)
         /\ Requested /\ Recorded /\ Answered(r)
         /\ caller = "renderer" => Offered /\ Committed /\ Follows(r)
         /\ run[r].pc # "idle" => mode = "activation" /\ Alive(r)
BY DEF Sound, Typed, Lives, DriveSound, ServerSound, RendererSound, Alive

LEMMA StageIs ==
  /\ StageOf(None) = "none"
  /\ \A j \in Journals : j # None /\ StageOf(j) = j.stage /\ j.stage \in {"requested", "server_bound", "committed"}
  /\ \A stage \in {"requested", "server_bound", "committed"}, key \in Keys :
       /\ [stage |-> stage, key |-> key] \in Journals
       /\ StageOf([stage |-> stage, key |-> key]) = stage
       /\ [stage |-> stage, key |-> key].key = key
BY NoneIsNothing DEF StageOf, Journals

LEMMA ReadJournalSound ==
  ASSUME Sound, OneAtATime, NEW r \in Runs, ReadJournal(r), UNCHANGED caller
  PROVE  Sound'
<1>1. run[r].pc = "read_journal" /\ pending' = journal /\ Goto(r, "preflight")
      /\ UNCHANGED <<caller, bond, requests, journal, backup, files, mode, state, op>>
  BY DEF ReadJournal, server, drive
<1>2. "preflight" \in Steps
  BY DEF Steps
<1>3. Elsewhere(r) /\ Asked(r) /\ run'[r].pc = "preflight" /\ run'[r].then = run[r].then
  BY <1>1, <1>2, GotoMoves, SoundAt
<1>4. Holds(r)'
  BY <1>1, <1>3, SoundAt DEF Holds, Writes, Restores, Cleans
<1>5. Answered(r)'
  BY <1>1, <1>3, SoundAt DEF Answered, Asks, Writes, Asked
<1>6. ASSUME caller = "renderer"
      PROVE  Offered' /\ Committed' /\ Follows(r)'
  <2>1. state = "checking" /\ run[r].then = "none" /\ Committed /\ Offered
    BY <1>1, <1>6, SoundAt DEF Follows, Holds, Restores, Cleans
  <2>2. Offered' /\ Committed'
    BY <1>1, <2>1 DEF Offered, Committed, Bond
  <2>3. Follows(r)'
    BY <1>1, <1>3, <2>1 DEF Follows, Restores, Cleans, Asks, Writes
  <2> QED BY <2>2, <2>3
<1>7. pending' \in Journals \cup {None} /\ op' \in Runs \cup {None} /\ Alive(r)
  BY <1>1, SoundAt DEF Typed
<1> QED BY <1>1, <1>3, <1>4, <1>5, <1>6, <1>7, QuietSound

LEMMA FinishPreflightSound ==
  ASSUME Sound, OneAtATime, NEW r \in Runs, FinishPreflight(r), UNCHANGED caller
  PROVE  Sound'
<1>1. run[r].pc = "preflight" /\ Alive(r)
      /\ UNCHANGED <<caller, bond, requests, journal, backup, files, mode, pending, op>>
  BY SoundAt DEF FinishPreflight, server, drive
<1>2. pending' \in Journals \cup {None} /\ op' \in Runs \cup {None}
  BY <1>1, SoundAt DEF Typed
<1>3. CASE /\ StageOf(pending) = "committed" /\ UNCHANGED state
           /\ run' = [run EXCEPT ![r] = [@ EXCEPT !.pc = "recover", !.then = "exit_preflight"]]
  <2>1. "recover" \in Steps
    BY DEF Steps
  <2>2. Elsewhere(r) /\ Asked(r) /\ run'[r].pc = "recover" /\ run'[r].then = "exit_preflight"
    BY <1>3, <2>1, ThenMoves, SoundAt
  <2>3. Holds(r)' /\ Answered(r)'
    BY <1>1, <2>2, SoundAt DEF Holds, Writes, Restores, Cleans, Answered, Asks
  <2>4. ASSUME caller = "renderer"
        PROVE  Offered' /\ Committed' /\ Follows(r)'
    <3>1. state = "checking" /\ pending = journal /\ Committed /\ Offered
      BY <1>1, <2>4, SoundAt DEF Follows
    <3>2. Offered' /\ Committed'
      BY <1>1, <1>3, <3>1 DEF Offered, Committed, Bond
    <3>3. Follows(r)'
      BY <1>1, <1>3, <2>2, <3>1 DEF Follows, Restores, Cleans, Asks, Writes
    <3> QED BY <3>2, <3>3
  <2> QED BY <1>1, <1>2, <2>2, <2>3, <2>4, QuietSound
<1>4. CASE Return(r) /\ \/ StageOf(pending) \in {"requested", "server_bound"} /\ state' = "recovery"
                        \/ pending = None /\ state' = "input"
  <2>1. Elsewhere(r) /\ run'[r].pc = "idle" /\ run'[r].then = "none"
    BY <1>4, ReturnMoves, SoundAt
  <2>2. Holds(r)' /\ Answered(r)' /\ Follows(r)'
    BY <2>1, IdleKnows
  <2>3. ASSUME caller = "renderer"
        PROVE  Offered' /\ Committed'
    <3>1. pending = journal /\ Committed /\ mode = "activation"
      BY <1>1, <2>3, SoundAt DEF Follows
    <3>2. Offered'
      BY <1>1, <1>4, <3>1, StageIs DEF Offered, Known
    <3>3. Committed'
      BY <1>1, <1>4, <3>1, StageIs DEF Committed, Bond
    <3> QED BY <3>2, <3>3
  <2> QED BY <1>1, <1>2, <2>1, <2>2, <2>3, QuietSound
<1> QED BY <1>3, <1>4 DEF FinishPreflight

\* What a run that gives up knows of the pending journal.
LEMMA GivesUp ==
  ASSUME Sound, NEW r \in Runs, caller = "renderer",
         \/ run[r].pc \in Asks \cup {"discard", "write_bound", "snapshot"} \cup Writes
         \/ run[r].then \in {"write", "exit_run"}
  PROVE  StageOf(pending) \in {"requested", "server_bound"} /\ Known
BY SoundAt, StageIs DEF Follows, Current, Known, Asks, Writes, Typed

LEMMA RefusedSound ==
  ASSUME Sound, OneAtATime, NEW r \in Runs, Refused(r), UNCHANGED caller
  PROVE  Sound'
<1>1. run[r].pc = "answered" /\ Alive(r) /\ UNCHANGED <<caller, bond, requests, journal, backup, files>>
  BY SoundAt DEF Refused, server, drive
<1>2. CASE EnterRecovery(r)
  BY <1>1, <1>2, GivesUp, RecoverySound DEF Asks
<1>3. CASE StageOf(journal) = "requested" /\ journal.key = run[r].key /\ Goto(r, "discard") /\ UNCHANGED memory
  <2>1. UNCHANGED <<mode, state, pending, op>> /\ "discard" \in Steps
    BY <1>3 DEF memory, Steps
  <2>2. Elsewhere(r) /\ Asked(r) /\ run'[r].pc = "discard" /\ run'[r].then = run[r].then
    BY <1>3, <2>1, GotoMoves, SoundAt
  <2>3. Holds(r)'
    BY <1>1, <2>2, SoundAt DEF Holds, Writes, Restores, Cleans
  <2>4. Answered(r)'
    BY <1>1, <2>2, SoundAt DEF Answered, Asks, Writes, Asked
  <2>5. ASSUME caller = "renderer"
        PROVE  Offered' /\ Committed' /\ Follows(r)'
    <3>1. /\ Current(r, run[r].from) /\ run[r].from \in {"requested", "server_bound"} /\ Known
          /\ run[r].then = "none" /\ Committed /\ Offered
      BY <1>1, <2>5, SoundAt DEF Follows, Holds, Asks, Restores, Cleans
    <3>2. Offered' /\ Committed'
      BY <1>1, <2>1, <3>1 DEF Offered, Committed, Bond, Known
    <3>3. pending = journal
      BY <1>3, <3>1, StageIs DEF Known
    <3>4. Current(r, "requested")'
      BY <1>1, <1>3, <2>1, <2>2, <3>1, <3>3 DEF Current, Asked
    <3>5. Follows(r)'
      BY <1>1, <2>1, <2>2, <3>1, <3>3, <3>4 DEF Follows, Restores, Cleans, Asks, Writes
    <3> QED BY <3>2, <3>5
  <2>6. pending' \in Journals \cup {None} /\ op' \in Runs \cup {None}
    BY <2>1, SoundAt DEF Typed
  <2> QED BY <1>1, <2>1, <2>2, <2>3, <2>4, <2>5, <2>6, QuietSound
<1> QED BY <1>2, <1>3 DEF Refused

LEMMA UnknownSound ==
  ASSUME Sound, OneAtATime, NEW r \in Runs, Unknown(r), UNCHANGED caller
  PROVE  Sound'
<1>1. /\ run[r].pc = "answered" /\ Alive(r) /\ EnterRecovery(r)
      /\ UNCHANGED <<caller, bond, requests, journal, backup, files>>
  BY SoundAt DEF Unknown, server, drive
<1> QED BY <1>1, GivesUp, RecoverySound DEF Asks

LEMMA AcceptedSound ==
  ASSUME Sound, OneAtATime, NEW r \in Runs, Accepted(r), UNCHANGED caller
  PROVE  Sound'
<1>1. /\ run[r].pc = "answered" /\ run[r].answer = "ok" /\ Alive(r)
      /\ UNCHANGED <<caller, bond, requests, journal, backup, files, mode, state, op>>
  BY SoundAt DEF Accepted, server, drive
<1>2. op' \in Runs \cup {None} /\ run[r].key \in Keys /\ BoundForGood
  BY <1>1, SoundAt DEF Typed, Answered, Asks
<1>3. CASE op # r
  <2>1. Return(r) /\ UNCHANGED pending
    BY <1>3 DEF Accepted
  <2>2. Elsewhere(r) /\ run'[r].pc = "idle" /\ run'[r].then = "none"
    BY <2>1, ReturnMoves, SoundAt
  <2>3. caller # "renderer"
    BY <1>1, <1>3, SoundAt DEF Follows, Current, Asks
  <2>4. pending' \in Journals \cup {None}
    BY <2>1, SoundAt DEF Typed
  <2> QED BY <1>1, <1>2, <2>2, <2>3, <2>4, IdleKnows, QuietSound
<1>4. CASE op = r /\ run[r].from = "requested"
  <2>1. Goto(r, "write_bound") /\ UNCHANGED pending /\ "write_bound" \in Steps
    BY <1>4 DEF Accepted, Steps
  <2>2. Elsewhere(r) /\ Asked(r) /\ run'[r].pc = "write_bound" /\ run'[r].then = run[r].then
    BY <2>1, GotoMoves, SoundAt
  <2>3. Holds(r)'
    BY <1>1, <2>2, SoundAt DEF Holds, Writes, Restores, Cleans
  <2>4. Answered(r)'
    BY <1>1, <1>2, <2>2 DEF Answered, Asks, Writes, Asked, BoundForGood, Bond
  <2>5. ASSUME caller = "renderer"
        PROVE  Offered' /\ Committed' /\ Follows(r)'
    <3>1. Current(r, "requested") /\ Known /\ run[r].then = "none" /\ Committed /\ Offered
      BY <1>1, <1>4, <2>5, SoundAt DEF Follows, Holds, Asks, Restores, Cleans
    <3>2. Offered' /\ Committed'
      BY <1>1, <2>1, <3>1 DEF Offered, Committed, Bond, Known
    <3>3. pending = journal /\ Current(r, "requested")'
      BY <1>1, <2>1, <2>2, <3>1 DEF Known, Current, Asked
    <3>4. Follows(r)'
      BY <1>1, <2>1, <2>2, <3>1, <3>3 DEF Follows, Restores, Cleans, Asks, Writes
    <3> QED BY <3>2, <3>4
  <2>6. pending' \in Journals \cup {None}
    BY <2>1, SoundAt DEF Typed
  <2> QED BY <1>1, <1>2, <2>2, <2>3, <2>4, <2>5, <2>6, QuietSound
<1>5. CASE op = r /\ run[r].from # "requested"
  <2>1. /\ pending' = [stage |-> "server_bound", key |-> run[r].key] /\ "recover" \in Steps
        /\ run' = [run EXCEPT ![r] = [@ EXCEPT !.pc = "recover", !.then = "write"]]
    BY <1>5 DEF Accepted, Steps
  <2>2. Elsewhere(r) /\ Asked(r) /\ run'[r].pc = "recover" /\ run'[r].then = "write"
    BY <2>1, ThenMoves, SoundAt
  <2>3. /\ pending' \in Journals /\ StageOf(pending') = "server_bound" /\ pending'.key = run[r].key
        /\ pending'.stage = "server_bound"
    BY <1>2, <2>1, StageIs
  <2>4. Holds(r)'
    BY <1>1, <2>2, SoundAt DEF Holds, Writes, Restores, Cleans
  <2>5. Answered(r)'
    BY <1>1, <1>2, <2>2 DEF Answered, Asks, Writes, Asked
  <2>6. ASSUME caller = "renderer"
        PROVE  Offered' /\ Committed' /\ Follows(r)'
    <3>1. Current(r, "server_bound") /\ Known /\ Committed /\ Offered
      BY <1>1, <1>5, <2>6, SoundAt DEF Follows, Asks
    <3>2. pending' = pending
      <4>1. pending \in Journals /\ pending.stage = "server_bound" /\ pending.key = run[r].key
        BY <3>1, SoundAt, StageIs DEF Current, Typed
      <4> QED BY <2>1, <4>1 DEF Journals
    <3>3. Offered' /\ Committed'
      BY <1>1, <3>1, <3>2 DEF Offered, Committed, Bond, Known
    <3>4. Known' /\ Current(r, "server_bound")'
      BY <1>1, <2>2, <3>1, <3>2 DEF Known, Current, Asked
    <3>5. Follows(r)'
      BY <2>2, <3>4 DEF Follows, Restores, Cleans, Asks, Writes
    <3> QED BY <3>3, <3>5
  <2> QED BY <1>1, <1>2, <2>2, <2>3, <2>4, <2>5, <2>6, QuietSound
<1> QED BY <1>3, <1>4, <1>5

\* The end of recoverPendingArtifacts, whatever it was called for.
LEMMA ContinueSound ==
  ASSUME Sound, OneAtATime, NEW r \in Runs, Continue(r), UNCHANGED <<caller, bond, files>>,
         run[r].pc \in {"recover", "drop_backup", "clean_journal"},
         backup' = None, files \in Whole,
         journal' = journal \/ (journal' = None /\ StageOf(journal) = "committed")
  PROVE  Sound'
<1>1. Alive(r) /\ mode = "activation" /\ files' \in Contents /\ journal' \in Journals \cup {None}
  BY SoundAt DEF Typed
<1>2. DriveIsRecoverable' /\ Recorded'
  BY SoundAt, StageIs DEF DriveIsRecoverable, Recorded, BoundForGood, Bond, Whole
<1>3. CASE Die("complete")
  <2>1. caller = "renderer" => Committed'
    <3>1. mode' = "off"
      BY <1>3 DEF Die
    <3> QED BY <3>1, SoundAt, StageIs DEF Committed, DriveIsRecoverable, Bond
  <2> QED BY <1>1, <1>2, <1>3, <2>1, DieSound
<1>4. ASSUME Elsewhere(r), UNCHANGED <<requests, mode, state, pending, op>>, run'[r].then = "none",
             \/ run'[r].pc = "idle"
             \/ run'[r].pc = "snapshot" /\ run[r].then = "write" /\ Asked(r),
             run[r].then \in {"write", "exit_run"}
      PROVE  Sound'
  <2>1. pending' \in Journals \cup {None} /\ op' \in Runs \cup {None} /\ backup' \in Whole \cup {None}
    BY <1>4, SoundAt DEF Typed
  <2>2. Holds(r)'
    BY <1>4 DEF Holds, Writes, Restores, Cleans
  <2>3. Answered(r)'
    BY <1>4, SoundAt DEF Answered, Asks, Writes, Asked
  <2>4. ASSUME caller = "renderer"
        PROVE  Offered' /\ Committed' /\ Follows(r)'
    <3>1. Current(r, "server_bound") /\ Known /\ Committed
      BY <1>4, <2>4, SoundAt DEF Follows
    <3>2. Known' /\ (Asked(r) => Current(r, "server_bound")')
      BY <1>4, <3>1, StageIs DEF Known, Current, Asked
    <3>3. Offered'
      BY <1>4, <3>1 DEF Offered, Current
    <3>4. Committed'
      BY <1>4, <3>1, SoundAt, StageIs DEF Committed, Current, DriveIsRecoverable, Bond
    <3>5. Follows(r)'
      BY <1>4, <3>2 DEF Follows, Restores, Cleans, Asks, Writes
    <3> QED BY <3>3, <3>4, <3>5
  <2> QED BY <1>1, <1>2, <1>4, <2>1, <2>2, <2>3, <2>4, DriveStepSound
<1>5. CASE run[r].then = "write"
  <2>1. UNCHANGED <<requests, memory>>
        /\ IF op = r THEN run' = [run EXCEPT ![r] = [@ EXCEPT !.pc = "snapshot", !.then = "none"]] ELSE Return(r)
    BY <1>5 DEF Continue
  <2>2. CASE op = r
    <3>1. "snapshot" \in Steps
      BY DEF Steps
    <3>2. Elsewhere(r) /\ Asked(r) /\ run'[r].pc = "snapshot" /\ run'[r].then = "none"
      BY <2>1, <2>2, <3>1, ThenMoves, SoundAt
    <3> QED BY <1>4, <1>5, <2>1, <3>2 DEF memory
  <2>3. CASE op # r
    <3>1. Elsewhere(r) /\ run'[r].pc = "idle" /\ run'[r].then = "none"
      BY <2>1, <2>3, ReturnMoves, SoundAt
    <3> QED BY <1>4, <1>5, <2>1, <3>1 DEF memory
  <2> QED BY <2>2, <2>3
<1>6. CASE run[r].then = "exit_run" /\ op # r
  <2>1. Return(r) /\ UNCHANGED <<requests, memory>>
    BY <1>6 DEF Continue
  <2>2. Elsewhere(r) /\ run'[r].pc = "idle" /\ run'[r].then = "none"
    BY <2>1, ReturnMoves, SoundAt
  <2> QED BY <1>4, <1>6, <2>1, <2>2 DEF memory
<1>7. CASE run[r].then # "write" /\ ~(run[r].then = "exit_run" /\ op # r)
  BY <1>3, <1>7 DEF Continue, Exit
<1> QED BY <1>5, <1>6, <1>7

LEMMA RecoverSound ==
  ASSUME Sound, OneAtATime, NEW r \in Runs, Recover(r), UNCHANGED caller
  PROVE  Sound'
<1>1. run[r].pc = "recover" /\ Alive(r) /\ UNCHANGED <<caller, bond, journal, backup, files>>
  BY SoundAt DEF Recover, server, drive
<1>2. ASSUME Elsewhere(r), Asked(r), UNCHANGED <<requests, mode, state, pending, op>>, run'[r].then = run[r].then,
             run'[r].pc \in {"clean_backup", "restore"}, Holds(r)'
      PROVE  Sound'
  <2>1. pending' \in Journals \cup {None} /\ op' \in Runs \cup {None}
    BY <1>2, SoundAt DEF Typed
  <2>2. Answered(r)'
    BY <1>1, <1>2, SoundAt DEF Answered, Asks, Writes, Asked
  <2>3. ASSUME caller = "renderer"
        PROVE  Offered' /\ Committed' /\ Follows(r)'
    <3>1. Follows(r) /\ Offered /\ Committed
      BY <2>3, SoundAt
    <3>2. Offered' /\ Committed'
      BY <1>1, <1>2, <3>1 DEF Offered, Committed, Bond, Known
    <3>3. run[r].then = "write" => Current(r, "server_bound")' /\ Known'
      BY <1>1, <1>2, <3>1 DEF Follows, Current, Known, Asked
    <3>4. Follows(r)'
      BY <1>1, <1>2, <3>1, <3>3 DEF Follows, Restores, Cleans, Asks, Writes
    <3> QED BY <3>2, <3>4
  <2> QED BY <1>1, <1>2, <2>1, <2>2, <2>3, QuietSound
<1>3. CASE StageOf(journal) = "committed"
  <2>1. Goto(r, "clean_backup") /\ UNCHANGED <<requests, memory>> /\ "clean_backup" \in Steps
    BY <1>3 DEF Recover, Steps
  <2>2. Elsewhere(r) /\ Asked(r) /\ run'[r].pc = "clean_backup" /\ run'[r].then = run[r].then
    BY <2>1, GotoMoves, SoundAt
  <2>3. Holds(r)'
    BY <1>1, <1>3, <2>2 DEF Holds, Writes, Restores, Cleans
  <2> QED BY <1>2, <2>1, <2>2, <2>3 DEF memory
<1>4. CASE StageOf(journal) # "committed" /\ backup = None
  <2>1. files \in Whole
    BY <1>4, SoundAt DEF DriveIsRecoverable, Whole
  <2>2. Continue(r)
    BY <1>4 DEF Recover
  <2> QED BY <1>1, <1>4, <2>1, <2>2, ContinueSound
<1>5. CASE StageOf(journal) # "committed" /\ backup # None
  <2>1. /\ run' = [run EXCEPT ![r] = [@ EXCEPT !.pc = "restore", !.copy = backup, !.todo = Files]]
        /\ UNCHANGED <<requests, memory>> /\ "restore" \in Steps
    BY <1>5 DEF Recover, Steps
  <2>2. backup \in Whole /\ backup \in Contents \cup {None}
    BY <1>5, SoundAt DEF Typed
  <2>3. Elsewhere(r) /\ Asked(r) /\ run'[r].pc = "restore" /\ run'[r].then = run[r].then
        /\ run'[r].copy = backup /\ run'[r].todo = Files
    <3>1. Typed /\ backup \in Contents \cup {None} /\ "restore" \in Steps
      BY <2>1, <2>2, SoundAt
    <3>2. run' = [run EXCEPT ![r] = [@ EXCEPT !.pc = "restore", !.copy = backup, !.todo = Files]]
      BY <2>1
    <3>3. run \in [Runs -> Coroutines]
      BY <3>1 DEF Typed
    <3> QED BY ZenonT(60), <3>1, <3>2, <3>3 DEF Coroutines, Elsewhere, Asked
  <2>4. Holds(r)'
    BY <1>1, <1>5, <2>2, <2>3 DEF Holds, Writes, Restores, Cleans, Whole, OldFiles, NewFiles
  <2> QED BY <1>2, <2>1, <2>3, <2>4 DEF memory
<1> QED BY <1>3, <1>4, <1>5

LEMMA FailSound ==
  ASSUME Sound, OneAtATime, NEW r \in Runs, Fail(r), UNCHANGED caller
  PROVE  Sound'
<1>1. UNCHANGED <<caller, bond, requests, journal, backup, files>>
  BY DEF Fail, server, drive
<1>2. CASE /\ run[r].pc \in {"read_journal", "preflight"} \/ run[r].then = "exit_preflight"
           /\ state' = "error" /\ Return(r) /\ UNCHANGED <<mode, pending, op>>
  <2>1. Elsewhere(r) /\ run'[r].pc = "idle" /\ run'[r].then = "none"
    BY <1>2, ReturnMoves, SoundAt
  <2>2. Alive(r) /\ run[r].pc # "waiting" /\ mode = "activation"
    BY <1>2, SoundAt DEF Holds, Restores, Cleans
  <2>3. ASSUME caller = "renderer"
        PROVE  Offered' /\ Committed'
    <3>1. state = "checking" /\ Committed
      BY <1>2, <2>3, SoundAt DEF Follows
    <3> QED BY <1>1, <1>2, <2>2, <3>1 DEF Offered, Committed, Bond
  <2>4. pending' \in Journals \cup {None} /\ op' \in Runs \cup {None}
    BY <1>2, SoundAt DEF Typed
  <2> QED BY <1>1, <1>2, <2>1, <2>2, <2>3, <2>4, IdleKnows, QuietSound
<1>3. CASE /\ run[r].pc \in Steps \ {"idle", "read_journal", "preflight", "write_request", "send",
                                     "waiting", "answered"}
           /\ run[r].then # "exit_preflight"
           /\ EnterRecovery(r)
  <2>1. Alive(r) /\ run[r].pc # "waiting"
    BY <1>3, SoundAt
  <2>2. \/ run[r].pc \in {"discard", "write_bound", "snapshot", "recover"}
        \/ run[r].pc \in Writes \/ run[r].pc \in Restores \/ run[r].pc \in Cleans
    BY <1>3 DEF Steps, Writes, Restores, Cleans
  <2>3. caller = "renderer" => StageOf(pending) \in {"requested", "server_bound"} /\ Known
    <3>1. ASSUME caller = "renderer"
          PROVE  \/ run[r].pc \in Asks \cup {"discard", "write_bound", "snapshot"} \cup Writes
                 \/ run[r].then \in {"write", "exit_run"}
      BY <1>3, <2>2, <3>1, SoundAt DEF Follows, Coroutines
    <3> QED BY <3>1, GivesUp
  <2> QED BY <1>1, <1>3, <2>1, <2>3, RecoverySound
<1> QED BY <1>2, <1>3 DEF Fail

-----------------------------------------------------------------------------
(* finish. *)

\* From one await of finish to a later one.
LEMMA OnwardSound ==
  ASSUME Sound, OneAtATime, NEW r \in Runs, Elsewhere(r), run[r].pc \in {"snapshot"} \cup Writes,
         UNCHANGED <<caller, bond, requests, journal, mode, state, pending, op>>,
         run'[r].pc \in Writes, run'[r].then = run[r].then,
         run'[r].key \in {run[r].key, journal.key}, StageOf(journal) = "server_bound",
         files' \in Contents, backup' \in Whole \cup {None}, files' \notin Whole => backup' # None,
         Holds(r)', run'[r].pc \in {"commit_check", "commit_mark"} => Bond.commit # None
  PROVE  Sound'
<1>1. /\ Alive(r) /\ run[r].pc # "waiting" /\ run[r].key \in Keys /\ journal \in Journals
      /\ run[r].then = "none"
  BY SoundAt, StageIs DEF Writes, Answered, Holds, Restores, Cleans, Typed
<1>2. pending' \in Journals \cup {None} /\ op' \in Runs \cup {None} /\ journal' \in Journals \cup {None}
  BY SoundAt DEF Typed
<1>3. DriveIsRecoverable' /\ Recorded'
  BY SoundAt DEF DriveIsRecoverable, Recorded, BoundForGood, Bond, Whole
<1>4. Answered(r)'
  <2>1. run'[r].key \in Keys
    BY <1>1 DEF Journals
  <2> QED BY <1>1, <2>1 DEF Answered, Writes, Asks, Bond
<1>5. ASSUME caller = "renderer"
      PROVE  Offered' /\ Committed' /\ Follows(r)'
  <2>1. Current(r, "server_bound") /\ pending = journal /\ Committed
    BY <1>5, SoundAt, StageIs DEF Follows, Known
  <2>2. Offered' /\ Committed'
    BY <1>1, <2>1, StageIs DEF Offered, Committed, Bond, Current
  <2>3. Current(r, "server_bound")' /\ journal' = pending'
    BY <2>1 DEF Current
  <2> QED BY <1>1, <2>2, <2>3 DEF Follows, Restores, Cleans, Asks, Writes
<1> QED BY <1>1, <1>2, <1>3, <1>4, <1>5, DriveStepSound DEF Writes

LEMMA SnapshotSound ==
  ASSUME Sound, OneAtATime, NEW r \in Runs, Snapshot(r), UNCHANGED caller
  PROVE  Sound'
<1>1. run[r].pc = "snapshot" /\ Alive(r) /\ UNCHANGED <<caller, bond, requests, journal, backup, files>>
  BY SoundAt DEF Snapshot, server, drive
<1>2. CASE EnterRecovery(r)
  BY <1>1, <1>2, GivesUp, RecoverySound
<1>3. CASE StageOf(journal) = "server_bound"
  <2>1. run' = [run EXCEPT ![r] = [@ EXCEPT !.pc = "write_backup", !.copy = files]] /\ UNCHANGED memory
    BY <1>3 DEF Snapshot
  <2>2. files \in Contents /\ backup = None /\ files \in Whole
    BY <1>1, SoundAt DEF Typed, Holds, DriveIsRecoverable, Whole
  <2>3. Elsewhere(r) /\ Asked(r) /\ run'[r].pc = "write_backup" /\ run'[r].then = run[r].then
        /\ run'[r].copy = files
    BY <2>1, <2>2, SnapshotMoves, SoundAt
  <2>4. Holds(r)'
    BY <1>1, <1>3, <2>2, <2>3, SoundAt DEF Holds, Writes, Restores, Cleans
  <2> QED BY <1>1, <1>3, <2>1, <2>2, <2>3, <2>4, OnwardSound DEF memory, Writes, Asked
<1> QED BY <1>2, <1>3 DEF Snapshot

LEMMA WriteBackupSound ==
  ASSUME Sound, OneAtATime, NEW r \in Runs, WriteBackup(r), UNCHANGED caller
  PROVE  Sound'
<1>1. /\ run[r].pc = "write_backup" /\ backup' = run[r].copy
      /\ run' = [run EXCEPT ![r] = [@ EXCEPT !.pc = "write_file", !.copy = None, !.todo = Files]]
      /\ UNCHANGED <<caller, bond, requests, journal, files, mode, state, pending, op>>
  BY DEF WriteBackup, server, memory
<1>2. "write_file" \in Steps
  BY DEF Steps
<1>3. Elsewhere(r) /\ Asked(r) /\ run'[r].pc = "write_file" /\ run'[r].then = run[r].then
  BY <1>1, <1>2, CopyMoves, SoundAt
<1>4. StageOf(journal) = "server_bound" /\ run[r].copy \in Whole /\ files \in Contents /\ None \notin Whole
  BY <1>1, SoundAt, NoneIsNothing DEF Typed, Holds, Writes, Whole, OldFiles, NewFiles, Contents
<1>5. Holds(r)'
  BY <1>1, <1>3, <1>4, SoundAt DEF Holds, Writes, Restores, Cleans
<1>6. backup' # None /\ backup' \in Whole \cup {None}
  BY <1>1, <1>4
<1> QED BY <1>1, <1>3, <1>4, <1>5, <1>6, OnwardSound DEF Writes, Asked

LEMMA WriteFileSound ==
  ASSUME Sound, OneAtATime, NEW r \in Runs, WriteFile(r), UNCHANGED caller
  PROVE  Sound'
<1> DEFINE f == FileCount + 1 - Cardinality(run[r].todo)
           pc == IF f = FileCount THEN "readback" ELSE "write_file"
<1>1. /\ run[r].pc = "write_file" /\ files' = [files EXCEPT ![f] = "new"]
      /\ run' = [run EXCEPT ![r] = [@ EXCEPT !.todo = run[r].todo \ {f}, !.pc = pc]]
      /\ UNCHANGED <<caller, bond, requests, journal, backup, mode, state, pending, op>>
  BY DEF WriteFile, server, memory
<1>2. pc \in Steps /\ pc \in {"readback", "write_file"}
  BY DEF Steps
<1> HIDE DEF f, pc
<1>3. Elsewhere(r) /\ Asked(r) /\ run'[r].pc = pc /\ run'[r].then = run[r].then
  <2>1. run \in [Runs -> Coroutines]
    BY SoundAt DEF Typed
  <2>2. run[r].todo \ {f} \in SUBSET Files
    BY <2>1 DEF Coroutines
  <2> QED BY ZenonT(60), <1>1, <1>2, <2>1, <2>2 DEF Coroutines, Elsewhere, Asked
<1>4. StageOf(journal) = "server_bound" /\ backup # None /\ backup \in Whole \cup {None} /\ files' \in Contents
  BY <1>1, SoundAt DEF Typed, Holds, Writes, Contents
<1>5. Holds(r)'
  BY <1>1, <1>2, <1>3, <1>4, SoundAt DEF Holds, Writes, Restores, Cleans
<1>6. backup' # None /\ backup' \in Whole \cup {None} /\ pc \in Writes /\ pc \notin {"commit_check", "commit_mark"}
  BY <1>1, <1>2, <1>4 DEF Writes
<1> QED BY <1>1, <1>3, <1>4, <1>5, <1>6, OnwardSound DEF Writes, Asked

\* The two checks of the files that were written.
LEMMA CheckedSound ==
  ASSUME Sound, OneAtATime, NEW r \in Runs, NEW from \in {"readback", "verify"},
         NEW to \in {"verify", "commit_remote"}, run[r].pc = from,
         IF files = NewFiles THEN IfCurrent(r, to) /\ UNCHANGED memory ELSE EnterRecovery(r),
         UNCHANGED <<server, requests, drive>>, UNCHANGED caller
  PROVE  Sound'
<1>1. Alive(r) /\ UNCHANGED <<caller, bond, requests, journal, backup, files>>
  BY SoundAt DEF server, drive
<1>2. CASE EnterRecovery(r)
  BY <1>1, <1>2, GivesUp, RecoverySound DEF Writes
<1>3. CASE files = NewFiles /\ op = r
  <2>1. Goto(r, to) /\ UNCHANGED <<mode, state, pending, op>> /\ to \in Steps
    BY <1>3 DEF IfCurrent, memory, Steps
  <2>2. Elsewhere(r) /\ Asked(r) /\ run'[r].pc = to /\ run'[r].then = run[r].then
    BY <2>1, GotoMoves, SoundAt
  <2>3. StageOf(journal) = "server_bound" /\ files \in Contents /\ backup \in Whole \cup {None}
    BY SoundAt DEF Typed, Holds, Writes
  <2>4. Holds(r)'
    BY <1>1, <1>3, <2>2, <2>3, SoundAt DEF Holds, Writes, Restores, Cleans
  <2>5. files' \in Whole /\ to \in Writes
    BY <1>1, <1>3 DEF Whole, Writes
  <2> QED BY <1>1, <2>1, <2>2, <2>3, <2>4, <2>5, OnwardSound DEF Writes, Asked
<1>4. CASE files = NewFiles /\ op # r
  <2>1. Return(r) /\ UNCHANGED <<mode, state, pending, op>>
    BY <1>4 DEF IfCurrent, memory
  <2>2. Elsewhere(r) /\ run'[r].pc = "idle" /\ run'[r].then = "none"
    BY <2>1, ReturnMoves, SoundAt
  <2>3. caller # "renderer"
    BY <1>4, SoundAt DEF Follows, Current, Writes
  <2>4. pending' \in Journals \cup {None} /\ op' \in Runs \cup {None}
    BY <2>1, SoundAt DEF Typed
  <2> QED BY <1>1, <2>1, <2>2, <2>3, <2>4, IdleKnows, QuietSound
<1> QED BY <1>2, <1>3, <1>4

LEMMA ReadbackSound ==
  ASSUME Sound, OneAtATime, NEW r \in Runs, Readback(r), UNCHANGED caller
  PROVE  Sound'
BY CheckedSound DEF Readback

LEMMA VerifySound ==
  ASSUME Sound, OneAtATime, NEW r \in Runs, Verify(r), UNCHANGED caller
  PROVE  Sound'
BY CheckedSound DEF Verify

LEMMA CommitMoves ==
  ASSUME Typed, NEW k \in Keys, Server!Commit(Code, k)
  PROVE  /\ bond' \in [{Code} -> Server!Bonds] /\ bond'[Code].phase = Bond.phase /\ bond'[Code].commit = k
         /\ BoundForGood /\ Bond.commit \in {None, k} /\ k # None
<1>1. bond \in [{Code} -> Server!Bonds]
  BY DEF Typed
<1> QED BY <1>1, ClientAssumption DEF Server!Commit, Server!Bonds, Bond, BoundForGood

LEMMA CommitRemoteSound ==
  ASSUME Sound, OneAtATime, NEW r \in Runs, CommitRemote(r), UNCHANGED caller
  PROVE  Sound'
<1>1. /\ run[r].pc = "commit_remote" /\ Alive(r) /\ mode = "activation" /\ run[r].key \in Keys
      /\ UNCHANGED <<caller, requests, journal, backup, files>>
  BY SoundAt DEF CommitRemote, drive, Answered, Writes
<1>2. StageOf(journal) = "server_bound" /\ files = NewFiles /\ run[r].then = "none"
  BY <1>1, SoundAt DEF Holds, Writes, Restores, Cleans
<1>3. ASSUME Elsewhere(r), Server!Commit(Code, run[r].key), UNCHANGED <<mode, pending>>,
             op' \in Runs \cup {None}, run'[r].then = "none",
             \/ run'[r].pc = "commit_check" /\ Asked(r) /\ UNCHANGED <<state, op>>
             \/ run'[r].pc = "idle" /\ caller # "renderer" /\ UNCHANGED state
             \/ run'[r].pc = "idle" /\ state' = "recovery"
      PROVE  Sound'
  <2>1. /\ bond' \in [{Code} -> Server!Bonds] /\ bond'[Code].phase = Bond.phase /\ bond'[Code].commit = run[r].key
        /\ BoundForGood /\ Bond.commit \in {None, run[r].key} /\ run[r].key # None
    BY <1>1, <1>3, CommitMoves, SoundAt
  <2>2. Alone(r)
    BY <1>1, <1>3, RestIdle, SoundAt
  <2>3. RestTyped'
    BY <1>1, <1>3, <2>1, SoundAt DEF Typed, RestTyped
  <2>4. DriveIsRecoverable' /\ backup' \in Whole \cup {None}
    BY <1>1, SoundAt DEF DriveIsRecoverable
  <2>5. Holds(r)'
    BY <1>1, <1>2, <1>3 DEF Holds, Writes, Restores, Cleans
  <2>6. Recorded'
    BY <1>1, <2>1, SoundAt DEF Recorded, BoundForGood, Bond
  <2>7. Requested'
    BY <1>1, <1>3, <2>1, RequestsStay, SoundAt DEF Bond
  <2>8. Answered(r)'
    BY <1>1, <1>3, <2>1 DEF Answered, Asks, Writes, Asked, Bond
  <2>9. ASSUME caller = "renderer"
        PROVE  Offered' /\ Committed' /\ Follows(r)'
    <3>1. Current(r, "server_bound") /\ journal = pending /\ Offered
      BY <1>1, <2>9, SoundAt DEF Follows, Writes
    <3>2. Offered'
      BY <1>1, <1>2, <1>3, <3>1, <2>9 DEF Offered, Known
    <3>3. Committed'
      BY <1>1, <1>2, <1>3, <2>1, <3>1 DEF Committed, Bond, Current
    <3>4. Asked(r) /\ UNCHANGED <<state, op>> => Current(r, "server_bound")' /\ journal' = pending'
      BY <1>1, <1>3, <3>1 DEF Current, Asked
    <3>5. Follows(r)'
      BY <1>1, <1>3, <2>9, <3>4 DEF Follows, Restores, Cleans, Asks, Writes
    <3> QED BY <3>2, <3>3, <3>5
  <2>10. (run'[r].pc = "idle" => run'[r].then = "none") /\ mode' = "activation" /\ caller' = caller
    BY <1>1, <1>3
  <2> QED BY <1>3, <2>2, <2>3, <2>4, <2>5, <2>6, <2>7, <2>8, <2>9, <2>10, OneSound
<1>4. CASE Server!Commit(Code, run[r].key) /\ IfCurrent(r, "commit_check") /\ UNCHANGED memory
  <2>1. UNCHANGED <<mode, state, pending, op>> /\ op' \in Runs \cup {None}
    BY <1>4, SoundAt DEF memory, Typed
  <2>2. CASE op = r
    <3>1. Goto(r, "commit_check") /\ "commit_check" \in Steps
      BY <1>4, <2>2 DEF IfCurrent, Steps
    <3>2. Elsewhere(r) /\ Asked(r) /\ run'[r].pc = "commit_check" /\ run'[r].then = run[r].then
      BY <3>1, GotoMoves, SoundAt
    <3> QED BY <1>2, <1>3, <1>4, <2>1, <3>2
  <2>3. CASE op # r
    <3>1. Return(r)
      BY <1>4, <2>3 DEF IfCurrent
    <3>2. Elsewhere(r) /\ run'[r].pc = "idle" /\ run'[r].then = "none"
      BY <3>1, ReturnMoves, SoundAt
    <3>3. caller # "renderer"
      BY <1>1, <2>3, SoundAt DEF Follows, Current, Writes
    <3> QED BY <1>3, <1>4, <2>1, <3>2, <3>3
  <2> QED BY <2>2, <2>3
<1>5. CASE Server!Commit(Code, run[r].key) /\ EnterRecovery(r)
  <2>1. Elsewhere(r) /\ run'[r].pc = "idle" /\ run'[r].then = "none"
    BY <1>5, ReturnMoves, SoundAt DEF EnterRecovery
  <2>2. op' \in Runs \cup {None}
    BY <1>5, SoundAt DEF EnterRecovery, EndOperation, Typed
  <2> QED BY <1>3, <1>5, <2>1, <2>2 DEF EnterRecovery
<1>6. CASE EnterRecovery(r) /\ UNCHANGED bond
  BY <1>1, <1>6, GivesUp, RecoverySound DEF Writes
<1> QED BY <1>4, <1>5, <1>6 DEF CommitRemote

LEMMA CheckCommitSound ==
  ASSUME Sound, OneAtATime, NEW r \in Runs, CheckCommit(r), UNCHANGED caller
  PROVE  Sound'
<1>1. run[r].pc = "commit_check" /\ Alive(r) /\ UNCHANGED <<caller, bond, requests, journal, backup, files>>
  BY SoundAt DEF CheckCommit, server, drive
<1>2. StageOf(journal) = "server_bound" /\ files = NewFiles /\ Bond.commit # None /\ journal \in Journals
  BY <1>1, SoundAt, StageIs DEF Holds, Writes, Answered, Typed
<1>3. CASE EnterRecovery(r)
  BY <1>1, <1>3, GivesUp, RecoverySound DEF Writes
<1>4. CASE /\ run' = [run EXCEPT ![r] = [@ EXCEPT !.pc = "commit_mark", !.key = journal.key]]
           /\ UNCHANGED memory
  <2>1. "commit_mark" \in Steps /\ journal.key \in Keys /\ UNCHANGED <<mode, state, pending, op>>
    BY <1>2, <1>4 DEF Steps, Journals, memory
  <2>2. Elsewhere(r) /\ run'[r].pc = "commit_mark" /\ run'[r].key = journal.key /\ run'[r].then = run[r].then
    BY <1>4, <2>1, KeyMoves, SoundAt
  <2>3. Holds(r)'
    BY <1>1, <1>2, <2>2, SoundAt DEF Holds, Writes, Restores, Cleans
  <2>4. files' \in Contents /\ backup' \in Whole \cup {None} /\ files' \in Whole
    BY <1>1, <1>2, SoundAt DEF Typed, Whole
  <2> QED BY <1>1, <1>2, <2>1, <2>2, <2>3, <2>4, OnwardSound DEF Writes
<1> QED BY <1>2, <1>3, <1>4 DEF CheckCommit

LEMMA MarkCommittedSound ==
  ASSUME Sound, OneAtATime, NEW r \in Runs, MarkCommitted(r), UNCHANGED caller
  PROVE  Sound'
<1>1. /\ run[r].pc = "commit_mark" /\ Alive(r) /\ journal' = [stage |-> "committed", key |-> run[r].key]
      /\ run' = [run EXCEPT ![r] = [@ EXCEPT !.pc = "clean_backup", !.then = "exit_run"]]
      /\ UNCHANGED <<caller, bond, requests, backup, files, mode, state, pending, op>>
  BY SoundAt DEF MarkCommitted, server, memory
<1>2. files = NewFiles /\ Bond.commit # None /\ run[r].key \in Keys /\ BoundForGood
  BY <1>1, SoundAt DEF Holds, Writes, Answered, Recorded
<1>3. "clean_backup" \in Steps
  BY DEF Steps
<1>4. Elsewhere(r) /\ Asked(r) /\ run'[r].pc = "clean_backup" /\ run'[r].then = "exit_run"
  BY <1>1, <1>3, ThenMoves, SoundAt
<1>5. journal' \in Journals /\ StageOf(journal)' = "committed" /\ journal'.key = run[r].key
  BY <1>1, <1>2, StageIs
<1>6. DriveIsRecoverable' /\ Recorded'
  BY <1>1, <1>2, <1>5 DEF DriveIsRecoverable, Recorded, BoundForGood, Bond
<1>7. Holds(r)'
  BY <1>4, <1>5 DEF Holds, Writes, Restores, Cleans
<1>8. Answered(r)'
  BY <1>4 DEF Answered, Asks, Writes
<1>9. ASSUME caller = "renderer"
      PROVE  Offered' /\ Committed' /\ Follows(r)'
  <2>1. Current(r, "server_bound") /\ pending = journal /\ Committed
    BY <1>1, <1>9, SoundAt DEF Follows, Writes
  <2>2. Offered'
    BY <1>1, <2>1 DEF Offered, Current
  <2>3. Committed'
    BY <1>1, <1>5, <2>1, StageIs DEF Committed, Bond, Current
  <2>4. Current(r, "server_bound")' /\ Known'
    BY <1>1, <1>4, <1>5, <2>1 DEF Current, Known, Asked
  <2>5. Follows(r)'
    BY <1>4, <2>4 DEF Follows, Restores, Cleans, Asks, Writes
  <2> QED BY <2>2, <2>3, <2>5
<1>10. /\ files' \in Contents /\ backup' \in Whole \cup {None}
       /\ pending' \in Journals \cup {None} /\ op' \in Runs \cup {None}
  BY <1>1, SoundAt DEF Typed
<1> QED BY <1>1, <1>4, <1>5, <1>6, <1>7, <1>8, <1>9, <1>10, DriveStepSound

-----------------------------------------------------------------------------
(* The journal of a submit. *)

LEMMA WriteRequestSound ==
  ASSUME Sound, OneAtATime, NEW r \in Runs, WriteRequest(r), UNCHANGED caller
  PROVE  Sound'
<1>1. /\ run[r].pc = "write_request" /\ Alive(r) /\ mode = "activation" /\ run[r].key \in Keys
      /\ UNCHANGED <<caller, bond, requests, backup, files, mode>> /\ run[r].then = "none"
      /\ files' \in Contents /\ backup' \in Whole \cup {None}
  BY SoundAt DEF WriteRequest, server, Typed, Answered, Holds, Restores, Cleans
<1>2. caller = "renderer" =>
        /\ op = r /\ state = "busy" /\ pending = None /\ journal = None /\ run[r].from = "requested"
        /\ Bond.commit = None
  BY <1>1, SoundAt, StageIs DEF Follows, Committed
<1>3. CASE /\ journal' = [stage |-> "requested", key |-> run[r].key]
           /\ pending' = (IF op = r THEN journal' ELSE pending)
           /\ IfCurrent(r, "send") /\ UNCHANGED <<state, op>>
  <2>1. journal' \in Journals /\ StageOf(journal)' = "requested" /\ journal'.key = run[r].key
    BY <1>1, <1>3, StageIs
  <2>2. pending' \in Journals \cup {None} /\ op' \in Runs \cup {None}
    BY <1>3, <2>1, SoundAt DEF Typed
  <2>3. DriveIsRecoverable' /\ Recorded'
    BY <1>1, <2>1, SoundAt DEF DriveIsRecoverable, Recorded
  <2>4. caller = "renderer" => Offered' /\ Committed'
    BY <1>1, <1>2, <1>3 DEF Offered, Committed, Bond
  <2>5. CASE op = r
    <3>1. Goto(r, "send") /\ "send" \in Steps
      BY <1>3, <2>5 DEF IfCurrent, Steps
    <3>2. Elsewhere(r) /\ Asked(r) /\ run'[r].pc = "send" /\ run'[r].then = run[r].then
      BY <3>1, GotoMoves, SoundAt
    <3>3. Holds(r)' /\ Answered(r)'
      BY <1>1, <3>2 DEF Holds, Writes, Restores, Cleans, Answered, Asked
    <3>4. caller = "renderer" => Follows(r)'
      BY <1>1, <1>2, <1>3, <2>1, <2>5, <3>2 DEF Follows, Restores, Cleans, Asks, Writes, Current, Known, Asked
    <3> QED BY <1>1, <2>1, <2>2, <2>3, <2>4, <3>2, <3>3, <3>4, DriveStepSound
  <2>6. CASE op # r
    <3>1. Return(r)
      BY <1>3, <2>6 DEF IfCurrent
    <3>2. Elsewhere(r) /\ run'[r].pc = "idle" /\ run'[r].then = "none"
      BY <3>1, ReturnMoves, SoundAt
    <3> QED BY <1>1, <2>1, <2>2, <2>3, <2>4, <3>2, IdleKnows, DriveStepSound
  <2> QED BY <2>5, <2>6
<1>4. CASE state' = "error" /\ EndOperation(r) /\ Return(r) /\ UNCHANGED <<journal, pending>>
  <2>1. Elsewhere(r) /\ run'[r].pc = "idle" /\ run'[r].then = "none"
    BY <1>4, ReturnMoves, SoundAt
  <2>2. pending' \in Journals \cup {None} /\ op' \in Runs \cup {None}
    BY <1>4, SoundAt DEF EndOperation, Typed
  <2>3. caller = "renderer" => Offered' /\ Committed'
    BY <1>1, <1>2, <1>4 DEF Offered, Committed, Bond
  <2> QED BY <1>1, <1>4, <2>1, <2>2, <2>3, IdleKnows, QuietSound
<1> QED BY <1>3, <1>4 DEF WriteRequest

LEMMA DiscardJournalSound ==
  ASSUME Sound, OneAtATime, NEW r \in Runs, DiscardJournal(r), UNCHANGED caller
  PROVE  Sound'
<1>1. /\ run[r].pc = "discard" /\ Alive(r) /\ mode = "activation"
      /\ journal' = None /\ pending' = None /\ state' = "error" /\ EndOperation(r) /\ Return(r)
      /\ UNCHANGED <<caller, bond, requests, backup, files, mode>>
      /\ files' \in Contents /\ backup' \in Whole \cup {None}
  BY SoundAt DEF DiscardJournal, server, Typed
<1>2. Elsewhere(r) /\ run'[r].pc = "idle" /\ run'[r].then = "none" /\ op' \in Runs \cup {None}
  BY <1>1, ReturnMoves, SoundAt DEF EndOperation, Typed
<1>3. DriveIsRecoverable' /\ Recorded'
  BY <1>1, SoundAt, StageIs DEF DriveIsRecoverable, Recorded
<1>4. caller = "renderer" => Offered' /\ Committed'
  BY <1>1, SoundAt, StageIs DEF Follows, Current, Offered, Committed, Bond
<1> QED BY <1>1, <1>2, <1>3, <1>4, IdleKnows, DriveStepSound

LEMMA WriteBoundSound ==
  ASSUME Sound, OneAtATime, NEW r \in Runs, WriteBound(r), UNCHANGED caller
  PROVE  Sound'
<1>1. /\ run[r].pc = "write_bound" /\ Alive(r) /\ run[r].key \in Keys /\ BoundForGood
      /\ journal' = [stage |-> "server_bound", key |-> run[r].key]
      /\ UNCHANGED <<caller, bond, requests, backup, files, mode, state, op>>
      /\ files' \in Contents /\ backup' \in Whole \cup {None} /\ op' \in Runs \cup {None}
  BY SoundAt DEF WriteBound, server, Typed, Answered
<1>2. journal' \in Journals /\ StageOf(journal)' = "server_bound" /\ journal'.key = run[r].key
  BY <1>1, StageIs
<1>3. DriveIsRecoverable' /\ Recorded'
  BY <1>1, <1>2, SoundAt DEF DriveIsRecoverable, Recorded, BoundForGood, Bond
<1>4. caller = "renderer" => Current(r, "requested") /\ journal = pending /\ Bond.commit = None
  BY <1>1, SoundAt, StageIs DEF Follows, Current, Committed
<1>5. caller = "renderer" => Offered' /\ Committed'
  BY <1>1, <1>4 DEF Offered, Committed, Bond, Current
<1>6. CASE op = r
  <2>1. /\ pending' = journal' /\ "recover" \in Steps
        /\ run' = [run EXCEPT ![r] = [@ EXCEPT !.pc = "recover", !.then = "write"]]
    BY <1>6 DEF WriteBound, Steps
  <2>2. Elsewhere(r) /\ Asked(r) /\ run'[r].pc = "recover" /\ run'[r].then = "write"
    BY <2>1, ThenMoves, SoundAt
  <2>3. Holds(r)' /\ Answered(r)'
    BY <1>1, <2>2 DEF Holds, Writes, Restores, Cleans, Answered, Asks, Asked
  <2>4. caller = "renderer" => Follows(r)'
    BY <1>1, <1>2, <1>4, <1>6, <2>1, <2>2 DEF Follows, Restores, Cleans, Asks, Writes, Current, Known, Asked
  <2> QED BY <1>1, <1>2, <1>3, <1>5, <2>1, <2>2, <2>3, <2>4, DriveStepSound
<1>7. CASE op # r
  <2>1. Return(r) /\ UNCHANGED pending
    BY <1>7 DEF WriteBound
  <2>2. Elsewhere(r) /\ run'[r].pc = "idle" /\ run'[r].then = "none" /\ pending' \in Journals \cup {None}
    BY <2>1, ReturnMoves, SoundAt DEF Typed
  <2> QED BY <1>1, <1>2, <1>3, <1>5, <2>2, IdleKnows, DriveStepSound
<1> QED BY <1>6, <1>7

-----------------------------------------------------------------------------
(* recoverPendingArtifacts. *)

LEMMA RestoreFileSound ==
  ASSUME Sound, OneAtATime, NEW r \in Runs, RestoreFile(r), UNCHANGED caller
  PROVE  Sound'
<1>1. PICK f \in run[r].todo :
        /\ files' = [files EXCEPT ![f] = run[r].copy[f]]
        /\ run' = [run EXCEPT ![r] = [@ EXCEPT !.todo = run[r].todo \ {f},
                                              !.pc = IF run[r].todo = {f} THEN "drop_backup" ELSE "restore"]]
  BY DEF RestoreFile
<1> DEFINE pc == IF run[r].todo = {f} THEN "drop_backup" ELSE "restore"
<1>2. /\ run[r].pc = "restore" /\ Alive(r) /\ mode = "activation"
      /\ UNCHANGED <<caller, bond, requests, journal, backup, mode, state, pending, op>>
  BY SoundAt DEF RestoreFile, server, memory
<1>3. /\ run \in [Runs -> Coroutines] /\ run[r].todo \in SUBSET Files /\ f \in Files
      /\ files \in Contents /\ run[r].copy \in Whole
  BY <1>2, SoundAt DEF Typed, Coroutines, Holds
<1>4. run[r].copy \in Contents
  BY <1>3 DEF Whole, OldFiles, NewFiles, Contents
<1>5. pc \in Steps
  BY DEF Steps
<1>6. /\ Elsewhere(r) /\ Asked(r) /\ run'[r].pc = pc /\ run'[r].then = run[r].then
      /\ run'[r].copy = run[r].copy /\ run'[r].todo = run[r].todo \ {f}
  BY ZenonT(60), <1>1, <1>5, TodoMoves, SoundAt
<1>7. /\ files' \in Contents /\ \A g \in Files \ (run[r].todo \ {f}) : files'[g] = run[r].copy[g]
  BY <1>1, <1>2, <1>3, <1>4, SoundAt DEF Contents, Holds
<1>8. run[r].todo = {f} => files' \in Whole
  BY <1>3, <1>4, <1>7 DEF Contents
<1>9. StageOf(journal) # "committed" /\ backup # None /\ backup' \in Whole \cup {None}
  BY <1>2, SoundAt DEF Holds, Restores
<1>10. DriveIsRecoverable' /\ Recorded'
  BY <1>2, <1>9, SoundAt DEF DriveIsRecoverable, Recorded, BoundForGood, Bond
<1>11. Holds(r)'
  BY <1>2, <1>3, <1>6, <1>7, <1>8, <1>9, SoundAt DEF Holds, Writes, Restores, Cleans
<1>12. Answered(r)'
  BY <1>2, <1>6, SoundAt DEF Answered, Asks, Writes, Asked
<1>13. ASSUME caller = "renderer"
       PROVE  Offered' /\ Committed' /\ Follows(r)'
  <2>1. Follows(r) /\ Offered /\ Committed
    BY <1>13, SoundAt
  <2>2. Offered' /\ Committed'
    BY <1>2, <1>9, <2>1 DEF Offered, Committed, Bond, Known
  <2>3. run[r].then = "write" => Current(r, "server_bound")' /\ Known'
    BY <1>2, <1>6, <2>1 DEF Follows, Current, Known, Asked
  <2>4. Follows(r)'
    BY <1>2, <1>6, <2>1, <2>3 DEF Follows, Restores, Cleans, Asks, Writes
  <2> QED BY <2>2, <2>4
<1>14. journal' \in Journals \cup {None} /\ pending' \in Journals \cup {None} /\ op' \in Runs \cup {None}
       /\ run'[r].pc # "idle"
  BY <1>2, <1>6, SoundAt DEF Typed
<1> QED BY <1>2, <1>6, <1>7, <1>9, <1>10, <1>11, <1>12, <1>13, <1>14, DriveStepSound

LEMMA DropBackupSound ==
  ASSUME Sound, OneAtATime, NEW r \in Runs, DropBackup(r), UNCHANGED caller
  PROVE  Sound'
BY SoundAt, ContinueSound DEF DropBackup, server, Holds

LEMMA CleanBackupSound ==
  ASSUME Sound, OneAtATime, NEW r \in Runs, CleanBackup(r), UNCHANGED caller
  PROVE  Sound'
<1>1. /\ run[r].pc = "clean_backup" /\ Alive(r) /\ backup' = None /\ Goto(r, "clean_journal")
      /\ UNCHANGED <<caller, bond, requests, journal, files, mode, state, pending, op>>
  BY SoundAt DEF CleanBackup, server, memory
<1>2. StageOf(journal) = "committed" /\ files = NewFiles /\ "clean_journal" \in Steps
  BY <1>1, SoundAt DEF Holds, Cleans, DriveIsRecoverable, Steps
<1>3. Elsewhere(r) /\ Asked(r) /\ run'[r].pc = "clean_journal" /\ run'[r].then = run[r].then
  BY <1>1, <1>2, GotoMoves, SoundAt
<1>4. DriveIsRecoverable' /\ Recorded'
  BY <1>1, <1>2, SoundAt DEF DriveIsRecoverable, Recorded, BoundForGood, Bond
<1>5. Holds(r)' /\ Answered(r)'
  BY <1>1, <1>2, <1>3, SoundAt DEF Holds, Writes, Restores, Cleans, Answered, Asks, Asked
<1>6. ASSUME caller = "renderer"
      PROVE  Offered' /\ Committed' /\ Follows(r)'
  <2>1. Follows(r) /\ Offered /\ Committed
    BY <1>6, SoundAt
  <2>2. Offered' /\ Committed'
    BY <1>1, <2>1 DEF Offered, Committed, Bond, Known
  <2>3. run[r].then \in {"write", "exit_run"} => Current(r, "server_bound")' /\ Known'
    BY <1>1, <1>3, <2>1 DEF Follows, Current, Known, Asked
  <2>4. Follows(r)'
    BY <1>1, <1>3, <2>1, <2>3 DEF Follows, Restores, Cleans, Asks, Writes
  <2> QED BY <2>2, <2>4
<1>7. /\ files' \in Contents /\ backup' \in Whole \cup {None} /\ pending' \in Journals \cup {None}
      /\ journal' \in Journals \cup {None} /\ op' \in Runs \cup {None}
  BY <1>1, SoundAt DEF Typed
<1> QED BY <1>1, <1>3, <1>4, <1>5, <1>6, <1>7, DriveStepSound

LEMMA CleanJournalSound ==
  ASSUME Sound, OneAtATime, NEW r \in Runs, CleanJournal(r), UNCHANGED caller
  PROVE  Sound'
<1>1. /\ run[r].pc = "clean_journal" /\ journal' = None /\ Continue(r)
      /\ UNCHANGED <<caller, bond, backup, files>>
  BY DEF CleanJournal, server
<1>2. StageOf(journal) = "committed" /\ files \in Whole /\ backup' = None
  BY <1>1, SoundAt DEF Holds, Cleans, DriveIsRecoverable, Whole
<1> QED BY <1>1, <1>2, ContinueSound

-----------------------------------------------------------------------------
(* The server, and a request on its way.                                    *)

\* What a step of the server or of an operator may do to the bond.
Onward ==
  /\ bond' \in [{Code} -> Server!Bonds]
  /\ BoundForGood => bond'[Code].phase \notin {"free", "pending"}
  /\ Bond.phase # "free" => bond'[Code].phase # "free"
  /\ bond'[Code].commit = Bond.commit \/ (~BoundForGood /\ bond'[Code].commit = None)

LEMMA RecordedOnward ==
  ASSUME Sound, Onward, UNCHANGED journal
  PROVE  Recorded'
BY DEF Sound, ServerSound, Recorded, Onward, BoundForGood, Bond

LEMMA CommittedOnward ==
  ASSUME Committed, Onward, UNCHANGED <<journal, backup, files, mode, state, pending>>
  PROVE  Committed'
BY DEF Committed, Onward, Bond

LEMMA AnsweredOnward ==
  ASSUME Sound, Onward, NEW r \in Runs, UNCHANGED run
  PROVE  Answered(r)'
<1>1. run[r].pc \in {"commit_check", "commit_mark"} => BoundForGood
  BY SoundAt DEF Holds, Writes, Recorded
<1> QED BY <1>1, SoundAt DEF Answered, Onward, BoundForGood, Bond

\* A step in which no coroutine moves and the drive keeps what it has.
LEMMA UnmovedSound ==
  ASSUME Sound, Onward, UNCHANGED <<caller, journal, backup, files, mode, pending, run>>,
         requests' \subseteq Requests, Requested', op' \in {op, None},
         caller = "renderer" => UNCHANGED <<state, op>>
  PROVE  Sound'
<1>1. Typed'
  BY DEF Sound, Typed, Onward
<1>2. Lives'
  BY DEF Sound, Lives
<1>3. DriveSound'
  BY DEF Sound, DriveSound, DriveIsRecoverable, Holds, Whole, OldFiles, NewFiles
<1>4. ServerSound'
  BY RecordedOnward, AnsweredOnward DEF ServerSound
<1>5. ASSUME caller = "renderer"
      PROVE  RendererSound'
  <2>1. RendererSound /\ UNCHANGED <<state, op>>
    BY <1>5 DEF Sound
  <2>2. Committed'
    BY <2>1, CommittedOnward DEF RendererSound
  <2>3. Offered' /\ \A r \in Runs : Follows(r)'
    BY <2>1 DEF RendererSound, Offered, Known, Follows, Current
  <2> QED BY <2>2, <2>3 DEF RendererSound
<1> QED BY <1>1, <1>2, <1>3, <1>4, <1>5 DEF Sound

LEMMA BondStays ==
  ASSUME Sound, UNCHANGED bond
  PROVE  Onward
BY DEF Sound, Typed, Onward, BoundForGood, Bond

\* A run that waits for the server, or stops doing so.
LEMMA AskingSound ==
  ASSUME Sound, OneAtATime, Onward, NEW r \in Runs, Elsewhere(r), Asked(r),
         run[r].pc \in {"send", "waiting"}, run'[r].pc \in Asks, run'[r].then = run[r].then,
         UNCHANGED <<caller, journal, backup, files, mode, pending>>,
         requests' \subseteq Requests, Requested', op' \in {op, None},
         run'[r].pc = "answered" /\ run'[r].answer = "ok" => bond'[Code].phase \notin {"free", "pending"},
         caller = "renderer" => UNCHANGED <<state, op>>
  PROVE  Sound'
<1>1. Alone(r) /\ mode = "activation" /\ run[r].then = "none" /\ run[r].key \in Keys
  BY RestIdle, SoundAt DEF Holds, Restores, Cleans, Answered, Asks
<1>2. RestTyped'
  BY SoundAt DEF Typed, RestTyped, Onward
<1>3. DriveIsRecoverable' /\ backup' \in Whole \cup {None}
  BY SoundAt DEF DriveIsRecoverable, Whole
<1>4. Holds(r)' /\ Answered(r)'
  BY <1>1 DEF Holds, Writes, Restores, Cleans, Answered, Asks, Asked, BoundForGood, Bond
<1>5. Recorded'
  BY RecordedOnward
<1>6. ASSUME caller = "renderer"
      PROVE  Offered' /\ Committed' /\ Follows(r)'
  <2>1. /\ UNCHANGED <<state, op>> /\ Offered /\ Committed
        /\ Current(r, run[r].from) /\ run[r].from \in {"requested", "server_bound"} /\ Known
    BY <1>6, SoundAt DEF Follows, Asks
  <2>2. Offered' /\ Committed'
    BY <2>1, CommittedOnward DEF Offered, Known
  <2>3. Current(r, run[r].from)' /\ run'[r].from \in {"requested", "server_bound"} /\ Known'
    BY <2>1 DEF Current, Known, Asked
  <2>4. Follows(r)'
    BY <1>1, <2>3 DEF Follows, Restores, Cleans, Asks, Writes
  <2> QED BY <2>2, <2>4
<1>7. run'[r].pc # "idle" /\ mode' = "activation"
  BY <1>1 DEF Asks
<1> QED BY <1>1, <1>2, <1>3, <1>4, <1>5, <1>6, <1>7, OneSound

LEMMA SendSound ==
  ASSUME Sound, OneAtATime, NEW r \in Runs, Send(r), UNCHANGED caller
  PROVE  Sound'
<1> DEFINE q == [key |-> run[r].key, run |-> r, at |-> "sent"]
<1>1. /\ run[r].pc = "send" /\ requests' = requests \cup {q} /\ run[r].key \in Keys
      /\ run' = [run EXCEPT ![r] = [@ EXCEPT !.pc = "waiting", !.tries = run[r].tries + 1]]
      /\ UNCHANGED <<caller, bond, journal, backup, files, mode, state, pending, op>>
  BY SoundAt DEF Send, server, drive, memory, Answered, Asks
<1>2. Elsewhere(r) /\ Asked(r) /\ run'[r].pc = "waiting" /\ run'[r].then = run[r].then
  BY <1>1, TriesMoves, SoundAt
<1>3. q \in Requests /\ q.run = r /\ q.at = "sent"
  BY <1>1 DEF Requests
<1>4. Requested'
  <2>1. \A p \in requests : p \in Requests /\ p.run # r /\ (p.run # None => run[p.run].pc = "waiting")
    BY <1>1, SoundAt, ClientAssumption DEF Typed, Requested
  <2>2. \A p \in requests' : p.run # None => run'[p.run].pc = "waiting"
    BY <1>1, <1>2, <1>3, <2>1 DEF Elsewhere, Requests
  <2>3. \A p1, p2 \in requests' : p1.run = p2.run /\ p1.run # None => p1 = p2
    <3> HIDE DEF q
    <3> QED BY <1>1, <1>3, <2>1, SoundAt DEF Requested
  <2>4. \A p \in requests' : p.at = "working" => bond'[Code].phase # "free"
    <3> HIDE DEF q
    <3> QED BY <1>1, <1>3, SoundAt DEF Requested, Bond
  <2> QED BY <2>2, <2>3, <2>4 DEF Requested, Bond
<1>5. Onward /\ requests' \subseteq Requests
  BY <1>1, <1>3, BondStays, SoundAt DEF Typed
<1> QED BY <1>1, <1>2, <1>4, <1>5, AskingSound DEF Asks

\* What Orphan leaves of the requests of r, when r waits no more.
LEMMA OrphanRequested ==
  ASSUME Sound, NEW r \in Runs, Elsewhere(r), requests' = Orphan({r}), UNCHANGED bond
  PROVE  Requested' /\ requests' \subseteq Requests
<1>1. requests' \subseteq Requests
  BY OrphansTyped, SoundAt
<1>2. ASSUME NEW p \in requests'
      PROVE  /\ p.run # None => p \in requests /\ p.run \in Runs /\ p.run # r
             /\ \E q \in requests : p.at = q.at
  <2>1. PICK q \in requests : p = IF q.run \in {r} THEN [q EXCEPT !.run = None] ELSE q
    BY <1>2 DEF Orphan
  <2>2. q \in Requests
    BY SoundAt DEF Typed
  <2> QED BY <2>1, <2>2 DEF Requests
<1>3. \A p \in requests' : p.run # None => run'[p.run].pc = "waiting"
  BY <1>2, SoundAt DEF Requested, Elsewhere
<1>4. \A p, q \in requests' : p.run = q.run /\ p.run # None => p = q
  BY <1>2, SoundAt DEF Requested
<1>5. \A p \in requests' : p.at = "working" => bond'[Code].phase # "free"
  BY <1>2, SoundAt DEF Requested, Bond
<1> QED BY <1>1, <1>3, <1>4, <1>5 DEF Requested, Bond

LEMMA GiveUpSound ==
  ASSUME Sound, OneAtATime, NEW r \in Runs, GiveUp(r), UNCHANGED caller
  PROVE  Sound'
<1>1. /\ run[r].pc = "waiting" /\ requests' = Orphan({r})
      /\ run' = [run EXCEPT ![r] = [@ EXCEPT !.pc = "answered", !.answer = "unknown"]]
      /\ UNCHANGED <<caller, bond, journal, backup, files, mode, state, pending, op>>
  BY DEF GiveUp, server, drive, memory
<1>2. Elsewhere(r) /\ Asked(r) /\ run'[r].pc = "answered" /\ run'[r].then = run[r].then /\ run'[r].answer = "unknown"
  BY <1>1, AnswerMoves, SoundAt
<1>3. Requested' /\ requests' \subseteq Requests /\ Onward
  BY <1>1, <1>2, OrphanRequested, BondStays
<1> QED BY <1>1, <1>2, <1>3, AskingSound DEF Asks

LEMMA AnswerSound ==
  ASSUME Sound, OneAtATime, Onward, NEW q \in requests, NEW a \in {"ok", "refused", "unknown"},
         NEW retryable \in BOOLEAN, Answer(q, a, retryable), UNCHANGED <<caller, drive, memory>>,
         a = "ok" => bond'[Code].phase \notin {"free", "pending"}
  PROVE  Sound'
<1>1. /\ requests' = requests \ {q} /\ q \in Requests /\ requests' \subseteq Requests
      /\ UNCHANGED <<caller, journal, backup, files, mode, state, pending, op>>
  BY SoundAt DEF Answer, drive, memory, Sound, Typed
<1>2. /\ \A p \in requests' : p.at = "working" => bond'[Code].phase # "free"
      /\ \A p1, p2 \in requests' : p1.run = p2.run /\ p1.run # None => p1 = p2
  BY <1>1 DEF Sound, ServerSound, Requested, Onward
<1>3. CASE q.run = None
  <2>1. UNCHANGED run
    BY <1>3 DEF Answer
  <2>2. Requested'
    BY <1>1, <1>2, <2>1 DEF Sound, ServerSound, Requested, Bond
  <2> QED BY <1>1, <2>1, <2>2, UnmovedSound
<1>4. CASE q.run # None
  <2> DEFINE r == q.run
  <2>1. r \in Runs /\ run[r].pc = "waiting"
    BY <1>1, <1>4 DEF Requests, Sound, ServerSound, Requested
  <2>2. /\ Elsewhere(r) /\ Asked(r) /\ run'[r].then = run[r].then
        /\ run'[r].pc = "send" \/ (run'[r].pc = "answered" /\ run'[r].answer = a)
    <3>1. CASE retryable /\ run[r].tries < 2
      <4>1. Goto(r, "send") /\ "send" \in Steps
        BY <1>4, <3>1 DEF Answer, Steps
      <4> QED BY <2>1, <4>1, GotoMoves, SoundAt
    <3>2. CASE ~(retryable /\ run[r].tries < 2)
      <4>1. run' = [run EXCEPT ![r] = [@ EXCEPT !.pc = "answered", !.answer = a]]
        BY <1>4, <3>2 DEF Answer
      <4> QED BY <2>1, <4>1, AnswerMoves, SoundAt
    <3> QED BY <3>1, <3>2
  <2>3. \A p \in requests' : p.run # None => p.run \in Runs /\ p.run # r /\ run[p.run].pc = "waiting"
    BY <1>1, <1>4 DEF Sound, ServerSound, Requested, Typed, Requests
  <2>4. \A p \in requests' : p.run # None => run'[p.run].pc = "waiting"
    BY <2>2, <2>3 DEF Elsewhere
  <2>5. Requested'
    BY <1>2, <2>4 DEF Requested, Bond
  <2>6. run'[r].pc \in Asks
    BY <2>2 DEF Asks
  <2> HIDE DEF r
  <2> QED BY <1>1, <2>1, <2>2, <2>5, <2>6, AskingSound
<1> QED BY <1>3, <1>4

\* A request the server has bound the code for, or has taken over.
LEMMA WorkSound ==
  ASSUME Sound, Onward, NEW q \in requests, Work(q), bond'[Code].phase # "free", UNCHANGED <<caller, drive, memory>>
  PROVE  Sound'
<1> DEFINE w == [q EXCEPT !.at = "working"]
<1>1. /\ requests' = (requests \ {q}) \cup {w} /\ q \in Requests
      /\ UNCHANGED <<caller, journal, backup, files, mode, state, pending, op, run>>
  BY DEF Work, drive, memory, Sound, Typed
<1>2. w \in Requests /\ w.run = q.run
  BY <1>1 DEF Requests
<1> HIDE DEF w
<1>3. \A p \in requests' : p.run # None => run'[p.run].pc = "waiting"
  BY <1>1, <1>2 DEF Sound, ServerSound, Requested
<1>4. \A p1, p2 \in requests' : p1.run = p2.run /\ p1.run # None => p1 = p2
  BY <1>1, <1>2 DEF Sound, ServerSound, Requested
<1>5. Requested' /\ requests' \subseteq Requests
  BY <1>1, <1>2, <1>3, <1>4 DEF Requested, Bond, Sound, Typed
<1> QED BY <1>1, <1>5, UnmovedSound

LEMMA MoveOnward ==
  ASSUME Sound, NEW from \in SUBSET {"pending", "active", "suspended"}, NEW to \in {"active", "suspended", "ended"},
         Server!Move(Code, from, to)
  PROVE  Onward /\ bond'[Code].phase = to
<1>1. bond \in [{Code} -> Server!Bonds]
  BY DEF Sound, Typed
<1> QED BY <1>1 DEF Server!Move, Server!Bonds, Onward, BoundForGood, Bond

LEMMA AcceptSound ==
  ASSUME Sound, OneAtATime, NEW q \in requests, Accept(q), UNCHANGED caller
  PROVE  Sound'
<1>1. UNCHANGED <<caller, drive, memory>> /\ bond \in [{Code} -> Server!Bonds] /\ q.key \in Keys
  BY DEF Accept, Sound, Typed, Requests
<1>2. CASE BindCode(q)
  <2>1. Onward /\ bond'[Code].phase = "pending"
    BY <1>1, <1>2 DEF BindCode, Server!Bind, Server!Bonds, Onward, BoundForGood, Bond
  <2> QED BY <1>1, <1>2, <2>1, WorkSound DEF BindCode
<1>3. CASE TakeOver(q)
  <2>1. Onward /\ bond'[Code].phase = "pending"
    BY <1>3, BondStays DEF TakeOver, Bond
  <2> QED BY <1>1, <1>3, <2>1, WorkSound DEF TakeOver
<1>4. CASE InProgress(q)
  BY <1>1, <1>4, BondStays, AnswerSound DEF InProgress, server
<1>5. CASE Recovered(q)
  BY <1>1, <1>5, BondStays, AnswerSound DEF Recovered, server, Bond
<1>6. CASE AlreadyBound(q)
  BY <1>1, <1>6, BondStays, AnswerSound DEF AlreadyBound, server
<1>7. CASE Unavailable(q)
  BY <1>1, <1>7, BondStays, AnswerSound DEF Unavailable, server
<1> QED BY <1>2, <1>3, <1>4, <1>5, <1>6, <1>7 DEF Accept

LEMMA CompleteSound ==
  ASSUME Sound, OneAtATime, NEW q \in requests, Complete(q), UNCHANGED caller
  PROVE  Sound'
<1>1. UNCHANGED <<caller, drive, memory>> /\ q.at = "working" /\ Answer(q, "ok", FALSE)
  BY DEF Complete
<1>2. Bond.phase # "free"
  BY <1>1 DEF Sound, ServerSound, Requested
<1>3. CASE Server!Activate(Code)
  <2>1. Onward /\ bond'[Code].phase = "active"
    BY <1>3, MoveOnward DEF Server!Activate
  <2> QED BY <1>1, <2>1, AnswerSound
<1>4. CASE Bond.phase # "pending" /\ UNCHANGED server
  <2>1. Onward /\ bond'[Code].phase \notin {"free", "pending"}
    BY <1>2, <1>4, BondStays DEF server, Bond
  <2> QED BY <1>1, <2>1, AnswerSound
<1> QED BY <1>3, <1>4 DEF Complete

LEMMA DropSound ==
  ASSUME Sound, OneAtATime, NEW q \in requests, Drop(q), UNCHANGED caller
  PROVE  Sound'
<1>1. UNCHANGED <<caller, drive, memory>> /\ Onward
  BY BondStays DEF Drop, server
<1> QED BY <1>1, AnswerSound DEF Drop

LEMMA OthersSound ==
  ASSUME Sound, LeaseExpires \/ Operate, UNCHANGED caller
  PROVE  Sound'
<1>1. /\ UNCHANGED <<caller, journal, backup, files, mode, state, pending, op, run, requests>>
      /\ requests' \subseteq Requests
  BY DEF LeaseExpires, Operate, drive, memory, Sound, Typed
<1>2. Onward
  <2>1. CASE LeaseExpires
    BY <2>1, BondStays DEF LeaseExpires
  <2>2. CASE Operate
    BY <2>2, MoveOnward DEF Operate, Server!Suspend, Server!Resume, Server!End
  <2> QED BY <2>1, <2>2
<1>3. Requested'
  BY <1>1, <1>2 DEF Sound, ServerSound, Requested, Onward, Bond
<1> QED BY <1>1, <1>2, <1>3, UnmovedSound

-----------------------------------------------------------------------------
(* The process, the user and the launcher. *)

\* Outside the activation mode nothing runs, and nothing is remembered.
LEMMA NobodySound ==
  ASSUME Sound, mode # "activation", UNCHANGED <<caller, bond, requests, journal, backup, files, pending, op, run>>,
         caller = "renderer" => Offered' /\ Committed'
  PROVE  Sound'
<1>1. /\ pending = None /\ op = None
      /\ \A r \in Runs : run[r].pc = "idle" /\ run[r].then = "none"
  BY DEF Sound, Lives
<1>2. Typed' /\ Lives'
  BY <1>1 DEF Sound, Typed, Lives
<1>3. \A r \in Runs : Holds(r)' /\ Answered(r)' /\ Follows(r)'
  BY <1>1, IdleKnows
<1>4. DriveSound'
  BY <1>3 DEF Sound, DriveSound, DriveIsRecoverable, Whole, OldFiles, NewFiles
<1>5. ServerSound'
  BY <1>3 DEF Sound, ServerSound, Requested, Recorded, BoundForGood, Bond
<1> QED BY <1>2, <1>3, <1>4, <1>5 DEF Sound, RendererSound

LEMMA BootSound ==
  ASSUME Sound, Boot, UNCHANGED caller
  PROVE  Sound'
<1>1. /\ mode = "off" /\ state' = "checking"
      /\ UNCHANGED <<caller, bond, requests, journal, backup, files, pending, op, run>>
  BY DEF Boot, server, drive
<1>2. files = NewFiles => mode' = "normal"
  BY ClientAssumption DEF Boot, NewFiles, Files
<1>3. caller = "renderer" => Offered' /\ Committed'
  BY <1>1, <1>2 DEF Sound, RendererSound, Offered, Committed, Bond
<1> QED BY <1>1, <1>3, NobodySound

LEMMA QuitSound ==
  ASSUME Sound, Quit, UNCHANGED caller
  PROVE  Sound'
<1>1. /\ mode # "activation" /\ mode' = "off"
      /\ UNCHANGED <<caller, bond, requests, journal, backup, files, state, pending, op, run>>
  BY DEF Quit, server, drive
<1>2. caller = "renderer" => Offered' /\ Committed'
  BY <1>1 DEF Sound, RendererSound, Offered, Committed, Bond
<1> QED BY <1>1, <1>2, NobodySound

LEMMA StopSound ==
  ASSUME Sound, Stop, UNCHANGED caller
  PROVE  Sound'
<1>1. Die("checking") /\ mode' = "off" /\ UNCHANGED <<caller, bond, journal, backup, files>>
  BY DEF Stop, Die, server, drive
<1>2. /\ DriveIsRecoverable' /\ backup' \in Whole \cup {None} /\ Recorded'
      /\ journal' \in Journals \cup {None} /\ backup' \in Contents \cup {None} /\ files' \in Contents
  BY <1>1 DEF Sound, Typed, DriveSound, DriveIsRecoverable, ServerSound, Recorded, BoundForGood, Bond
<1>3. caller = "renderer" => Committed'
  BY <1>1 DEF Sound, RendererSound, Committed, Bond
<1> QED BY <1>1, <1>2, <1>3, DieSound

LEMMA CancelSound ==
  ASSUME Sound, OneAtATime, Cancel, UNCHANGED caller
  PROVE  Sound'
<1>1. /\ caller = "anyone" /\ mode = "activation" /\ Onward
      /\ UNCHANGED <<caller, bond, journal, backup, files, mode, pending>>
  BY BondStays DEF Cancel, server, drive
<1>2. CASE UNCHANGED <<run, requests>> /\ op' \in {op, None}
  <2>1. Requested' /\ requests' \subseteq Requests
    BY <1>1, <1>2 DEF Sound, ServerSound, Requested, Bond, Typed
  <2> QED BY <1>1, <1>2, <2>1, UnmovedSound
<1>3. CASE /\ op # None /\ op' = None /\ run[op].pc \in {"send", "waiting"}
           /\ run' = [run EXCEPT ![op] = [@ EXCEPT !.pc = "answered", !.answer = "unknown"]]
           /\ requests' = Orphan({op})
  <2>1. op \in Runs /\ Typed
    BY <1>3 DEF Sound, Typed
  <2>2. /\ Elsewhere(op) /\ Asked(op) /\ run'[op].pc = "answered" /\ run'[op].then = run[op].then
        /\ run'[op].answer = "unknown"
    BY <1>3, <2>1, AnswerMoves
  <2>3. Requested' /\ requests' \subseteq Requests
    BY <1>1, <1>3, <2>1, <2>2, OrphanRequested
  <2> QED BY <1>1, <1>3, <2>1, <2>2, <2>3, AskingSound DEF Asks
<1> QED BY <1>2, <1>3 DEF Cancel

\* A coroutine that begins, in a process where nothing else runs.
LEMMA BeginSound ==
  ASSUME Sound, OneAtATime', NEW r \in Runs, Elsewhere(r), run[r].pc = "idle", run'[r].pc # "idle",
         UNCHANGED <<caller, bond, requests, journal, backup, files, mode, pending>>, mode = "activation",
         op' \in Runs \cup {None}, Holds(r)', Answered(r)',
         caller = "renderer" => Offered' /\ Committed' /\ Follows(r)'
  PROVE  Sound'
<1>1. Alone(r)
  BY RestIdleAfter, SoundAt
<1>2. RestTyped'
  BY SoundAt DEF Typed, RestTyped
<1>3. DriveIsRecoverable' /\ backup' \in Whole \cup {None} /\ Recorded'
  BY SoundAt DEF DriveIsRecoverable, Recorded, BoundForGood, Bond
<1>4. Requested'
  BY RequestsStay, SoundAt
<1> QED BY <1>1, <1>2, <1>3, <1>4, OneSound

LEMMA PreflightSound ==
  ASSUME Sound, OneAtATime', NEW r \in Runs, Preflight(r), UNCHANGED caller
  PROVE  Sound'
<1>1. /\ mode = "activation" /\ run[r].pc = "idle" /\ state' = "checking" /\ Goto(r, "read_journal")
      /\ caller = "anyone" \/ state \in {"checking", "error"}
      /\ run[r].then = "none"
      /\ UNCHANGED <<caller, bond, requests, journal, backup, files, mode, pending, op>>
  BY SoundAt DEF Preflight, server, drive, Lives
<1>2. "read_journal" \in Steps
  BY DEF Steps
<1>3. Elsewhere(r) /\ run'[r].pc = "read_journal" /\ run'[r].then = "none"
  BY <1>1, <1>2, GotoMoves, SoundAt DEF Lives
<1>4. Holds(r)' /\ Answered(r)' /\ op' \in Runs \cup {None}
  BY <1>1, <1>3, SoundAt DEF Holds, Answered, Writes, Restores, Cleans, Asks, Typed
<1>5. ASSUME caller = "renderer"
      PROVE  Offered' /\ Committed' /\ Follows(r)'
  <2>1. Committed /\ state \in {"checking", "error"}
    BY <1>1, <1>5, SoundAt DEF Preflight
  <2> QED BY <1>1, <1>3, <2>1 DEF Offered, Committed, Follows, Bond, Writes, Restores, Cleans, Asks
<1> QED BY <1>1, <1>3, <1>4, <1>5, BeginSound

LEMMA SubmitSound ==
  ASSUME Sound, OneAtATime', NEW r \in Runs, Submit(r), UNCHANGED caller
  PROVE  Sound'
<1>1. /\ mode = "activation" /\ run[r].pc = "idle" /\ run[r].then = "none"
      /\ UNCHANGED <<caller, bond, requests, journal, backup, files, mode, pending>>
  BY SoundAt DEF Submit, server, drive, Lives
<1>2. caller = "renderer" => Offered /\ Committed /\ state \in {"input", "recovery"}
  BY SoundAt DEF Submit
<1>3. ASSUME NEW k \in Keys, SubmitFresh(r, k)
      PROVE  Sound'
  <2>1. /\ pending = None /\ op' = r /\ state' = "busy"
        /\ run' = [run EXCEPT ![r] = [IdleRun EXCEPT !.pc = "write_request", !.key = k, !.from = "requested"]]
    BY <1>3 DEF SubmitFresh
  <2>2. /\ Elsewhere(r) /\ run'[r].pc = "write_request" /\ run'[r].key = k /\ run'[r].from = "requested"
        /\ run'[r].then = "none"
    <3>1. run \in [Runs -> Coroutines]
      BY SoundAt DEF Typed
    <3> QED BY <2>1, <3>1, IdleIs DEF Coroutines, Elsewhere, Steps
  <2>3. Holds(r)' /\ Answered(r)'
    BY <2>2 DEF Holds, Answered, Writes, Restores, Cleans, Asks
  <2>4. ASSUME caller = "renderer"
        PROVE  Offered' /\ Committed' /\ Follows(r)'
    <3>1. journal = None /\ Bond.commit = None
      BY <1>1, <1>2, <2>1, <2>4, StageIs DEF Offered, Committed
    <3> QED BY <1>1, <2>1, <2>2, <3>1 DEF Offered, Committed, Follows, Bond, Writes, Restores, Cleans, Asks
  <2> QED BY <1>1, <2>1, <2>2, <2>3, <2>4, BeginSound
<1>4. CASE SubmitAgain(r)
  <2>1. /\ StageOf(pending) \in {"requested", "server_bound"} /\ op' = r /\ state' = "busy"
        /\ run' = [run EXCEPT ![r] = [IdleRun EXCEPT !.pc = "send", !.key = pending.key, !.from = pending.stage]]
    BY <1>4 DEF SubmitAgain
  <2>2. pending.key \in Keys /\ pending.stage \in {"requested", "server_bound"} /\ StageOf(pending) = pending.stage
    BY <2>1, SoundAt, StageIs DEF Typed, Journals
  <2>3. /\ Elsewhere(r) /\ run'[r].pc = "send" /\ run'[r].key = pending.key /\ run'[r].from = pending.stage
        /\ run'[r].then = "none"
    <3>1. run \in [Runs -> Coroutines]
      BY SoundAt DEF Typed
    <3> QED BY <2>1, <2>2, <3>1, IdleIs DEF Coroutines, Elsewhere, Steps
  <2>4. Holds(r)' /\ Answered(r)'
    BY <2>2, <2>3 DEF Holds, Answered, Writes, Restores, Cleans, Asks
  <2>5. ASSUME caller = "renderer"
        PROVE  Offered' /\ Committed' /\ Follows(r)'
    <3>1. Known /\ Committed
      BY <1>1, <1>2, <2>1, <2>5, StageIs DEF Offered
    <3>2. Offered' /\ Committed'
      BY <1>1, <2>1, <3>1 DEF Offered, Committed, Bond
    <3>3. Current(r, run[r].from)' /\ Known'
      BY <1>1, <2>1, <2>2, <2>3, <3>1 DEF Current, Known
    <3>4. Follows(r)'
      BY <2>2, <2>3, <3>3 DEF Follows, Writes, Restores, Cleans, Asks
    <3> QED BY <3>2, <3>4
  <2> QED BY <1>1, <2>1, <2>3, <2>4, <2>5, BeginSound
<1>5. CASE SubmitCommitted(r) /\ state \in {"input", "recovery"}
  <2>1. /\ StageOf(pending) = "committed" /\ UNCHANGED <<op, state>> /\ "recover" \in Steps
        /\ run' = [run EXCEPT ![r] = [@ EXCEPT !.pc = "recover", !.then = "exit_submit"]]
    BY <1>5 DEF SubmitCommitted, Steps
  <2>2. Elsewhere(r) /\ run'[r].pc = "recover" /\ run'[r].then = "exit_submit"
    BY <2>1, ThenMoves, SoundAt
  <2>3. Holds(r)' /\ Answered(r)' /\ op' \in Runs \cup {None}
    BY <2>1, <2>2, SoundAt DEF Holds, Answered, Writes, Restores, Cleans, Asks, Typed
  <2>4. caller # "renderer"
    BY <1>1, <1>2, <2>1, StageIs DEF Offered
  <2> QED BY <1>1, <2>2, <2>3, <2>4, BeginSound
<1>6. CASE state \notin {"input", "recovery"}
  <2>1. UNCHANGED <<op, run>> /\ caller # "renderer"
    BY <1>2, <1>6 DEF Submit
  <2>2. Requested' /\ requests' \subseteq Requests
    BY <1>1, <2>1 DEF Sound, ServerSound, Requested, Bond, Typed
  <2> QED BY <1>1, <2>1, <2>2, BondStays, UnmovedSound
<1> QED BY <1>3, <1>4, <1>5, <1>6 DEF Submit

-----------------------------------------------------------------------------
(* The invariant. *)

LEMMA InitSound ==
  ASSUME Init
  PROVE  Sound
<1>1. /\ bond = [i \in {Code} |-> Server!Free] /\ requests = {} /\ journal = None /\ backup = None
      /\ files = OldFiles /\ mode = "off" /\ state = "checking" /\ pending = None /\ op = None
      /\ run = [r \in Runs |-> IdleRun]
  BY DEF Init, Server!Init
<1>2. bond \in [{Code} -> Server!Bonds] /\ Bond.commit = None
  BY <1>1 DEF Server!Free, Server!Bonds, Bond
<1>3. OldFiles \in Contents
  BY DEF OldFiles, Contents
<1>4. \A r \in Runs : run[r].pc = "idle" /\ run[r].then = "none"
  BY <1>1, IdleIs
<1>5. Typed
  BY <1>1, <1>2, <1>3, IdleIs DEF Typed
<1>6. Lives
  BY <1>1, <1>4 DEF Lives
<1>7. \A r \in Runs : Holds(r) /\ Answered(r) /\ Follows(r)
  BY <1>4 DEF Holds, Answered, Follows, Writes, Restores, Cleans, Asks
<1>8. DriveSound
  BY <1>1, <1>7, StageIs DEF DriveSound, DriveIsRecoverable
<1>9. ServerSound
  BY <1>1, <1>7, StageIs DEF ServerSound, Requested, Recorded
<1>10. RendererSound
  BY <1>1, <1>2, <1>7 DEF RendererSound, Offered, Committed
<1> QED BY <1>5, <1>6, <1>8, <1>9, <1>10 DEF Sound

LEMMA RunStepSound ==
  ASSUME Sound, OneAtATime, NEW r \in Runs, RunStep(r), UNCHANGED caller
  PROVE  Sound'
BY ReadJournalSound, FinishPreflightSound, WriteRequestSound, SendSound, GiveUpSound, RefusedSound,
   DiscardJournalSound, UnknownSound, AcceptedSound, WriteBoundSound, RecoverSound, RestoreFileSound,
   DropBackupSound, CleanBackupSound, CleanJournalSound, SnapshotSound, WriteBackupSound, WriteFileSound,
   ReadbackSound, VerifySound, CommitRemoteSound, CheckCommitSound, MarkCommittedSound DEF RunStep

LEMMA StepSound ==
  ASSUME Sound, OneAtATime, OneAtATime', [Next]_vars
  PROVE  Sound'
<1>1. CASE UNCHANGED vars
  <2>1. UNCHANGED <<caller, bond, requests, journal, backup, files, mode, state, pending, op, run>>
    BY <1>1 DEF vars
  <2>2. Requested' /\ requests' \subseteq Requests
    BY <2>1 DEF Sound, ServerSound, Requested, Bond, Typed
  <2> QED BY <2>1, <2>2, BondStays, UnmovedSound
<1>2. CASE Next
  <2>1. Step /\ UNCHANGED caller
    BY <1>2 DEF Next
  <2>2. CASE Boot \/ Stop \/ Quit \/ Cancel
    BY <2>1, <2>2, BootSound, StopSound, QuitSound, CancelSound
  <2>3. ASSUME NEW r \in Runs, Preflight(r) \/ Submit(r) \/ RunStep(r) \/ Fail(r)
        PROVE  Sound'
    BY <2>1, <2>3, PreflightSound, SubmitSound, RunStepSound, FailSound
  <2>4. ASSUME NEW q \in requests, ServerStep(q)
        PROVE  Sound'
    BY <2>1, <2>4, AcceptSound, CompleteSound, DropSound DEF ServerStep
  <2>5. CASE LeaseExpires \/ Operate
    BY <2>1, <2>5, OthersSound
  <2> QED BY <2>1, <2>2, <2>3, <2>4, <2>5 DEF Step
<1> QED BY <1>1, <1>2

\* While one coroutine runs at a time the invariant holds: each coroutine knows, at each of its
\* awaits, what the drive and the server hold, though the process, the server and the requests
\* stop wherever they please.
THEOREM SoundAlways == Spec /\ []OneAtATime => []Sound
<1>1. Init => Sound
  BY InitSound
<1>2. Sound /\ OneAtATime /\ OneAtATime' /\ [Next]_vars => Sound'
  BY StepSound
<1> QED BY <1>1, <1>2, PTL DEF Spec

-----------------------------------------------------------------------------
(* What it is for. *)

LEMMA SoundIsAhead ==
  ASSUME Sound
  PROVE  JournalNeverAhead
<1>1. ASSUME caller = "renderer", NEW r \in Runs, run[r].pc = "commit_remote"
      PROVE  Bond.commit \in {None, run[r].key}
  <2>1. Current(r, "server_bound") /\ journal = pending /\ Committed /\ StageOf(journal) = "server_bound"
    BY <1>1, SoundAt DEF Follows, Holds, Writes
  <2> QED BY <2>1, StageIs DEF Committed, Current
<1> QED BY <1>1 DEF JournalNeverAhead, Sound, ServerSound, Recorded, BoundForGood

\* DriveIsRecoverable: wherever a write, a restore or a confirmation of the artifacts stops,
\* the drive holds all the old files, all the new ones, or the backup of one of them.
THEOREM DriveIsAlwaysRecoverable == Spec /\ []OneAtATime => []DriveIsRecoverable
<1>1. Sound => DriveIsRecoverable
  BY DEF Sound, DriveSound
<1> QED BY <1>1, SoundAlways, PTL

\* JournalNeverAhead: the journal claims no binding and no commit the server has not recorded,
\* and the shipped renderer repeats a lost commit with the key the server has.
THEOREM JournalIsNeverAhead == Spec /\ []OneAtATime => []JournalNeverAhead
<1>1. Sound => JournalNeverAhead
  BY SoundIsAhead
<1> QED BY <1>1, SoundAlways, PTL

\* The steps that write the journal.
LEMMA JournalWriters ==
  ASSUME Next, journal' # journal
  PROVE  \E r \in Runs : WriteRequest(r) \/ DiscardJournal(r) \/ WriteBound(r) \/ CleanJournal(r) \/ MarkCommitted(r)
<1>1. /\ \A r \in Runs : Preflight(r) \/ Submit(r) \/ Fail(r) => UNCHANGED journal
      /\ Boot \/ Stop \/ Quit \/ Cancel \/ LeaseExpires \/ Operate => UNCHANGED journal
  BY DEF Preflight, Submit, Fail, Boot, Stop, Quit, Cancel, LeaseExpires, Operate, drive
<1>2. \A q \in requests : ServerStep(q) => UNCHANGED journal
  BY DEF ServerStep, Accept, Complete, Drop, drive
<1>3. \A r \in Runs :
        \/ ReadJournal(r) \/ FinishPreflight(r) \/ Send(r) \/ GiveUp(r) \/ Refused(r) \/ Unknown(r) \/ Accepted(r)
        \/ Recover(r) \/ RestoreFile(r) \/ DropBackup(r) \/ CleanBackup(r)
        \/ Snapshot(r) \/ WriteBackup(r) \/ WriteFile(r) \/ Readback(r) \/ Verify(r)
        \/ CommitRemote(r) \/ CheckCommit(r)
        => UNCHANGED journal
  BY DEF ReadJournal, FinishPreflight, Send, GiveUp, Refused, Unknown, Accepted, Recover, RestoreFile,
         DropBackup, CleanBackup, Snapshot, WriteBackup, WriteFile, Readback, Verify, CommitRemote,
         CheckCommit, drive
<1> QED BY <1>1, <1>2, <1>3 DEF Next, Step, RunStep

LEMMA BoundKept ==
  ASSUME Sound, [Next]_vars, caller = "renderer", StageOf(journal) = "server_bound", journal' # journal
  PROVE  StageOf(journal') = "committed"
<1>1. Next
  BY DEF vars
<1>2. PICK r \in Runs : WriteRequest(r) \/ DiscardJournal(r) \/ WriteBound(r) \/ CleanJournal(r) \/ MarkCommitted(r)
  BY <1>1, JournalWriters
<1>3. Follows(r) /\ Holds(r) /\ Answered(r)
  BY SoundAt
<1>4. ~WriteRequest(r)
  BY <1>3, StageIs DEF WriteRequest, Follows
<1>5. ~DiscardJournal(r) /\ ~WriteBound(r)
  BY <1>3 DEF DiscardJournal, WriteBound, Follows, Current
<1>6. ~CleanJournal(r)
  BY <1>3 DEF CleanJournal, Holds, Cleans
<1>7. ASSUME MarkCommitted(r)
      PROVE  StageOf(journal') = "committed"
  <2>1. journal' = [stage |-> "committed", key |-> run[r].key] /\ run[r].key \in Keys
    BY <1>3, <1>7 DEF MarkCommitted, Answered, Writes
  <2> QED BY <2>1, StageIs
<1> QED BY <1>2, <1>4, <1>5, <1>6, <1>7

\* BoundJournalIsKept: under the shipped renderer a bound journal leaves the drive by its
\* commit only.
THEOREM BoundJournalIsAlwaysKept == Spec /\ []OneAtATime => BoundJournalIsKept
<1>1. Sound /\ [Next]_vars =>
        [caller = "renderer" /\ StageOf(journal) = "server_bound"
           => journal' = journal \/ StageOf(journal') = "committed"]_vars
  BY BoundKept
<1> QED BY <1>1, SoundAlways, PTL DEF Spec, BoundJournalIsKept

LEMMA CommitComplete ==
  ASSUME Sound, [Next]_vars, Bond.commit = None, bond'[Code].commit # None
  PROVE  files = NewFiles
<1>1. bond \in [{Code} -> Server!Bonds] /\ bond' # bond
  BY DEF Sound, Typed, Bond
<1>2. Next
  BY <1>1 DEF vars
<1>3. /\ \A r \in Runs : Preflight(r) \/ Submit(r) \/ Fail(r) => UNCHANGED bond
      /\ Boot \/ Stop \/ Quit \/ Cancel \/ LeaseExpires => UNCHANGED bond
  BY DEF Preflight, Submit, Fail, Boot, Stop, Quit, Cancel, LeaseExpires, server
<1>4. ASSUME NEW from, NEW to, Server!Move(Code, from, to)
      PROVE  bond'[Code].commit = None
  BY <1>1, <1>4 DEF Server!Move, Server!Bonds, Bond
<1>5. ~Operate
  BY <1>4 DEF Operate, Server!Suspend, Server!Resume, Server!End
<1>6. ASSUME NEW q \in requests, ServerStep(q)
      PROVE  bond'[Code].commit = None
  <2>1. CASE BindCode(q)
    BY <1>1, <2>1 DEF BindCode, Server!Bind
  <2>2. CASE Server!Activate(Code)
    BY <1>4, <2>2 DEF Server!Activate
  <2> QED BY <1>1, <1>6, <2>1, <2>2 DEF ServerStep, Accept, TakeOver, InProgress, Recovered, AlreadyBound,
             Unavailable, Complete, Drop, server
<1>7. \A r \in Runs :
        \/ ReadJournal(r) \/ FinishPreflight(r) \/ WriteRequest(r) \/ Send(r) \/ GiveUp(r) \/ Refused(r)
        \/ DiscardJournal(r) \/ Unknown(r) \/ Accepted(r) \/ WriteBound(r) \/ Recover(r) \/ RestoreFile(r)
        \/ DropBackup(r) \/ CleanBackup(r) \/ CleanJournal(r) \/ Snapshot(r) \/ WriteBackup(r) \/ WriteFile(r)
        \/ Readback(r) \/ Verify(r) \/ CheckCommit(r) \/ MarkCommitted(r)
        => UNCHANGED bond
  BY DEF ReadJournal, FinishPreflight, WriteRequest, Send, GiveUp, Refused, DiscardJournal, Unknown, Accepted,
         WriteBound, Recover, RestoreFile, DropBackup, CleanBackup, CleanJournal, Snapshot, WriteBackup,
         WriteFile, Readback, Verify, CheckCommit, MarkCommitted, server
<1>8. PICK r \in Runs : CommitRemote(r)
  BY <1>1, <1>2, <1>3, <1>5, <1>6, <1>7 DEF Next, Step, RunStep
<1> QED BY <1>8, SoundAt DEF CommitRemote, Holds

\* CommitMeansComplete: the server hears of a commit only from a drive that holds all the new
\* artifacts.
THEOREM CommitAlwaysMeansComplete == Spec /\ []OneAtATime => CommitMeansComplete
<1>1. Sound /\ [Next]_vars => [bond[Code].commit = None /\ bond'[Code].commit # None => files = NewFiles]_vars
  BY CommitComplete DEF Bond
<1> QED BY <1>1, SoundAlways, PTL DEF Spec, CommitMeansComplete
=============================================================================
