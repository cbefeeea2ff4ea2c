------------------------------ MODULE SkillService ------------------------------
(* createSkillService (desktop/src/skills/skill-service.ts): a skill is a directory of the
   workspace, a record in skill-state.json and a switch in OpenClaw.  An operation stages
   the new directory, keeps the old one as a backup and leaves a journal behind from which
   recoverTransactions decides, after a failure or a crash, which of the two it was.
   Operations of all skills run one at a time, each after a recovery: one skill and one
   journal stand for them.  The catalogue, confirmations, the checks of a bundle, conflicts
   of names and Windows are left out; a directory is its version. *)
EXTENDS Capability, Sequences

VARIABLES
  skillFiles,    \* versions (0: not there) of the target, staging and backup directories
  skillRecord,   \* skill-state.json: the record, version 0 when there is none
  skillJournal,  \* .skill-transactions/<id>.json, or None
  skillSwitch,   \* OpenClaw's: the skill is not disabled, whether it is there or not
  gatewayUp,     \* OpenClaw answers
  skillsUp,      \* createSkillService has returned
  skillTask      \* the operation or recovery under way: the steps that are left of it

skillDisk == <<skillFiles, skillRecord, skillJournal, skillSwitch>>
skillVars == <<skillFiles, skillRecord, skillJournal, skillSwitch, gatewayUp, skillsUp, skillTask>>

Versions == 0 .. MaxVersion
SkillPhases == {"prepared", "staged", "backed-up", "replaced", "verified", "committed",
                "committed-final", "runtime-changed", "state-persisted", "rolling-back"}
SkillJournals == [action : {"replace", "remove", "toggle"}, phase : SkillPhases,
                  prev : Records, next : Records]

ASSUME NoneIsNoSkillJournal == None \notin SkillJournals

(* The steps of an operation, named for the phase of the journal that they write or for
   what they do otherwise; those of its catch block; those of a recovery. *)
Course(action) ==
  CASE action = "replace" -> <<"prepared", "stage", "staged", "backup", "backed-up", "replace",
                               "replaced", "record", "verify", "verified", "drop", "finish">>
    [] action = "remove"  -> <<"staged", "backup", "backed-up", "record", "committed", "verify",
                               "committed-final", "drop", "finish">>
    [] action = "toggle"  -> <<"prepared", "switch", "runtime-changed", "record",
                               "state-persisted", "finish">>
Catch(action) ==
  CASE action = "replace" -> <<"rolling-back", "withdraw", "restore", "record", "unstage",
                               "drop", "finish">>
    [] action = "remove"  -> <<"rolling-back", "restore", "record", "finish">>
    [] action = "toggle"  -> <<"compensate", "record", "finish">>
Cleared == IF "recovery" \in Troubles THEN <<"unstage", "finish">> ELSE <<"clear">>
Forwards == <<"record", "drop">> \o Cleared
Backwards == <<"withdraw", "restore", "record">> \o Cleared

SkillTypeOK ==
  /\ skillFiles \in [target : Versions, staging : Versions, backup : Versions]
  /\ skillRecord \in Records
  /\ skillJournal = None \/ skillJournal \in SkillJournals
  /\ {skillSwitch, gatewayUp, skillsUp} \subseteq BOOLEAN

NoSkillTask == [way |-> "idle", steps |-> <<>>]

(* A directory may be there that no record knows of. *)
SkillInit ==
  /\ \E version \in Versions : skillFiles = [target |-> version, staging |-> 0, backup |-> 0]
  /\ skillRecord = NoRecord /\ skillJournal = None /\ skillSwitch = TRUE
  /\ gatewayUp = FALSE /\ skillsUp = FALSE
  /\ skillTask = NoSkillTask

-----------------------------------------------------------------------------
SkillIdle == skillTask = NoSkillTask
Step(step) == ~SkillIdle /\ Head(skillTask.steps) = step
Target == skillFiles.target

SkillOver == skillTask' = NoSkillTask
Onward == IF Len(skillTask.steps) = 1 THEN SkillOver
          ELSE skillTask' = [skillTask EXCEPT !.steps = Tail(@)]

(* An operation that fails is undone, but not by the write of the first journal of a removal
   or a toggle, nor once it is final; what fails while undoing or recovering is left. *)
Final == skillTask.journal.action # "toggle" /\ (Step("drop") \/ Step("finish"))
Outside == skillTask.journal.action # "replace" /\ skillTask.steps = Course(skillTask.journal.action)
Error ==
  IF skillTask.way # "go" \/ Final \/ Outside THEN SkillOver
  ELSE skillTask' = [skillTask EXCEPT !.way = "undo", !.steps = Catch(skillTask.journal.action),
                                      !.record = skillTask.before]

Tries(effect, nothing) == Attempt(effect, nothing, Onward, Error)

(* A change of a directory and its sync, which may fail when the change is made. *)
Changes(change, nothing, onward) ==
  \/ change /\ onward /\ UNCHANGED faults
  \/ (nothing \/ ("sync" \in Troubles /\ change)) /\ Fails /\ Error
Moves(from, to, flag) ==
  Changes(skillFiles' = [skillFiles EXCEPT ![to] = skillFiles[from], ![from] = 0],
          UNCHANGED skillFiles,
          skillTask' = [skillTask EXCEPT !.steps = Tail(@), ![flag] = TRUE])
Removes(which) ==
  Tries(skillFiles' = [skillFiles EXCEPT ![which] = 0], UNCHANGED skillFiles)
Skips == Onward /\ UNCHANGED <<skillFiles, faults>>

-----------------------------------------------------------------------------
(* recoverBeforeMutation has left no journal: an operation begins with the state read anew.
   A directory without a record is given the one that OpenClaw and its front matter say. *)
Synthesized == IF skillRecord.version # 0 THEN skillRecord ELSE [version |-> Target, enabled |-> skillSwitch]
Known == skillRecord.version # 0 \/ (Target # 0 /\ gatewayUp)

BeginsSkill(action, prev, next, before) ==
  /\ skillsUp /\ SkillIdle /\ skillJournal = None
  /\ skillTask' = [way |-> "go", steps |-> Course(action), record |-> next, before |-> before,
                   backedUp |-> FALSE, replaced |-> FALSE,
                   journal |-> [action |-> action, phase |-> "", prev |-> prev, next |-> next]]
  /\ UNCHANGED <<skillDisk, gatewayUp, skillsUp, faults>>

InstallSkill(version) ==
  /\ skillRecord.version = 0 /\ Target = 0
  /\ BeginsSkill("replace", NoRecord, [version |-> version, enabled |-> TRUE], NoRecord)

UpdateSkill(version) ==
  /\ Known
  /\ BeginsSkill("replace", Synthesized, [Synthesized EXCEPT !.version = version], Synthesized)

UninstallSkill == Known /\ BeginsSkill("remove", Synthesized, NoRecord, skillRecord)

SwitchSkill(on) ==
  /\ Target # 0 /\ gatewayUp
  /\ BeginsSkill("toggle", Synthesized, [Synthesized EXCEPT !.enabled = on], skillRecord)

-----------------------------------------------------------------------------
SavesPhase ==
  \E phase \in SkillPhases :
    /\ Step(phase)
    /\ Tries(skillJournal' = [skillTask.journal EXCEPT !.phase = phase], UNCHANGED skillJournal)
    /\ UNCHANGED <<skillFiles, skillRecord, skillSwitch, gatewayUp, skillsUp>>

MovesFiles ==
  /\ \/ /\ Step("stage")
        /\ Tries(skillFiles' = [skillFiles EXCEPT !.staging = skillTask.journal.next.version],
                 UNCHANGED skillFiles)
     \/ /\ Step("backup")
        /\ IF Target # 0 THEN Moves("target", "backup", "backedUp")
           ELSE IF skillTask.journal.action = "remove" THEN Error /\ UNCHANGED <<skillFiles, faults>>
           ELSE /\ skillTask' = [skillTask EXCEPT !.steps = Tail(Tail(@))]
                /\ UNCHANGED <<skillFiles, faults>>
     \/ Step("replace") /\ Moves("staging", "target", "replaced")
     \/ Step("withdraw") /\ (IF skillTask.replaced THEN Removes("target") ELSE Skips)
     \/ /\ Step("restore")
        /\ IF /\ skillTask.backedUp \/ skillTask.journal.action = "remove"
              /\ skillFiles.backup # 0 /\ Target = 0
           THEN Moves("backup", "target", "backedUp") ELSE Skips
     \/ Step("unstage") /\ Removes("staging")
     \/ Step("drop") /\ Removes("backup")
  /\ UNCHANGED <<skillRecord, skillJournal, skillSwitch, gatewayUp, skillsUp>>

WritesRecord ==
  /\ Step("record")
  /\ Tries(skillRecord' = skillTask.record, UNCHANGED skillRecord)
  /\ UNCHANGED <<skillFiles, skillJournal, skillSwitch, gatewayUp, skillsUp>>

(* OpenClaw lists the skill, enabled as its record says, or lists it no longer. *)
Shows(record) == IF record.version = 0 THEN Target = 0 ELSE Target # 0 /\ skillSwitch = record.enabled
Verifies ==
  /\ Step("verify")
  /\ IF gatewayUp /\ Shows(skillTask.journal.next) THEN Onward ELSE Error
  /\ UNCHANGED <<skillDisk, gatewayUp, skillsUp, faults>>

SetsSwitch(on) ==
  /\ IF gatewayUp THEN Tries(skillSwitch' = on, UNCHANGED skillSwitch)
     ELSE Error /\ UNCHANGED <<skillSwitch, faults>>
  /\ UNCHANGED <<skillFiles, skillRecord, skillJournal, gatewayUp, skillsUp>>
TurnsSwitch ==
  \/ Step("switch") /\ SetsSwitch(skillTask.journal.next.enabled)
  \/ Step("compensate") /\ SetsSwitch(skillTask.journal.prev.enabled)

FinishesSkill ==
  /\ \/ Step("finish") /\ UNCHANGED skillFiles /\ Changes(skillJournal' = None, UNCHANGED skillJournal, Onward)
     \/ /\ Step("clear")
        /\ Changes(skillJournal' = None /\ skillFiles' = [skillFiles EXCEPT !.staging = 0],
                   UNCHANGED <<skillJournal, skillFiles>>, Onward)
  /\ UNCHANGED <<skillRecord, skillSwitch, gatewayUp, skillsUp>>

-----------------------------------------------------------------------------
(* recoverTransactions decides from the journal, the directories and, where these do not
   say, OpenClaw; without its answer the journal is left for later. *)
Sealed(j) == j.phase \in {"verified", "committed-final"}

\* Mistake: the staging directory is not looked at.
OnDisk_StagedToo(j) ==
  \/ Sealed(j)
  \/ j.action = "replace" /\ j.phase \notin {"prepared", "rolling-back"} /\ Target # 0
  \/ j.action = "remove" /\ j.phase = "committed" /\ Target = 0

OnDisk(j) ==
  \/ Sealed(j)
  \/ /\ j.action = "replace" /\ j.phase \notin {"prepared", "rolling-back"}
     /\ Target # 0 /\ skillFiles.staging = 0
  \/ j.action = "remove" /\ j.phase = "committed" /\ Target = 0
Irreversible(j) == OnDisk(j) /\ j.prev.version # 0 /\ skillFiles.backup = 0
Asks(j) == j.action = "toggle" \/ (OnDisk(j) /\ ~Irreversible(j) /\ ~Sealed(j))
Deferred == skillJournal # None /\ Asks(skillJournal) /\ ~gatewayUp

Recovery(steps, record, back) ==
  skillTask' = [way |-> "recover", steps |-> steps, record |-> record, before |-> record,
                backedUp |-> back, replaced |-> back, journal |-> skillJournal]

(* Backwards the target goes when a backup takes its place, or when nothing was there. *)
RecoversFiles(j) ==
  IF OnDisk(j) /\ (Asks(j) => Shows(j.next)) THEN Recovery(Forwards, j.next, FALSE)
  ELSE /\ Target # 0 \/ skillFiles.backup # 0 \/ j.prev.version = 0
       /\ Recovery(Backwards, j.prev,
                   IF j.action = "replace" THEN skillFiles.backup # 0 \/ j.prev.version = 0
                   ELSE skillFiles.backup # 0 /\ Target = 0)

RecoversSwitch(j) ==
  IF Target = 0 THEN Recovery(<<"record", "finish">>, NoRecord, FALSE)
  ELSE \E record \in {j.prev, j.next} :
         /\ record.enabled = skillSwitch
         /\ record = j.prev => j.next.enabled # skillSwitch
         /\ Recovery(<<"record", "finish">>, record, FALSE)

(* At start-up, before an operation and before the list of what is installed. *)
RecoversSkill ==
  /\ SkillIdle /\ skillJournal # None /\ ~Deferred
  /\ IF skillJournal.action = "toggle" THEN RecoversSwitch(skillJournal) ELSE RecoversFiles(skillJournal)
  /\ UNCHANGED <<skillDisk, gatewayUp, skillsUp, faults>>

\* Mistake: a recovery that must wait for the gateway keeps the service from starting.
SkillsStart_Resolved ==
  /\ ~skillsUp /\ SkillIdle /\ skillJournal = None
  /\ skillsUp' = TRUE
  /\ UNCHANGED <<skillDisk, gatewayUp, skillTask, faults>>

SkillsStart ==
  /\ ~skillsUp /\ SkillIdle /\ (skillJournal = None \/ Deferred)
  /\ skillsUp' = TRUE
  /\ UNCHANGED <<skillDisk, gatewayUp, skillTask, faults>>

(* The gateway, started after the services; it stops and starts as GatewayProcess says. *)
GatewayTurns(up) ==
  gatewayUp # up /\ gatewayUp' = up /\ UNCHANGED <<skillDisk, skillsUp, skillTask, faults>>

SkillsCrash ==
  gatewayUp' = FALSE /\ skillsUp' = FALSE /\ skillTask' = NoSkillTask /\ UNCHANGED <<skillDisk, faults>>

SkillWorks ==
  SavesPhase \/ MovesFiles \/ WritesRecord \/ Verifies \/ TurnsSwitch \/ FinishesSkill
SkillAsked ==
  \/ \E version \in 1 .. MaxVersion : InstallSkill(version) \/ UpdateSkill(version)
  \/ UninstallSkill
  \/ \E on \in BOOLEAN : SwitchSkill(on)

-----------------------------------------------------------------------------
(* With nothing under way and no journal left the directory is the one of the record, no
   other is left, and OpenClaw has it enabled as the record says. *)
FilesMatchRecord ==
  SkillIdle /\ skillJournal = None =>
    /\ skillRecord.version # 0 => Target = skillRecord.version /\ skillSwitch = skillRecord.enabled
    /\ skillFiles.staging = 0 /\ skillFiles.backup = 0

(* The version that an operation replaces or removes is somewhere, until the operation is
   final or a recovery that found it done has said so in the record. *)
OldSurvives ==
  skillJournal # None =>
    (skillJournal.prev.version # 0 /\ ~Sealed(skillJournal) /\ skillRecord # skillJournal.next =>
       skillJournal.prev.version \in {Target, skillFiles.backup})

SkillsAreWhole == FilesMatchRecord /\ OldSurvives
=============================================================================
