----------------------------- MODULE PluginService -----------------------------
(* createPluginService (desktop/src/plugins/plugin-service.ts): one lifecycle operation at
   a time installs, updates, removes or switches a plugin of OpenClaw through its command
   line and keeps a record of what U-Claw manages, with a journal whose phases say after a
   crash which way to go.  OpenClaw's own plugin registry is external: a command that is
   reported as failed may have had its effect.  The catalogue, confirmations, the checks of
   a bundle and its retained copy are left out; a detail is its version. *)
EXTENDS Capability, FiniteSets

CONSTANTS
  Slugs,        \* plugins
  Bundled,      \* those OpenClaw brings along
  Operations    \* bound: ids of operations that have a journal at the same time

ASSUME PluginAssumption == Bundled \subseteq Slugs /\ IsFiniteSet(Operations)

VARIABLES
  plugins,       \* OpenClaw's: version (0: absent) and enablement of each plugin
  managed,       \* plugin-state.json: the record of each plugin, version 0 when there is none
  pluginState,   \* the same in memory
  pluginsUp,     \* createPluginService has returned
  journals,      \* .plugin-transactions/<id>.json, or None
  pluginTask,    \* the operation, undoing or recovery under way
  pluginTold     \* ghost: what the last operation reported about a plugin amounts to, or None

pluginVars == <<plugins, managed, pluginState, pluginsUp, journals, pluginTask, pluginTold>>

Phases == {"staged", "runtime-starting", "runtime-committed", "committed"}
Journals == [slug : Slugs, action : {"replace", "remove", "metadata"}, phase : Phases,
             prev : Records, next : Records, prevOn : BOOLEAN, nextOn : BOOLEAN]

ASSUME NoneIsNoJournal == None \notin Journals

(* Stages of an operation, then those of applyJournalRuntime with what follows it. *)
Forward == {"stage", "start", "run", "enable", "commit", "record", "close", "finish"}
Applying == {"apply", "switch", "settle", "forget"}
NoTask == [at |-> "idle"]

PluginTypeOK ==
  /\ plugins \in [Slugs -> Records] /\ managed \in [Slugs -> Records]
  /\ pluginState \in [Slugs -> Records] /\ pluginsUp \in BOOLEAN
  /\ \A id \in Operations : journals[id] = None \/ journals[id] \in Journals
  /\ \/ pluginTask = NoTask
     \/ /\ pluginTask.at \in Forward \cup Applying /\ pluginTask.id \in Operations
        /\ pluginTask.journal \in Journals /\ pluginTask.forward \in BOOLEAN
  /\ \A s \in Slugs : pluginTold[s] \in Records \cup {None}

PluginInit ==
  /\ plugins = [s \in Slugs |-> IF s \in Bundled THEN [version |-> 1, enabled |-> FALSE] ELSE NoRecord]
  /\ managed = [s \in Slugs |-> NoRecord] /\ pluginState = managed /\ pluginsUp = FALSE
  /\ journals = [id \in Operations |-> None]
  /\ pluginTask = NoTask
  /\ pluginTold = [s \in Slugs |-> None]

-----------------------------------------------------------------------------
Left == {id \in Operations : journals[id] # None}
Idle == pluginTask = NoTask
Doing(stage) == pluginTask # NoTask /\ pluginTask.at = stage
Slug == pluginTask.journal.slug
Goes(stage) == pluginTask' = [pluginTask EXCEPT !.at = stage]

Over(s, record) == pluginTask' = NoTask /\ pluginTold' = [pluginTold EXCEPT ![s] = record]
Untold == UNCHANGED pluginTold

\* Mistake: only the record is set back, not OpenClaw.
Undone_RecordOnly == pluginTask' = [pluginTask EXCEPT !.at = "settle"] /\ Untold

(* The catch of an operation: applyJournalRuntime, backwards. *)
Undone == pluginTask' = [pluginTask EXCEPT !.at = "apply"] /\ Untold

(* OpenClaw's commands. *)
Command(s, record) == plugins' = [plugins EXCEPT ![s] = record]
Installs(s, version) ==
  \E enabled \in (IF plugins[s].version = 0 THEN BOOLEAN ELSE {plugins[s].enabled}) :
    Command(s, [version |-> version, enabled |-> enabled])
Switched(s, enabled) == Command(s, [plugins[s] EXCEPT !.enabled = enabled])
Runs(command, stage, error) ==
  /\ Attempt(command, UNCHANGED plugins, Goes(stage) /\ Untold, error)
  /\ UNCHANGED <<managed, pluginState, pluginsUp, journals>>

-----------------------------------------------------------------------------
(* start: the conditions an operation is begun under, read again from OpenClaw when its
   turn in the lifecycle queue comes.  One that they refuse changes nothing. *)
Begins(s, action, next, on) ==
  /\ pluginsUp /\ Idle
  /\ "again" \in Troubles \/ Left = {}
  /\ Left # Operations
  /\ pluginTask' = [at |-> "stage", id |-> CHOOSE id \in Operations : journals[id] = None,
                    forward |-> FALSE,
                    journal |-> [slug |-> s, action |-> action, phase |-> "staged",
                                 prev |-> pluginState[s], next |-> next,
                                 prevOn |-> IF action = "metadata" THEN plugins[s].enabled
                                            ELSE pluginState[s].enabled,
                                 nextOn |-> on]]
  /\ pluginTold' = [pluginTold EXCEPT ![s] = None]
  /\ UNCHANGED <<plugins, managed, pluginState, pluginsUp, journals, faults>>

Manages(s) == plugins[s].version # 0 /\ pluginState[s].version # 0 /\ s \notin Bundled

Install(s, version) ==
  /\ plugins[s].version = 0
  /\ LET on == pluginState[s].version = 0 \/ pluginState[s].enabled
     IN Begins(s, "replace", [version |-> version, enabled |-> on], on)

Update(s, version) ==
  /\ Manages(s)
  /\ Begins(s, "replace", [version |-> version, enabled |-> pluginState[s].enabled],
            pluginState[s].enabled)

Uninstall(s) == Manages(s) /\ Begins(s, "remove", NoRecord, FALSE)

SetEnabled(s, on) ==
  /\ plugins[s].version # 0
  /\ Begins(s, "metadata",
            IF pluginState[s].version = 0 THEN NoRecord ELSE [pluginState[s] EXCEPT !.enabled = on], on)

(* saveJournal: the next phase on the disk.  In memory it is there although the write fails. *)
Saves(phase, stage, error) ==
  LET journal == [pluginTask.journal EXCEPT !.phase = phase]
  IN /\ Attempt(journals' = [journals EXCEPT ![pluginTask.id] = journal], UNCHANGED journals,
                pluginTask' = [pluginTask EXCEPT !.journal = journal, !.at = stage] /\ Untold,
                error)
     /\ UNCHANGED <<plugins, managed, pluginState, pluginsUp>>

(* The first journal is written outside the try block. *)
Stages == Doing("stage") /\ Saves("staged", "start", Over(Slug, pluginTask.journal.prev))
StartsRuntime == Doing("start") /\ Saves("runtime-starting", "run", Undone)

RunsRuntime ==
  /\ Doing("run")
  /\ LET j == pluginTask.journal
     IN CASE j.action = "replace"  -> Runs(Installs(Slug, j.next.version), "enable", Undone)
          [] j.action = "remove"   -> Runs(Command(Slug, NoRecord), "commit", Undone)
          [] j.action = "metadata" -> Runs(Switched(Slug, j.nextOn), "commit", Undone)

EnablesRuntime ==
  /\ Doing("enable")
  /\ Runs(Switched(Slug, pluginTask.journal.nextOn), "commit", Undone)

(* What OpenClaw says then is what was asked for; the journal says so. *)
CommitsRuntime == Doing("commit") /\ Saves("runtime-committed", "record", Undone)

RecordsState ==
  /\ Doing("record")
  /\ pluginState' = [pluginState EXCEPT ![Slug] = pluginTask.journal.next]
  /\ Attempt(managed' = pluginState', UNCHANGED managed, Goes("close") /\ Untold, Undone)
  /\ UNCHANGED <<plugins, pluginsUp, journals>>

CommitsState == Doing("close") /\ Saves("committed", "finish", Undone)

(* finishJournal, whose failure is swallowed. *)
Forgotten == journals' = [journals EXCEPT ![pluginTask.id] = None]
Finishes ==
  /\ Doing("finish")
  /\ Attempt(Forgotten, UNCHANGED journals, Over(Slug, pluginTask.journal.next),
             Over(Slug, pluginTask.journal.next))
  /\ UNCHANGED <<plugins, managed, pluginState, pluginsUp>>

-----------------------------------------------------------------------------

\* Mistake: a committed journal is rolled back.
Recovers_CommittedBack(id) ==
  /\ ~pluginsUp /\ Idle /\ journals[id] # None
  /\ pluginTask' = [at |-> IF journals[id].phase = "staged" THEN "settle" ELSE "apply",
                    id |-> id, journal |-> journals[id],
                    forward |-> journals[id].phase = "runtime-committed"]
  /\ UNCHANGED <<plugins, managed, pluginState, pluginsUp, journals, pluginTold, faults>>

(* Whether a journal says that what it is about was done. *)
Ahead(j) == j.phase \in {"runtime-committed", "committed"}

(* recoverTransactions, before the service is there: the journals in any order. *)
Recovers(id) ==
  /\ ~pluginsUp /\ Idle /\ journals[id] # None
  /\ pluginTask' = [at |-> IF journals[id].phase = "staged" THEN "settle" ELSE "apply",
                    id |-> id, journal |-> journals[id],
                    forward |-> Ahead(journals[id])]
  /\ UNCHANGED <<plugins, managed, pluginState, pluginsUp, journals, pluginTold, faults>>

(* An error leaves the journal: an operation is reported as failed and not undone, at start-up
   the service does not come up, and with it the application. *)
Stuck == pluginTask' = NoTask /\ Untold

Desired == IF pluginTask.forward THEN pluginTask.journal.next ELSE pluginTask.journal.prev
DesiredOn == IF pluginTask.forward THEN pluginTask.journal.nextOn ELSE pluginTask.journal.prevOn

(* A plugin that is not there cannot be switched, one of another version than its record's
   is refused after it was. *)
Switches(stage) ==
  IF plugins[Slug].version # 0 /\ Desired.version \in {0, plugins[Slug].version}
  THEN Runs(Switched(Slug, DesiredOn), stage, Stuck)
  ELSE /\ IF plugins[Slug].version = 0 THEN UNCHANGED plugins ELSE Switched(Slug, DesiredOn)
       /\ Stuck
       /\ UNCHANGED <<managed, pluginState, pluginsUp, journals, faults>>

Applies ==
  /\ Doing("apply")
  /\ IF pluginTask.journal.action = "metadata" THEN Switches("settle")
     ELSE IF Desired.version # 0 THEN Runs(Installs(Slug, Desired.version), "switch", Stuck)
     ELSE Runs(IF Slug \in Bundled THEN UNCHANGED plugins ELSE Command(Slug, NoRecord), "settle", Stuck)

Enables == Doing("switch") /\ Switches("settle")

Settles ==
  /\ Doing("settle")
  /\ pluginState' = [(IF pluginsUp THEN pluginState ELSE managed) EXCEPT ![Slug] = Desired]
  /\ Attempt(managed' = pluginState', UNCHANGED managed, Goes("forget") /\ Untold, Stuck)
  /\ UNCHANGED <<plugins, pluginsUp, journals>>

(* finishJournal again: an operation is over and has failed, although its journal may be
   left.  The next start follows the phase of one that is left, and does again what was
   undone where that says so ("undone"). *)
Withstood == ~Ahead(journals[pluginTask.id]) \/ "undone" \in Troubles
Forgets ==
  /\ Doing("forget")
  /\ IF pluginsUp
     THEN Attempt(Forgotten, Withstood /\ UNCHANGED journals,
                  Over(Slug, pluginTask.journal.prev), Over(Slug, pluginTask.journal.prev))
     ELSE Attempt(Forgotten, UNCHANGED journals, Stuck, Stuck)
  /\ UNCHANGED <<plugins, managed, pluginState, pluginsUp>>

(* Everything is recovered: records that OpenClaw disagrees with are dropped or corrected,
   and the service is there. *)
Reconciled(s) ==
  IF plugins[s].version = 0 THEN NoRecord
  ELSE IF managed[s].version = 0 THEN managed[s]
  ELSE [managed[s] EXCEPT !.enabled = plugins[s].enabled]

ServiceStarts ==
  /\ ~pluginsUp /\ Idle /\ Left = {}
  /\ pluginsUp' = TRUE
  /\ pluginState' = [s \in Slugs |-> Reconciled(s)] /\ managed' = pluginState'
  /\ UNCHANGED <<plugins, journals, pluginTask, pluginTold, faults>>

(* The process stops: what is in memory is gone, an operation under way reports nothing. *)
PluginsCrash ==
  /\ pluginsUp' = FALSE /\ pluginTask' = NoTask /\ pluginState' = managed
  /\ UNCHANGED <<plugins, managed, journals, pluginTold, faults>>

PluginsRecover == (\E id \in Operations : Recovers(id)) \/ ServiceStarts
PluginWorks ==
  \/ Stages \/ StartsRuntime \/ RunsRuntime \/ EnablesRuntime \/ CommitsRuntime
  \/ RecordsState \/ CommitsState \/ Finishes
  \/ Applies \/ Enables \/ Settles \/ Forgets
PluginAsked ==
  \E s \in Slugs :
    \/ \E version \in 1 .. MaxVersion : Install(s, version) \/ Update(s, version)
    \/ Uninstall(s)
    \/ \E on \in BOOLEAN : SetEnabled(s, on)

-----------------------------------------------------------------------------
(* With no operation under way and no journal left, the record in memory is the one on the
   disk, and OpenClaw has the plugin in the version and the enablement of its record:
   whatever failed, was undone, or was recovered after a crash. *)
RecordsAgree ==
  pluginsUp /\ Idle /\ Left = {} =>
    /\ pluginState = managed
    /\ \A s \in Slugs : managed[s].version # 0 => plugins[s] = managed[s]

(* What an operation has reported stays so: a success is not taken back by a crash and its
   recovery, a failure that was undone has left things as they were. *)
OutcomeStays ==
  pluginsUp /\ Idle /\ Left = {} =>
    \A s \in Slugs : pluginTold[s] # None =>
      /\ managed[s] = pluginTold[s]
      /\ s \notin Bundled /\ managed[s].version = 0 => plugins[s].version = 0
=============================================================================
