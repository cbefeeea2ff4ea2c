--------------------------- MODULE CapabilitiesProofs ---------------------------
(* Proofs about the plugin and skill services, for any slugs, operations, versions, failures,
   crashes and requests.  PluginsSound says of each plugin which of its three records may be
   ahead of the others, by the phase of the one journal that concerns it and the step of the
   task that works on it.  SkillsSound says of the one skill where its directories lie: DiskSound
   what a journal of each phase may have left there, SkillTaskSound at which step of its course,
   of its catch block or of a recovery a task finds what.  What is let go wrong although the
   code does not withstand it (Troubles) is excluded theorem by theorem. *)
EXTENDS Capabilities, SequenceTheorems, TLAPS

(***************************************************************************)
(* The plugins.                                                            *)
(***************************************************************************)
CleanRecords == {r \in Records : r.version = 0 => r = NoRecord}

\* What an operation writes into its journal: where the records say how the plugin is enabled,
\* the journal says the same; a plugin OpenClaw brings along has no record.
GoodJournals ==
  {j \in Journals :
     /\ j.prev \in CleanRecords /\ j.next \in CleanRecords
     /\ IF j.slug \in Bundled
        THEN j.action = "metadata" /\ j.prev = NoRecord /\ j.next = NoRecord
        ELSE /\ j.prevOn = j.prev.enabled /\ j.nextOn = j.next.enabled
             /\ j.action = "replace" => j.next.version # 0
             /\ j.action = "remove" => j.next = NoRecord
             /\ j.action = "metadata" => j.prev.version # 0 /\ j.next.version = j.prev.version}

Tasks == [at : Forward \cup Applying, id : Operations, forward : BOOLEAN, journal : GoodJournals]

PluginsTyped ==
  /\ plugins \in [Slugs -> CleanRecords] /\ managed \in [Slugs -> CleanRecords]
  /\ pluginState \in [Slugs -> CleanRecords] /\ pluginsUp \in BOOLEAN
  /\ journals \in [Operations -> GoodJournals \cup {None}]
  /\ pluginTask \in Tasks \cup {NoTask}
  /\ pluginTold \in [Slugs -> Records \cup {None}]

\* A plugin that OpenClaw brings along is always there and has never a record.
BundledStays(s) ==
  s \in Bundled => plugins[s].version # 0 /\ managed[s] = NoRecord /\ pluginState[s] = NoRecord

\* OpenClaw has a plugin of ours as a record says.
HasIt(s, record) == s \notin Bundled => plugins[s] = record

\* Which way a journal on the disk leads, and what it leads to.
Outcome(j) == IF Ahead(j) THEN j.next ELSE j.prev

\* A journal on the disk: nothing has been done before its runtime starts; what was reported of
\* an operation whose journal is left is what the recovery will make of it, unless the journal of
\* one that was undone says it was done.
LeftSound(id) ==
  LET j == journals[id]
  IN j # None =>
       /\ j.phase = "staged" => HasIt(j.slug, j.prev)
       /\ "undone" \notin Troubles => pluginTold[j.slug] \in {None, Outcome(j)}

\* A plugin that no operation and no journal is about.
Concerned(s) == (~Idle /\ Slug = s) \/ \E id \in Left : journals[id].slug = s
Settled(s) ==
  /\ HasIt(s, managed[s])
  /\ pluginsUp => pluginState[s] = managed[s]
  /\ "undone" \notin Troubles => pluginTold[s] \in {None, managed[s]}

Written == journals[pluginTask.id]
IsWritten == Written \in GoodJournals /\ \E phase \in Phases : Written = [pluginTask.journal EXCEPT !.phase = phase]

\* Where the operation is, what it has done.
ForwardSound ==
  LET j == pluginTask.journal
      at == pluginTask.at
      s == Slug
  IN /\ ~pluginTask.forward /\ pluginsUp
     /\ IF at = "stage" THEN Written = None ELSE Written = j
     /\ at \in {"stage", "start"} => j.phase = "staged"
     /\ at \in {"run", "enable", "commit"} => j.phase = "runtime-starting"
     /\ at \in {"record", "close"} => j.phase = "runtime-committed"
     /\ at = "finish" => j.phase = "committed"
     /\ at \in {"stage", "start", "run"} => HasIt(s, j.prev)
     /\ at = "enable" => s \notin Bundled /\ plugins[s].version = j.next.version /\ j.next.version # 0
     /\ at \in {"commit", "record", "close", "finish"} => HasIt(s, j.next)
     /\ IF at \in {"close", "finish"} THEN managed[s] = j.next /\ pluginState[s] = j.next
                                       ELSE managed[s] = j.prev /\ pluginState[s] = j.prev

\* Where undoing or a recovery is.  A recovery does what the journal on the disk says; an
\* operation may be undone although it says otherwise.
ApplyingSound ==
  LET at == pluginTask.at
      s == Slug
  IN /\ IsWritten
     /\ IF pluginsUp THEN ~pluginTask.forward
        ELSE Written = pluginTask.journal /\ pluginTask.forward = Ahead(Written)
     /\ at = "switch" => Desired.version # 0 /\ s \notin Bundled
     /\ at \in {"settle", "forget"} => HasIt(s, Desired)
     /\ at = "forget" => managed[s] = Desired /\ (pluginsUp => pluginState[s] = Desired)

TaskSound ==
  ~Idle =>
    /\ Left \subseteq {pluginTask.id}
    /\ pluginsUp => pluginTold[Slug] = None
    /\ pluginTask.at \in Forward => ForwardSound
    /\ pluginTask.at \in Applying => ApplyingSound

PluginsSound ==
  /\ PluginsTyped
  /\ \A s \in Slugs : BundledStays(s) /\ (Concerned(s) \/ Settled(s))
  /\ \A a, b \in Left : a = b
  /\ \A id \in Operations : LeftSound(id)
  /\ TaskSound

-----------------------------------------------------------------------------
(* What the constants are assumed to keep apart. *)
LEMMA NoneIsApart ==
  /\ None \notin GoodJournals /\ None \notin CleanRecords /\ None \notin Records
  /\ NoTask \notin Tasks
<1>1. NoTask \notin Tasks
  BY DEF NoTask, Tasks, Forward, Applying
<1> QED BY <1>1, NoneIsNoJournal, NoneIsNoRecord DEF GoodJournals, CleanRecords

LEMMA NoRecordIsClean == NoRecord \in CleanRecords /\ NoRecord.version = 0 /\ NoRecord.enabled = FALSE
BY CapabilityAssumption DEF CleanRecords, Records, NoRecord

(* What the records and the journals are made of. *)
LEMMA RecordIs ==
  ASSUME NEW r \in CleanRecords
  PROVE  /\ r \in Records /\ r.version \in 0 .. MaxVersion /\ r.enabled \in BOOLEAN
         /\ r = [version |-> r.version, enabled |-> r.enabled]
         /\ r.version = 0 => r = NoRecord
BY DEF CleanRecords, Records

LEMMA JournalIs ==
  ASSUME NEW j \in GoodJournals
  PROVE  /\ j \in Journals /\ j.slug \in Slugs /\ j.phase \in Phases
         /\ j.action \in {"replace", "remove", "metadata"}
         /\ j.prev \in CleanRecords /\ j.next \in CleanRecords
         /\ j.prevOn \in BOOLEAN /\ j.nextOn \in BOOLEAN
         /\ j # None
BY NoneIsApart DEF GoodJournals, Journals

(* The next phase of a journal changes nothing else in it. *)
LEMMA PhaseIs ==
  ASSUME NEW j \in GoodJournals, NEW phase \in Phases, NEW k, k = [j EXCEPT !.phase = phase]
  PROVE  /\ k \in GoodJournals /\ k.phase = phase
         /\ k.slug = j.slug /\ k.action = j.action /\ k.prev = j.prev /\ k.next = j.next
         /\ k.prevOn = j.prevOn /\ k.nextOn = j.nextOn
<1>1. j \in Journals
  BY JournalIs
<1>2. k \in Journals
  BY <1>1 DEF Journals
<1>3. /\ k.phase = phase /\ k.slug = j.slug /\ k.action = j.action /\ k.prev = j.prev
      /\ k.next = j.next /\ k.prevOn = j.prevOn /\ k.nextOn = j.nextOn
  BY <1>1 DEF Journals
<1> QED BY <1>2, <1>3 DEF GoodJournals

(* So does the next stage of what is under way. *)
LEMMA StageIs ==
  ASSUME NEW t \in Tasks, NEW stage \in Forward \cup Applying, NEW u, u = [t EXCEPT !.at = stage]
  PROVE  /\ u \in Tasks /\ u # NoTask /\ u.at = stage
         /\ u.id = t.id /\ u.forward = t.forward /\ u.journal = t.journal
<1>1. u \in Tasks /\ u.at = stage /\ u.id = t.id /\ u.forward = t.forward /\ u.journal = t.journal
  BY DEF Tasks
<1> QED BY <1>1, NoneIsApart

(* An operation under way, and the journal of it that is on the disk. *)
LEMMA BusyIs ==
  ASSUME PluginsTyped, ~Idle
  PROVE  /\ pluginTask \in Tasks /\ pluginTask.at \in Forward \cup Applying
         /\ pluginTask.id \in Operations /\ pluginTask.forward \in BOOLEAN
         /\ pluginTask.journal \in GoodJournals /\ Slug \in Slugs
BY JournalIs DEF PluginsTyped, Idle, Tasks, Slug

LEMMA WrittenIs ==
  ASSUME PluginsTyped, ~Idle, IsWritten
  PROVE  /\ Written # None /\ Written.slug = Slug /\ Written.action = pluginTask.journal.action
         /\ Written.prev = pluginTask.journal.prev /\ Written.next = pluginTask.journal.next
<1>1. PICK phase \in Phases : Written = [pluginTask.journal EXCEPT !.phase = phase]
  BY DEF IsWritten
<1>2. Written # None
  BY NoneIsApart DEF IsWritten
<1> QED BY <1>1, <1>2, BusyIs, PhaseIs DEF Slug

(* Nothing is under way about another plugin. *)
LEMMA OneJournal ==
  ASSUME PluginsSound, ~Idle, NEW i \in Left
  PROVE  i = pluginTask.id /\ journals[i].slug = Slug
<1>1. i = pluginTask.id
  BY DEF PluginsSound, TaskSound
<1>2. journals[i] # None
  BY DEF Left
<1>3. CASE pluginTask.at \in Forward
  BY <1>1, <1>2, <1>3 DEF PluginsSound, TaskSound, ForwardSound, Written, Slug
<1>4. CASE pluginTask.at \in Applying
  BY <1>1, <1>4, WrittenIs DEF PluginsSound, TaskSound, ApplyingSound, Written
<1> QED BY <1>1, <1>3, <1>4, BusyIs DEF PluginsSound

LEMMA OthersSettled ==
  ASSUME PluginsSound, ~Idle, NEW r \in Slugs, r # Slug
  PROVE  Settled(r) /\ BundledStays(r)
<1>1. ~Concerned(r)
  BY OneJournal DEF Concerned
<1> QED BY <1>1 DEF PluginsSound

(* A step of an operation, of undoing or of a recovery is about one plugin and one journal;
   this is what is left to be shown of it. *)
LEMMA TaskStep ==
  ASSUME PluginsSound, ~Idle, PluginsTyped', pluginsUp' = pluginsUp,
         NEW s \in Slugs, s = Slug, NEW id \in Operations, id = pluginTask.id,
         \A r \in Slugs \ {s} :
           /\ plugins'[r] = plugins[r] /\ managed'[r] = managed[r] /\ pluginTold'[r] = pluginTold[r]
           /\ pluginsUp \/ r \in Bundled => pluginState'[r] = pluginState[r],
         \A i \in Operations \ {id} : journals'[i] = journals[i],
         journals'[id] # None => journals'[id].slug = s,
         BundledStays(s)', LeftSound(id)',
         Idle' \/ (pluginTask'.id = id /\ Slug' = s),
         TaskSound',
         Idle' /\ journals'[id] = None => Settled(s)'
  PROVE  PluginsSound'
<1>2. Left \subseteq {id} /\ Left' \subseteq {id}
  BY DEF PluginsSound, TaskSound, Left
<1>3. \A a, b \in Left' : a = b
  BY <1>2
<1>5. ASSUME NEW r \in Slugs, r # s PROVE BundledStays(r)' /\ Settled(r)'
  <2>1. Settled(r) /\ BundledStays(r)
    BY <1>5, OthersSettled
  <2> QED BY <2>1, <1>5 DEF Settled, HasIt, BundledStays
<1>6. Concerned(s)' \/ Settled(s)'
  <2>1. CASE ~Idle'
    BY <2>1 DEF Concerned
  <2>2. CASE journals'[id] # None
    BY <2>2 DEF Concerned, Left
  <2> QED BY <2>1, <2>2
<1>7. \A i \in Operations : LeftSound(i)'
  BY <1>2 DEF LeftSound, Left
<1>8. \A r \in Slugs : BundledStays(r)' /\ (Concerned(r)' \/ Settled(r)')
  <2> TAKE r \in Slugs
  <2>1. CASE r = s
    BY <2>1, <1>6
  <2> QED BY <2>1, <1>5
<1> QED BY <1>3, <1>7, <1>8 DEF PluginsSound

(* What a step about the plugin s and the journal id leaves alone. *)
OnlyAbout(s, id) ==
  /\ pluginsUp' = pluginsUp
  /\ \A r \in Slugs \ {s} :
       /\ plugins'[r] = plugins[r] /\ managed'[r] = managed[r] /\ pluginTold'[r] = pluginTold[r]
       /\ pluginsUp \/ r \in Bundled => pluginState'[r] = pluginState[r]
  /\ \A i \in Operations \ {id} : journals'[i] = journals[i]

(* The operation goes on. *)
LEMMA ForwardKeeps ==
  ASSUME PluginsSound, ~Idle, pluginTask.at \in Forward, PluginsTyped',
         NEW s \in Slugs, s = Slug, NEW id \in Operations, id = pluginTask.id,
         OnlyAbout(s, id), BundledStays(s)', pluginTold' = pluginTold,
         pluginTask' # NoTask, pluginTask'.at \in Forward, pluginTask'.id = id, Slug' = s,
         ForwardSound'
  PROVE  PluginsSound'
<1>1. ~Idle' /\ pluginTask' \in Tasks
  BY DEF Idle, PluginsTyped
<1>2. Left' \subseteq {id}
  BY DEF PluginsSound, TaskSound, OnlyAbout, Left
<1>3. pluginsUp /\ pluginTold[s] = None
  BY DEF PluginsSound, TaskSound, ForwardSound
<1>4. TaskSound'
  <2>1. Left' \subseteq {pluginTask'.id} /\ pluginTold'[Slug'] = None
    BY <1>2, <1>3
  <2>2. pluginTask'.at \notin Applying
    BY DEF Forward, Applying
  <2> QED BY <2>1, <2>2 DEF TaskSound
<1>5. journals'[id] # None => /\ journals'[id] = pluginTask'.journal /\ journals'[id].slug = s
                              /\ journals'[id].phase = "staged" => HasIt(s, journals[id].prev)'
  BY DEF ForwardSound, Written, Slug, Forward
<1>6. LeftSound(id)'
  BY <1>3, <1>5 DEF LeftSound, HasIt
<1> QED BY <1>1, <1>4, <1>5, <1>6, TaskStep DEF OnlyAbout

(* The operation fails and is undone. *)
LEMMA UndoneKeeps ==
  ASSUME PluginsSound, ~Idle, pluginTask.at \in Forward, PluginsTyped',
         NEW s \in Slugs, s = Slug, NEW id \in Operations, id = pluginTask.id,
         OnlyAbout(s, id), BundledStays(s)', Undone,
         NEW j \in GoodJournals, j = pluginTask.journal,
         NEW phase \in Phases, journals'[id] = [j EXCEPT !.phase = phase],
         phase = "staged" => HasIt(s, j.prev)'
  PROVE  PluginsSound'
<1> DEFINE k == journals'[id]
<1>1. /\ pluginTask' \in Tasks /\ pluginTask' # NoTask /\ pluginTask'.at = "apply" /\ pluginTask'.id = id
      /\ pluginTask'.journal = j /\ ~pluginTask'.forward /\ pluginsUp' /\ pluginTold' = pluginTold
      /\ pluginTold[s] = None
  <2>1. pluginTask \in Tasks /\ ~pluginTask.forward /\ pluginsUp /\ pluginTold[s] = None
    BY BusyIs DEF PluginsSound, TaskSound, ForwardSound
  <2>2. "apply" \in Forward \cup Applying
    BY DEF Applying
  <2> QED BY <2>1, <2>2, StageIs DEF Undone, Untold, OnlyAbout
<1>2. Left' \subseteq {id}
  BY DEF PluginsSound, TaskSound, OnlyAbout, Left
<1>3. /\ k \in GoodJournals /\ k # None /\ k.phase = phase /\ k.slug = s /\ k.prev = j.prev
      /\ Slug' = s
  BY <1>1, PhaseIs, NoneIsApart DEF Slug
<1>4. IsWritten'
  BY <1>1, <1>3 DEF IsWritten, Written
<1>5. ApplyingSound'
  BY <1>1, <1>4 DEF ApplyingSound
<1>6. TaskSound'
  <2>1. pluginTask'.at \notin Forward
    BY <1>1 DEF Forward
  <2> QED BY <1>1, <1>2, <1>3, <1>5, <2>1 DEF TaskSound
<1>7. LeftSound(id)'
  BY <1>1, <1>3 DEF LeftSound, HasIt
<1> QED BY <1>1, <1>3, <1>6, <1>7, TaskStep DEF OnlyAbout, Idle

(* Which facts the steps of an operation start from. *)
LEMMA ForwardIs ==
  ASSUME PluginsSound, ~Idle, pluginTask.at \in Forward
  PROVE  /\ PluginsTyped /\ pluginTask \in Tasks /\ pluginTask.id \in Operations
         /\ Slug \in Slugs /\ pluginTask.journal \in GoodJournals /\ Slug = pluginTask.journal.slug
         /\ pluginsUp /\ pluginTold[Slug] = None /\ ForwardSound /\ BundledStays(Slug)
         /\ pluginTask.at # "stage" => journals[pluginTask.id] = pluginTask.journal
BY BusyIs DEF PluginsSound, TaskSound, ForwardSound, Written, Slug

(* Saves changes the journal and what is under way alone. *)
LEMMA SavesKeeps ==
  ASSUME PluginsSound, pluginTask \in Tasks, pluginTask.at \in Forward,
         NEW stage \in Forward, NEW k \in GoodJournals, k.slug = Slug,
         journals' = [journals EXCEPT ![pluginTask.id] = k],
         pluginTask' = [pluginTask EXCEPT !.journal = k, !.at = stage],
         UNCHANGED <<plugins, managed, pluginState, pluginsUp, pluginTold>>,
         ForwardSound'
  PROVE  PluginsSound'
<1> ~Idle
  BY NoneIsApart DEF Idle
<1>1. PICK s \in Slugs, id \in Operations : s = Slug /\ id = pluginTask.id
  BY ForwardIs
<1>2. PluginsTyped /\ BundledStays(s)
  BY <1>1, ForwardIs
<1>3. /\ pluginTask' \in Tasks /\ pluginTask' # NoTask
      /\ pluginTask'.id = id /\ pluginTask'.at = stage /\ pluginTask'.journal = k
  <2>1. pluginTask' \in Tasks
    BY DEF Tasks
  <2>2. /\ pluginTask'.id = pluginTask.id /\ pluginTask'.at = stage /\ pluginTask'.journal = k
    BY DEF Tasks
  <2> QED BY <1>1, <2>1, <2>2, NoneIsApart
<1>4. PluginsTyped'
  BY <1>2, <1>3 DEF PluginsTyped
<1>5. OnlyAbout(s, id)
  BY <1>1, <1>2 DEF OnlyAbout, PluginsTyped
<1>6. Slug' = s
  BY <1>1, <1>3 DEF Slug
<1>7. BundledStays(s)'
  BY <1>2 DEF BundledStays
<1> QED BY <1>1, <1>3, <1>4, <1>5, <1>6, <1>7, ForwardKeeps

LEMMA SamePhase == ASSUME NEW j \in GoodJournals PROVE j = [j EXCEPT !.phase = j.phase]
BY DEF GoodJournals, Journals

(* A failed write has it undone: what is on the disk then. *)
LEMMA UndoneAfterSave ==
  ASSUME PluginsSound, ~Idle, pluginTask.at \in Forward \ {"stage"},
         NEW phase \in Phases \ {"staged"}, Undone,
         UNCHANGED <<plugins, managed, pluginState, pluginsUp, pluginTold>>,
         NEW j, j = pluginTask.journal, NEW k, k = [j EXCEPT !.phase = phase],
         journals' = journals \/ journals' = [journals EXCEPT ![pluginTask.id] = k]
  PROVE  PluginsSound'
<1>1. PICK s \in Slugs, id \in Operations : s = Slug /\ id = pluginTask.id
  BY ForwardIs
<1>2. /\ PluginsTyped /\ BundledStays(s) /\ pluginTask \in Tasks /\ j \in GoodJournals
      /\ journals[id] = j /\ ForwardSound
  BY <1>1, ForwardIs
<1>3. k \in GoodJournals
  BY <1>2, PhaseIs
<1>4. PluginsTyped'
  <2>1. journals' \in [Operations -> GoodJournals \cup {None}]
    BY <1>2, <1>3 DEF PluginsTyped
  <2>2. "apply" \in Forward \cup Applying
    BY DEF Applying
  <2>3. pluginTask' \in Tasks
    BY <1>2, <2>2, StageIs DEF Undone
  <2> QED BY <1>2, <2>1, <2>3 DEF PluginsTyped
<1>5. OnlyAbout(s, id) /\ BundledStays(s)'
  BY <1>1, <1>2 DEF OnlyAbout, PluginsTyped, BundledStays
<1>6. PICK p \in Phases : journals'[id] = [j EXCEPT !.phase = p] /\ (p = "staged" => j.phase = "staged")
  <2>1. CASE journals' = journals
    <3>1. j.phase \in Phases /\ journals'[id] = [j EXCEPT !.phase = j.phase]
      BY <1>2, <2>1, SamePhase, JournalIs
    <3> QED BY <3>1
  <2>2. CASE journals' = [journals EXCEPT ![id] = k]
    BY <1>2, <2>2 DEF PluginsTyped
  <2> QED BY <1>1, <2>1, <2>2
<1>7. p = "staged" => HasIt(s, j.prev)'
  BY <1>1, <1>2, <1>6 DEF ForwardSound, HasIt, Forward
<1> QED BY <1>1, <1>2, <1>4, <1>5, <1>6, <1>7, UndoneKeeps

(* Each step of an operation on a plugin keeps the invariant: this one writes a phase. *)
LEMMA StartsRuntimeKeeps == ASSUME PluginsSound, StartsRuntime PROVE PluginsSound'
<1>1. ~Idle /\ pluginTask.at = "start" /\ pluginTask.at \in Forward \ {"stage"} /\ "run" \in Forward
      /\ "runtime-starting" \in Phases /\ "runtime-starting" \in Phases \ {"staged"}
  BY DEF StartsRuntime, Doing, Idle, Forward, Phases
<1>2. /\ ForwardSound /\ pluginTask \in Tasks /\ pluginsUp /\ PluginsTyped
      /\ pluginTask.journal \in GoodJournals /\ Slug = pluginTask.journal.slug
      /\ pluginTask.id \in Operations
  BY <1>1, ForwardIs
<1> DEFINE k == [pluginTask.journal EXCEPT !.phase = "runtime-starting"]
<1>3. /\ UNCHANGED <<plugins, managed, pluginState, pluginsUp, pluginTold>>
      /\ \/ /\ journals' = [journals EXCEPT ![pluginTask.id] = k]
            /\ pluginTask' = [pluginTask EXCEPT !.journal = k, !.at = "run"]
         \/ Undone /\ (journals' = journals \/ journals' = [journals EXCEPT ![pluginTask.id] = k])
  BY DEF StartsRuntime, Saves, Attempt, Undone, Untold
<1>4. /\ k \in GoodJournals /\ k.slug = Slug /\ k.phase = "runtime-starting"
      /\ k.prev = pluginTask.journal.prev /\ k.next = pluginTask.journal.next
  BY <1>1, <1>2, PhaseIs
<1>5. CASE Undone /\ (journals' = journals \/ journals' = [journals EXCEPT ![pluginTask.id] = k])
  BY <1>1, <1>3, <1>5, UndoneAfterSave
<1> HIDE DEF k
<1>6. CASE /\ journals' = [journals EXCEPT ![pluginTask.id] = k]
           /\ pluginTask' = [pluginTask EXCEPT !.journal = k, !.at = "run"]
  <2>1. /\ pluginTask'.journal = k /\ pluginTask'.at = "run"
        /\ pluginTask'.id = pluginTask.id /\ pluginTask'.forward = pluginTask.forward
    BY <1>2, <1>6 DEF Tasks
  <2>2. Written' = k /\ Slug' = Slug
    BY <1>2, <1>4, <1>6, <2>1 DEF Written, Slug, PluginsTyped
  <2>3. ForwardSound'
    BY <1>1, <1>2, <1>3, <1>4, <2>1, <2>2 DEF ForwardSound, HasIt
  <2> QED BY <1>1, <1>2, <1>3, <1>4, <1>6, <2>3, SavesKeeps
<1> QED BY <1>3, <1>5, <1>6

LEMMA CommitsRuntimeKeeps == ASSUME PluginsSound, CommitsRuntime PROVE PluginsSound'
<1>1. ~Idle /\ pluginTask.at = "commit" /\ pluginTask.at \in Forward \ {"stage"} /\ "record" \in Forward
      /\ "runtime-committed" \in Phases /\ "runtime-committed" \in Phases \ {"staged"}
  BY DEF CommitsRuntime, Doing, Idle, Forward, Phases
<1>2. /\ ForwardSound /\ pluginTask \in Tasks /\ pluginsUp /\ PluginsTyped
      /\ pluginTask.journal \in GoodJournals /\ Slug = pluginTask.journal.slug
      /\ pluginTask.id \in Operations
  BY <1>1, ForwardIs
<1> DEFINE k == [pluginTask.journal EXCEPT !.phase = "runtime-committed"]
<1>3. /\ UNCHANGED <<plugins, managed, pluginState, pluginsUp, pluginTold>>
      /\ \/ /\ journals' = [journals EXCEPT ![pluginTask.id] = k]
            /\ pluginTask' = [pluginTask EXCEPT !.journal = k, !.at = "record"]
         \/ Undone /\ (journals' = journals \/ journals' = [journals EXCEPT ![pluginTask.id] = k])
  BY DEF CommitsRuntime, Saves, Attempt, Undone, Untold
<1>4. /\ k \in GoodJournals /\ k.slug = Slug /\ k.phase = "runtime-committed"
      /\ k.prev = pluginTask.journal.prev /\ k.next = pluginTask.journal.next
  BY <1>1, <1>2, PhaseIs
<1>5. CASE Undone /\ (journals' = journals \/ journals' = [journals EXCEPT ![pluginTask.id] = k])
  BY <1>1, <1>3, <1>5, UndoneAfterSave
<1> HIDE DEF k
<1>6. CASE /\ journals' = [journals EXCEPT ![pluginTask.id] = k]
           /\ pluginTask' = [pluginTask EXCEPT !.journal = k, !.at = "record"]
  <2>1. /\ pluginTask'.journal = k /\ pluginTask'.at = "record"
        /\ pluginTask'.id = pluginTask.id /\ pluginTask'.forward = pluginTask.forward
    BY <1>2, <1>6 DEF Tasks
  <2>2. Written' = k /\ Slug' = Slug
    BY <1>2, <1>4, <1>6, <2>1 DEF Written, Slug, PluginsTyped
  <2>3. ForwardSound'
    BY <1>1, <1>2, <1>3, <1>4, <2>1, <2>2 DEF ForwardSound, HasIt
  <2> QED BY <1>1, <1>2, <1>3, <1>4, <1>6, <2>3, SavesKeeps
<1> QED BY <1>3, <1>5, <1>6

LEMMA CommitsStateKeeps == ASSUME PluginsSound, CommitsState PROVE PluginsSound'
<1>1. ~Idle /\ pluginTask.at = "close" /\ pluginTask.at \in Forward \ {"stage"} /\ "finish" \in Forward
      /\ "committed" \in Phases /\ "committed" \in Phases \ {"staged"}
  BY DEF CommitsState, Doing, Idle, Forward, Phases
<1>2. /\ ForwardSound /\ pluginTask \in Tasks /\ pluginsUp /\ PluginsTyped
      /\ pluginTask.journal \in GoodJournals /\ Slug = pluginTask.journal.slug
      /\ pluginTask.id \in Operations
  BY <1>1, ForwardIs
<1> DEFINE k == [pluginTask.journal EXCEPT !.phase = "committed"]
<1>3. /\ UNCHANGED <<plugins, managed, pluginState, pluginsUp, pluginTold>>
      /\ \/ /\ journals' = [journals EXCEPT ![pluginTask.id] = k]
            /\ pluginTask' = [pluginTask EXCEPT !.journal = k, !.at = "finish"]
         \/ Undone /\ (journals' = journals \/ journals' = [journals EXCEPT ![pluginTask.id] = k])
  BY DEF CommitsState, Saves, Attempt, Undone, Untold
<1>4. /\ k \in GoodJournals /\ k.slug = Slug /\ k.phase = "committed"
      /\ k.prev = pluginTask.journal.prev /\ k.next = pluginTask.journal.next
  BY <1>1, <1>2, PhaseIs
<1>5. CASE Undone /\ (journals' = journals \/ journals' = [journals EXCEPT ![pluginTask.id] = k])
  BY <1>1, <1>3, <1>5, UndoneAfterSave
<1> HIDE DEF k
<1>6. CASE /\ journals' = [journals EXCEPT ![pluginTask.id] = k]
           /\ pluginTask' = [pluginTask EXCEPT !.journal = k, !.at = "finish"]
  <2>1. /\ pluginTask'.journal = k /\ pluginTask'.at = "finish"
        /\ pluginTask'.id = pluginTask.id /\ pluginTask'.forward = pluginTask.forward
    BY <1>2, <1>6 DEF Tasks
  <2>2. Written' = k /\ Slug' = Slug
    BY <1>2, <1>4, <1>6, <2>1 DEF Written, Slug, PluginsTyped
  <2>3. ForwardSound'
    BY <1>1, <1>2, <1>3, <1>4, <2>1, <2>2 DEF ForwardSound, HasIt
  <2> QED BY <1>1, <1>2, <1>3, <1>4, <1>6, <2>3, SavesKeeps
<1> QED BY <1>3, <1>5, <1>6

(* OpenClaw's commands: what they make of the plugin they are about. *)
LEMMA CommandIs ==
  ASSUME PluginsTyped, NEW s \in Slugs, NEW r \in CleanRecords, plugins' = [plugins EXCEPT ![s] = r]
  PROVE  /\ plugins' \in [Slugs -> CleanRecords] /\ plugins'[s] = r
         /\ \A q \in Slugs \ {s} : plugins'[q] = plugins[q]
BY DEF PluginsTyped

(* What the commands of OpenClaw make of its plugins. *)
LEMMA NothingIs ==
  ASSUME PluginsTyped, NEW s \in Slugs, UNCHANGED plugins
  PROVE  /\ plugins' \in [Slugs -> CleanRecords] /\ plugins'[s] = plugins[s]
         /\ \A q \in Slugs \ {s} : plugins'[q] = plugins[q]
BY DEF PluginsTyped

LEMMA InstallsIs ==
  ASSUME PluginsTyped, NEW s \in Slugs, NEW version \in 1 .. MaxVersion, Installs(s, version)
  PROVE  /\ plugins' \in [Slugs -> CleanRecords]
         /\ plugins'[s].version = version
         /\ plugins[s].version = version => plugins'[s] = plugins[s]
         /\ \A q \in Slugs \ {s} : plugins'[q] = plugins[q]
<1>1. PICK enabled \in (IF plugins[s].version = 0 THEN BOOLEAN ELSE {plugins[s].enabled}) :
        plugins' = [plugins EXCEPT ![s] = [version |-> version, enabled |-> enabled]]
  BY DEF Installs, Command
<1> DEFINE r == [version |-> version, enabled |-> enabled]
<1>2. plugins[s] \in CleanRecords /\ plugins[s].enabled \in BOOLEAN
  BY RecordIs DEF PluginsTyped
<1>3. version # 0 /\ version \in 0 .. MaxVersion
  BY CapabilityAssumption
<1>4. r \in CleanRecords /\ r.version = version
  BY <1>1, <1>2, <1>3 DEF CleanRecords, Records
<1>5. plugins[s].version = version => r = plugins[s]
  <2> SUFFICES ASSUME plugins[s].version = version PROVE r = plugins[s]
    OBVIOUS
  <2>1. enabled = plugins[s].enabled
    BY <1>1, <1>3
  <2> QED BY <1>2, <2>1, RecordIs
<1> HIDE DEF r
<1>6. plugins' = [plugins EXCEPT ![s] = r]
  BY <1>1 DEF r
<1> QED BY <1>4, <1>5, <1>6, CommandIs

LEMMA SwitchedIs ==
  ASSUME PluginsTyped, NEW s \in Slugs, NEW on \in BOOLEAN, Switched(s, on), plugins[s].version # 0
  PROVE  /\ plugins' \in [Slugs -> CleanRecords]
         /\ plugins'[s].version = plugins[s].version /\ plugins'[s].enabled = on
         /\ plugins'[s] \in CleanRecords
         /\ \A q \in Slugs \ {s} : plugins'[q] = plugins[q]
<1> DEFINE r == [plugins[s] EXCEPT !.enabled = on]
<1>1. plugins[s] \in CleanRecords
  BY DEF PluginsTyped
<1>2. r \in CleanRecords /\ r.version = plugins[s].version /\ r.enabled = on
  BY <1>1 DEF CleanRecords, Records
<1>3. plugins' = [plugins EXCEPT ![s] = r]
  BY DEF Switched, Command
<1> HIDE DEF r
<1> QED BY <1>2, <1>3, CommandIs

LEMMA SameRecord ==
  ASSUME NEW r \in CleanRecords, NEW q \in CleanRecords, r.version = q.version, r.enabled = q.enabled
  PROVE  r = q
BY RecordIs

(* A step of an operation that leaves the journal alone. *)
LEMMA StepKeeps ==
  ASSUME PluginsSound, ~Idle, pluginTask.at \in Forward, NEW stage \in Forward,
         NEW s \in Slugs, s = Slug,
         plugins' \in [Slugs -> CleanRecords], managed' \in [Slugs -> CleanRecords],
         pluginState' \in [Slugs -> CleanRecords],
         \A r \in Slugs \ {s} : /\ plugins'[r] = plugins[r] /\ managed'[r] = managed[r]
                                /\ pluginState'[r] = pluginState[r],
         BundledStays(s)', UNCHANGED <<pluginsUp, journals, pluginTold>>,
         pluginTask' = [pluginTask EXCEPT !.at = stage], ForwardSound'
  PROVE  PluginsSound'
<1>1. PICK id \in Operations : id = pluginTask.id
  BY ForwardIs
<1>2. PluginsTyped /\ pluginTask \in Tasks
  BY ForwardIs
<1>3. /\ pluginTask' \in Tasks /\ pluginTask' # NoTask /\ pluginTask'.at = stage
      /\ pluginTask'.id = id /\ Slug' = s
  BY <1>1, <1>2, StageIs DEF Slug
<1>4. PluginsTyped'
  BY <1>2, <1>3 DEF PluginsTyped
<1>5. OnlyAbout(s, id)
  BY <1>2 DEF OnlyAbout, PluginsTyped
<1> QED BY <1>1, <1>3, <1>4, <1>5, ForwardKeeps

(* A step that fails leaves the task undone, whatever of it took place. *)
LEMMA UndoneAfterStep ==
  ASSUME PluginsSound, ~Idle, pluginTask.at \in Forward, pluginTask.journal.phase # "staged",
         NEW s \in Slugs, s = Slug,
         plugins' \in [Slugs -> CleanRecords], managed' \in [Slugs -> CleanRecords],
         pluginState' \in [Slugs -> CleanRecords],
         \A r \in Slugs \ {s} : /\ plugins'[r] = plugins[r] /\ managed'[r] = managed[r]
                                /\ pluginState'[r] = pluginState[r],
         BundledStays(s)', UNCHANGED <<pluginsUp, journals>>, Undone
  PROVE  PluginsSound'
<1>1. PICK id \in Operations, j \in GoodJournals : id = pluginTask.id /\ j = pluginTask.journal
  BY ForwardIs
<1>2. /\ PluginsTyped /\ pluginTask \in Tasks
      /\ pluginTold' = pluginTold /\ pluginTask' = [pluginTask EXCEPT !.at = "apply"]
  BY ForwardIs DEF Undone, Untold
<1>3. pluginTask' \in Tasks
  <2>1. "apply" \in Forward \cup Applying
    BY DEF Applying
  <2> QED BY <1>2, <2>1, StageIs
<1>4. PluginsTyped'
  BY <1>2, <1>3 DEF PluginsTyped
<1>5. OnlyAbout(s, id)
  BY <1>2 DEF OnlyAbout, PluginsTyped
<1>6. journals'[id] = [j EXCEPT !.phase = j.phase] /\ j.phase \in Phases
  <2>1. pluginTask.at # "stage"
    BY ForwardIs DEF ForwardSound
  <2> QED BY <1>1, <2>1, ForwardIs, SamePhase, JournalIs
<1> QED BY <1>1, <1>4, <1>5, <1>6, UndoneKeeps

LEMMA RunsRuntimeKeeps == ASSUME PluginsSound, RunsRuntime PROVE PluginsSound'
<1>1. /\ ~Idle /\ pluginTask.at = "run" /\ pluginTask.at \in Forward
      /\ "enable" \in Forward /\ "commit" \in Forward
  BY DEF RunsRuntime, Doing, Idle, Forward
<1>2. PICK s \in Slugs, j \in GoodJournals : s = Slug /\ j = pluginTask.journal /\ s = j.slug
  BY <1>1, ForwardIs
<1>3. /\ PluginsTyped /\ ForwardSound /\ BundledStays(s) /\ pluginTask \in Tasks /\ pluginsUp
      /\ j.phase = "runtime-starting" /\ HasIt(s, j.prev) /\ journals[pluginTask.id] = j
      /\ managed[s] = j.prev /\ pluginState[s] = j.prev /\ ~pluginTask.forward
  BY <1>1, <1>2, ForwardIs DEF ForwardSound
<1>4. UNCHANGED <<managed, pluginState, pluginsUp, journals>>
  BY <1>2, JournalIs DEF RunsRuntime, Runs
<1>5. /\ managed' \in [Slugs -> CleanRecords] /\ pluginState' \in [Slugs -> CleanRecords]
      /\ \A r \in Slugs \ {s} : managed'[r] = managed[r] /\ pluginState'[r] = pluginState[r]
  BY <1>3, <1>4 DEF PluginsTyped
<1>6. ASSUME NEW stage \in {"enable", "commit"}, pluginTask' = [pluginTask EXCEPT !.at = stage]
      PROVE  /\ pluginTask'.at = stage /\ pluginTask'.journal = j /\ ~pluginTask'.forward
             /\ Slug' = s /\ Written' = j
  <2>1. stage \in Forward \cup Applying
    BY <1>1
  <2>2. /\ pluginTask'.at = stage /\ pluginTask'.journal = j /\ ~pluginTask'.forward
        /\ pluginTask'.id = pluginTask.id
    BY <1>2, <1>3, <1>6, <2>1, StageIs
  <2> QED BY <1>2, <1>3, <1>4, <2>2 DEF Slug, Written
<1>7. CASE j.action = "replace"
  <2>1. /\ s \notin Bundled /\ j.next.version \in 1 .. MaxVersion
    BY <1>2, <1>7, RecordIs, JournalIs, CapabilityAssumption DEF GoodJournals
  <2>2. \/ /\ Installs(s, j.next.version) /\ pluginTold' = pluginTold
           /\ pluginTask' = [pluginTask EXCEPT !.at = "enable"]
        \/ (Installs(s, j.next.version) \/ UNCHANGED plugins) /\ Undone
    BY <1>2, <1>7 DEF RunsRuntime, Runs, Attempt, Goes, Untold
  <2>3. CASE /\ Installs(s, j.next.version) /\ pluginTold' = pluginTold
             /\ pluginTask' = [pluginTask EXCEPT !.at = "enable"]
    <3>1. /\ plugins' \in [Slugs -> CleanRecords] /\ plugins'[s].version = j.next.version
          /\ \A q \in Slugs \ {s} : plugins'[q] = plugins[q]
      BY <1>3, <2>1, <2>3, InstallsIs
    <3>2. ForwardSound'
      BY <1>2, <1>3, <1>4, <1>6, <2>1, <2>3, <3>1 DEF ForwardSound, HasIt
    <3>3. BundledStays(s)'
      BY <2>1 DEF BundledStays
    <3> QED BY <1>1, <1>2, <1>4, <1>5, <2>3, <3>1, <3>2, <3>3, StepKeeps
  <2>4. CASE (Installs(s, j.next.version) \/ UNCHANGED plugins) /\ Undone
    <3>1. /\ plugins' \in [Slugs -> CleanRecords]
          /\ \A q \in Slugs \ {s} : plugins'[q] = plugins[q]
      BY <1>3, <2>1, <2>4, InstallsIs, NothingIs
    <3>2. BundledStays(s)'
      BY <2>1 DEF BundledStays
    <3> QED BY <1>1, <1>2, <1>3, <1>4, <1>5, <2>4, <3>1, <3>2, UndoneAfterStep
  <2> QED BY <2>2, <2>3, <2>4
<1>8. CASE j.action = "remove"
  <2>1. s \notin Bundled /\ j.next = NoRecord
    BY <1>2, <1>8 DEF GoodJournals
  <2>2. \/ /\ Command(s, NoRecord) /\ pluginTold' = pluginTold
           /\ pluginTask' = [pluginTask EXCEPT !.at = "commit"]
        \/ (Command(s, NoRecord) \/ UNCHANGED plugins) /\ Undone
    BY <1>2, <1>8 DEF RunsRuntime, Runs, Attempt, Goes, Untold
  <2>3. CASE /\ Command(s, NoRecord) /\ pluginTold' = pluginTold
             /\ pluginTask' = [pluginTask EXCEPT !.at = "commit"]
    <3>1. /\ plugins' \in [Slugs -> CleanRecords] /\ plugins'[s] = NoRecord
          /\ \A q \in Slugs \ {s} : plugins'[q] = plugins[q]
      BY <1>3, <2>3, CommandIs, NoRecordIsClean DEF Command
    <3>2. ForwardSound'
      BY <1>2, <1>3, <1>4, <1>6, <2>1, <2>3, <3>1 DEF ForwardSound, HasIt
    <3>3. BundledStays(s)'
      BY <2>1 DEF BundledStays
    <3> QED BY <1>1, <1>2, <1>4, <1>5, <2>3, <3>1, <3>2, <3>3, StepKeeps
  <2>4. CASE (Command(s, NoRecord) \/ UNCHANGED plugins) /\ Undone
    <3>1. /\ plugins' \in [Slugs -> CleanRecords]
          /\ \A q \in Slugs \ {s} : plugins'[q] = plugins[q]
      BY <1>3, <2>4, CommandIs, NothingIs, NoRecordIsClean DEF Command
    <3>2. BundledStays(s)'
      BY <2>1 DEF BundledStays
    <3> QED BY <1>1, <1>2, <1>3, <1>4, <1>5, <2>4, <3>1, <3>2, UndoneAfterStep
  <2> QED BY <2>2, <2>3, <2>4
<1>9. CASE j.action = "metadata"
  <2>1. /\ plugins[s].version # 0 /\ j.nextOn \in BOOLEAN
        /\ s \notin Bundled => /\ j.next.version = j.prev.version /\ j.nextOn = j.next.enabled
                               /\ plugins[s] = j.prev
    BY <1>2, <1>3, <1>9, JournalIs DEF GoodJournals, HasIt, BundledStays
  <2>2. \/ /\ Switched(s, j.nextOn) /\ pluginTold' = pluginTold
           /\ pluginTask' = [pluginTask EXCEPT !.at = "commit"]
        \/ (Switched(s, j.nextOn) \/ UNCHANGED plugins) /\ Undone
    BY <1>2, <1>9 DEF RunsRuntime, Runs, Attempt, Goes, Untold
  <2>3. ASSUME Switched(s, j.nextOn)
        PROVE  /\ plugins' \in [Slugs -> CleanRecords] /\ plugins'[s].version # 0
               /\ s \notin Bundled => plugins'[s] = j.next
               /\ \A q \in Slugs \ {s} : plugins'[q] = plugins[q]
    <3>1. /\ plugins' \in [Slugs -> CleanRecords]
          /\ plugins'[s].version = plugins[s].version /\ plugins'[s].enabled = j.nextOn
          /\ plugins'[s] \in CleanRecords
          /\ \A q \in Slugs \ {s} : plugins'[q] = plugins[q]
      BY <1>3, <2>1, <2>3, SwitchedIs
    <3>2. s \notin Bundled => plugins'[s] = j.next
      BY <1>2, <2>1, <3>1, SameRecord, JournalIs
    <3> QED BY <2>1, <3>1, <3>2
  <2>4. CASE /\ Switched(s, j.nextOn) /\ pluginTold' = pluginTold
             /\ pluginTask' = [pluginTask EXCEPT !.at = "commit"]
    <3>1. /\ plugins' \in [Slugs -> CleanRecords] /\ plugins'[s].version # 0
          /\ s \notin Bundled => plugins'[s] = j.next
          /\ \A q \in Slugs \ {s} : plugins'[q] = plugins[q]
      BY <2>3, <2>4
    <3>2. ForwardSound'
      BY <1>2, <1>3, <1>4, <1>6, <2>4, <3>1 DEF ForwardSound, HasIt
    <3>3. BundledStays(s)'
      BY <1>3, <1>4, <3>1 DEF BundledStays
    <3> QED BY <1>1, <1>2, <1>4, <1>5, <2>4, <3>1, <3>2, <3>3, StepKeeps
  <2>5. CASE (Switched(s, j.nextOn) \/ UNCHANGED plugins) /\ Undone
    <3>1. /\ plugins' \in [Slugs -> CleanRecords] /\ plugins'[s].version # 0
          /\ \A q \in Slugs \ {s} : plugins'[q] = plugins[q]
      BY <1>3, <2>1, <2>3, <2>5, NothingIs
    <3>2. BundledStays(s)'
      BY <1>3, <1>4, <3>1 DEF BundledStays
    <3> QED BY <1>1, <1>2, <1>3, <1>4, <1>5, <2>5, <3>1, <3>2, UndoneAfterStep
  <2> QED BY <2>2, <2>4, <2>5
<1> QED BY <1>2, <1>7, <1>8, <1>9, JournalIs

LEMMA EnablesRuntimeKeeps == ASSUME PluginsSound, EnablesRuntime PROVE PluginsSound'
<1>1. ~Idle /\ pluginTask.at = "enable" /\ pluginTask.at \in Forward /\ "commit" \in Forward
  BY DEF EnablesRuntime, Doing, Idle, Forward
<1>2. PICK s \in Slugs, j \in GoodJournals : s = Slug /\ j = pluginTask.journal /\ s = j.slug
  BY <1>1, ForwardIs
<1>3. /\ PluginsTyped /\ ForwardSound /\ pluginTask \in Tasks /\ pluginsUp
      /\ j.phase = "runtime-starting" /\ journals[pluginTask.id] = j
      /\ s \notin Bundled /\ plugins[s].version = j.next.version /\ j.next.version # 0
      /\ managed[s] = j.prev /\ pluginState[s] = j.prev /\ ~pluginTask.forward
  BY <1>1, <1>2, ForwardIs DEF ForwardSound
<1>4. UNCHANGED <<managed, pluginState, pluginsUp, journals>>
  BY DEF EnablesRuntime, Runs
<1>5. /\ managed' \in [Slugs -> CleanRecords] /\ pluginState' \in [Slugs -> CleanRecords]
      /\ \A r \in Slugs \ {s} : managed'[r] = managed[r] /\ pluginState'[r] = pluginState[r]
  BY <1>3, <1>4 DEF PluginsTyped
<1>6. j.nextOn \in BOOLEAN /\ j.nextOn = j.next.enabled /\ j.next \in CleanRecords
  BY <1>2, <1>3, JournalIs DEF GoodJournals
<1>7. BundledStays(s)'
  BY <1>3 DEF BundledStays
<1>8. \/ /\ Switched(s, j.nextOn) /\ pluginTold' = pluginTold
         /\ pluginTask' = [pluginTask EXCEPT !.at = "commit"]
      \/ (Switched(s, j.nextOn) \/ UNCHANGED plugins) /\ Undone
  BY <1>2 DEF EnablesRuntime, Runs, Attempt, Goes, Untold
<1>9. CASE /\ Switched(s, j.nextOn) /\ pluginTold' = pluginTold
           /\ pluginTask' = [pluginTask EXCEPT !.at = "commit"]
  <2>1. /\ plugins' \in [Slugs -> CleanRecords]
        /\ plugins'[s].version = plugins[s].version /\ plugins'[s].enabled = j.nextOn
        /\ plugins'[s] \in CleanRecords
        /\ \A q \in Slugs \ {s} : plugins'[q] = plugins[q]
    BY <1>3, <1>6, <1>9, SwitchedIs
  <2>2. plugins'[s] = j.next
    BY <1>3, <1>6, <2>1, SameRecord
  <2>3. "commit" \in Forward \cup Applying
    BY <1>1
  <2>4. /\ pluginTask'.at = "commit" /\ pluginTask'.journal = j /\ ~pluginTask'.forward
        /\ pluginTask'.id = pluginTask.id
    BY <1>2, <1>3, <1>9, <2>3, StageIs
  <2>5. Slug' = s /\ Written' = j
    BY <1>2, <1>3, <1>4, <2>4 DEF Slug, Written
  <2>6. ForwardSound'
    BY <1>2, <1>3, <1>4, <2>2, <2>4, <2>5 DEF ForwardSound, HasIt
  <2> QED BY <1>1, <1>2, <1>4, <1>5, <1>7, <1>9, <2>1, <2>6, StepKeeps
<1>10. CASE (Switched(s, j.nextOn) \/ UNCHANGED plugins) /\ Undone
  <2>1. /\ plugins' \in [Slugs -> CleanRecords]
        /\ \A q \in Slugs \ {s} : plugins'[q] = plugins[q]
    BY <1>3, <1>6, <1>10, SwitchedIs, NothingIs
  <2> QED BY <1>1, <1>2, <1>3, <1>4, <1>5, <1>7, <1>10, <2>1, UndoneAfterStep
<1> QED BY <1>8, <1>9, <1>10

LEMMA RecordsStateKeeps == ASSUME PluginsSound, RecordsState PROVE PluginsSound'
<1>1. ~Idle /\ pluginTask.at = "record" /\ pluginTask.at \in Forward /\ "close" \in Forward
  BY DEF RecordsState, Doing, Idle, Forward
<1>2. PICK s \in Slugs, j \in GoodJournals : s = Slug /\ j = pluginTask.journal /\ s = j.slug
  BY <1>1, ForwardIs
<1>3. /\ PluginsTyped /\ ForwardSound /\ pluginTask \in Tasks /\ pluginsUp
      /\ j.phase = "runtime-committed" /\ journals[pluginTask.id] = j
      /\ HasIt(s, j.next) /\ BundledStays(s)
      /\ managed[s] = j.prev /\ pluginState[s] = j.prev /\ ~pluginTask.forward
  BY <1>1, <1>2, ForwardIs DEF ForwardSound
<1>4. /\ UNCHANGED <<plugins, pluginsUp, journals>>
      /\ pluginState' = [pluginState EXCEPT ![s] = j.next]
      /\ \/ managed' = pluginState' /\ pluginTask' = [pluginTask EXCEPT !.at = "close"] /\ Untold
         \/ (managed' = pluginState' \/ UNCHANGED managed) /\ Undone
  BY <1>2 DEF RecordsState, Attempt, Goes
<1>5. /\ j.next \in CleanRecords /\ (s \in Bundled => j.next = NoRecord)
  BY <1>2, JournalIs DEF GoodJournals
<1>6. /\ pluginState' \in [Slugs -> CleanRecords] /\ pluginState'[s] = j.next
      /\ \A r \in Slugs \ {s} : pluginState'[r] = pluginState[r]
  BY <1>3, <1>4, <1>5 DEF PluginsTyped
<1>7. \A r \in Slugs \ {s} : pluginState[r] = managed[r]
  BY <1>1, <1>2, <1>3, OthersSettled DEF Settled
<1>8. /\ managed' \in [Slugs -> CleanRecords]
      /\ \A r \in Slugs \ {s} : managed'[r] = managed[r]
      /\ managed'[s] \in {j.prev, j.next}
  BY <1>3, <1>4, <1>6, <1>7 DEF PluginsTyped
<1>9. /\ plugins' \in [Slugs -> CleanRecords]
      /\ \A q \in Slugs \ {s} : plugins'[q] = plugins[q]
  BY <1>3, <1>4, NothingIs
<1>10. BundledStays(s)'
  BY <1>3, <1>4, <1>5, <1>6, <1>8 DEF BundledStays
<1>11. CASE managed' = pluginState' /\ pluginTask' = [pluginTask EXCEPT !.at = "close"] /\ Untold
  <2>1. "close" \in Forward \cup Applying
    BY <1>1
  <2>2. /\ pluginTask'.at = "close" /\ pluginTask'.journal = j /\ ~pluginTask'.forward
        /\ pluginTask'.id = pluginTask.id
    BY <1>2, <1>3, <1>11, <2>1, StageIs
  <2>3. Slug' = s /\ Written' = j
    BY <1>2, <1>3, <1>4, <2>2 DEF Slug, Written
  <2>4. ForwardSound'
    BY <1>2, <1>3, <1>4, <1>6, <1>11, <2>2, <2>3 DEF ForwardSound, HasIt
  <2> QED BY <1>1, <1>2, <1>4, <1>6, <1>8, <1>9, <1>10, <1>11, <2>4, StepKeeps DEF Untold
<1>12. CASE Undone
  BY <1>1, <1>2, <1>3, <1>4, <1>6, <1>8, <1>9, <1>10, <1>12, UndoneAfterStep
<1> QED BY <1>4, <1>11, <1>12

(* What has been reported ends the operation. *)
LEMMA OverIs ==
  ASSUME PluginsTyped, NEW s \in Slugs, NEW record \in CleanRecords, Over(s, record)
  PROVE  /\ Idle' /\ pluginTold' \in [Slugs -> Records \cup {None}] /\ pluginTold'[s] = record
         /\ \A r \in Slugs \ {s} : pluginTold'[r] = pluginTold[r]
         /\ pluginTask' = NoTask
  BY RecordIs DEF Over, Idle, PluginsTyped

LEMMA StagesKeeps == ASSUME PluginsSound, Stages PROVE PluginsSound'
<1>1. /\ ~Idle /\ pluginTask.at = "stage" /\ pluginTask.at \in Forward /\ "start" \in Forward
      /\ "staged" \in Phases
  BY DEF Stages, Doing, Idle, Forward, Phases
<1>2. PICK s \in Slugs, j \in GoodJournals, id \in Operations :
         s = Slug /\ j = pluginTask.journal /\ s = j.slug /\ id = pluginTask.id
  BY <1>1, ForwardIs
<1>3. /\ PluginsTyped /\ ForwardSound /\ pluginTask \in Tasks /\ pluginsUp /\ pluginTold[s] = None
      /\ j.phase = "staged" /\ journals[id] = None
      /\ HasIt(s, j.prev) /\ BundledStays(s)
      /\ managed[s] = j.prev /\ pluginState[s] = j.prev /\ ~pluginTask.forward
  BY <1>1, <1>2, ForwardIs DEF ForwardSound, Written
<1>4. j = [j EXCEPT !.phase = "staged"]
  BY <1>3, SamePhase
<1>5. /\ UNCHANGED <<plugins, managed, pluginState, pluginsUp>>
      /\ \/ /\ journals' = [journals EXCEPT ![id] = j] /\ Untold
            /\ pluginTask' = [pluginTask EXCEPT !.journal = j, !.at = "start"]
         \/ (journals' = [journals EXCEPT ![id] = j] \/ UNCHANGED journals) /\ Over(s, j.prev)
  BY <1>2, <1>4 DEF Stages, Saves, Attempt
<1>6. BundledStays(s)'
  BY <1>3, <1>5 DEF BundledStays
<1>7. CASE /\ journals' = [journals EXCEPT ![id] = j] /\ Untold
           /\ pluginTask' = [pluginTask EXCEPT !.journal = j, !.at = "start"]
  <2>1. /\ pluginTask'.journal = j /\ pluginTask'.at = "start"
        /\ pluginTask'.id = pluginTask.id /\ pluginTask'.forward = pluginTask.forward
    BY <1>3, <1>7 DEF Tasks
  <2>2. Written' = j /\ Slug' = s
    BY <1>2, <1>3, <1>7, <2>1 DEF Written, Slug, PluginsTyped
  <2>3. ForwardSound'
    BY <1>2, <1>3, <1>5, <2>1, <2>2 DEF ForwardSound, HasIt
  <2> QED BY <1>1, <1>2, <1>3, <1>5, <1>7, <2>3, SavesKeeps DEF Untold
<1>8. CASE (journals' = [journals EXCEPT ![id] = j] \/ UNCHANGED journals) /\ Over(s, j.prev)
  <2>1. /\ Idle' /\ pluginTold' \in [Slugs -> Records \cup {None}] /\ pluginTold'[s] = j.prev
        /\ \A r \in Slugs \ {s} : pluginTold'[r] = pluginTold[r]
        /\ pluginTask' = NoTask
    BY <1>2, <1>3, <1>8, OverIs, JournalIs
  <2>2. /\ journals' \in [Operations -> GoodJournals \cup {None}] /\ journals'[id] \in {j, None}
        /\ \A i \in Operations \ {id} : journals'[i] = journals[i]
    BY <1>3, <1>8 DEF PluginsTyped
  <2>3. PluginsTyped'
    BY <1>3, <1>5, <2>1, <2>2 DEF PluginsTyped
  <2>4. LeftSound(id)'
    BY <1>2, <1>3, <1>5, <2>1, <2>2 DEF LeftSound, HasIt, Outcome, Ahead
  <2>5. Settled(s)'
    BY <1>3, <1>5, <2>1 DEF Settled, HasIt
  <2>6. TaskSound'
    BY <2>1 DEF TaskSound
  <2> QED BY <1>1, <1>2, <1>3, <1>5, <1>6, <2>1, <2>2, <2>3, <2>4, <2>5, <2>6, TaskStep
<1> QED BY <1>5, <1>7, <1>8

LEMMA FinishesKeeps == ASSUME PluginsSound, Finishes PROVE PluginsSound'
<1>1. ~Idle /\ pluginTask.at = "finish" /\ pluginTask.at \in Forward
  BY DEF Finishes, Doing, Idle, Forward
<1>2. PICK s \in Slugs, j \in GoodJournals, id \in Operations :
         s = Slug /\ j = pluginTask.journal /\ s = j.slug /\ id = pluginTask.id
  BY <1>1, ForwardIs
<1>3. /\ PluginsTyped /\ ForwardSound /\ pluginTask \in Tasks /\ pluginsUp /\ pluginTold[s] = None
      /\ j.phase = "committed" /\ journals[id] = j
      /\ HasIt(s, j.next) /\ BundledStays(s)
      /\ managed[s] = j.next /\ pluginState[s] = j.next
  BY <1>1, <1>2, ForwardIs DEF ForwardSound, Written
<1>4. /\ UNCHANGED <<plugins, managed, pluginState, pluginsUp>> /\ Over(s, j.next)
      /\ journals' = [journals EXCEPT ![id] = None] \/ UNCHANGED journals
  BY <1>2 DEF Finishes, Attempt, Forgotten
<1>5. BundledStays(s)'
  BY <1>3, <1>4 DEF BundledStays
<1>6. /\ Idle' /\ pluginTold' \in [Slugs -> Records \cup {None}] /\ pluginTold'[s] = j.next
      /\ \A r \in Slugs \ {s} : pluginTold'[r] = pluginTold[r]
      /\ pluginTask' = NoTask
  BY <1>2, <1>3, <1>4, OverIs, JournalIs
<1>7. /\ journals' \in [Operations -> GoodJournals \cup {None}] /\ journals'[id] \in {j, None}
      /\ \A i \in Operations \ {id} : journals'[i] = journals[i]
  BY <1>3, <1>4 DEF PluginsTyped
<1>8. PluginsTyped'
  BY <1>3, <1>4, <1>6, <1>7 DEF PluginsTyped
<1>9. LeftSound(id)'
  BY <1>2, <1>3, <1>4, <1>6, <1>7 DEF LeftSound, HasIt, Outcome, Ahead
<1>10. Settled(s)'
  BY <1>3, <1>4, <1>6 DEF Settled, HasIt
<1>11. TaskSound'
  BY <1>6 DEF TaskSound
<1> QED BY <1>1, <1>2, <1>3, <1>4, <1>5, <1>6, <1>7, <1>8, <1>9, <1>10, <1>11, TaskStep

(* Which facts the steps of undoing and of a recovery start from. *)
LEMMA ApplyingIs ==
  ASSUME PluginsSound, ~Idle, pluginTask.at \in Applying
  PROVE  \E s \in Slugs, id \in Operations, j \in GoodJournals :
           /\ s = Slug /\ id = pluginTask.id /\ j = pluginTask.journal /\ j.slug = s
           /\ PluginsTyped /\ pluginTask \in Tasks /\ ApplyingSound /\ BundledStays(s)
           /\ Written = journals[id] /\ Written \in GoodJournals /\ Written # None /\ Written.slug = s
           /\ Written.prev = j.prev /\ Written.next = j.next
           /\ pluginsUp => ~pluginTask.forward /\ pluginTold[s] = None
           /\ ~pluginsUp => Desired = Outcome(Written) /\ ("undone" \notin Troubles => pluginTold[s] \in {None, Desired})
           /\ Written.phase = "staged" => HasIt(s, j.prev) /\ Desired = j.prev /\ DesiredOn = j.prevOn
           /\ Desired \in CleanRecords /\ DesiredOn \in BOOLEAN
           /\ IF s \in Bundled THEN j.action = "metadata" /\ Desired = NoRecord
              ELSE DesiredOn = Desired.enabled /\ (j.action = "metadata" => Desired.version # 0)
           /\ ~pluginTask.forward => Desired = j.prev
<1>1. PICK s \in Slugs, id \in Operations, j \in GoodJournals :
        s = Slug /\ id = pluginTask.id /\ j = pluginTask.journal /\ j.slug = s
  BY BusyIs DEF PluginsSound, Slug
<1>2. /\ PluginsTyped /\ pluginTask \in Tasks /\ ApplyingSound /\ BundledStays(s) /\ LeftSound(id)
      /\ pluginsUp => pluginTold[s] = None
  BY <1>1, BusyIs DEF PluginsSound, TaskSound
<1>3. /\ Written = journals[id] /\ Written \in GoodJournals /\ Written # None /\ Written.slug = s
      /\ Written.prev = j.prev /\ Written.next = j.next
  BY <1>1, <1>2, WrittenIs DEF ApplyingSound, IsWritten, Written
<1>4. pluginsUp => ~pluginTask.forward
  BY <1>2 DEF ApplyingSound
<1>5. ~pluginsUp => Desired = Outcome(Written)
  BY <1>1, <1>2, <1>3 DEF ApplyingSound, Desired, Outcome
<1>6. Written.phase = "staged" => HasIt(s, j.prev) /\ ~pluginTask.forward
  BY <1>2, <1>3 DEF LeftSound, ApplyingSound, Ahead
<1>7. ~pluginsUp => ("undone" \notin Troubles => pluginTold[s] \in {None, Desired})
  BY <1>2, <1>3, <1>5 DEF LeftSound
<1>8. /\ j.prev \in CleanRecords /\ j.next \in CleanRecords /\ j.prevOn \in BOOLEAN /\ j.nextOn \in BOOLEAN
      /\ IF s \in Bundled THEN j.action = "metadata" /\ j.prev = NoRecord /\ j.next = NoRecord
         ELSE /\ j.prevOn = j.prev.enabled /\ j.nextOn = j.next.enabled
              /\ j.action = "metadata" => j.prev.version # 0 /\ j.next.version # 0
  BY <1>1, JournalIs DEF GoodJournals
<1>9. /\ (Desired = j.prev /\ DesiredOn = j.prevOn) \/ (Desired = j.next /\ DesiredOn = j.nextOn)
      /\ ~pluginTask.forward => Desired = j.prev /\ DesiredOn = j.prevOn
  <2>1. CASE pluginTask.forward
    BY <1>1, <2>1, Zenon DEF Desired, DesiredOn
  <2>2. CASE ~pluginTask.forward
    BY <1>1, <2>2, Zenon DEF Desired, DesiredOn
  <2> QED BY <2>1, <2>2
<1>10. /\ Desired \in CleanRecords /\ DesiredOn \in BOOLEAN
       /\ IF s \in Bundled THEN j.action = "metadata" /\ Desired = NoRecord
          ELSE DesiredOn = Desired.enabled /\ (j.action = "metadata" => Desired.version # 0)
  <2>1. CASE Desired = j.prev /\ DesiredOn = j.prevOn
    BY <1>8, <2>1
  <2>2. CASE Desired = j.next /\ DesiredOn = j.nextOn
    BY <1>8, <2>2
  <2> QED BY <1>9, <2>1, <2>2
<1> QED BY <1>1, <1>2, <1>3, <1>4, <1>5, <1>6, <1>7, <1>9, <1>10

(* A step of these goes on, or is stuck, with the journal where it was. *)
LEMMA ApplyKeeps ==
  ASSUME PluginsSound, ~Idle, pluginTask.at \in Applying, NEW s \in Slugs, s = Slug,
         plugins' \in [Slugs -> CleanRecords], managed' \in [Slugs -> CleanRecords],
         pluginState' \in [Slugs -> CleanRecords],
         \A r \in Slugs \ {s} :
           /\ plugins'[r] = plugins[r] /\ managed'[r] = managed[r]
           /\ pluginsUp \/ r \in Bundled => pluginState'[r] = pluginState[r],
         BundledStays(s)', UNCHANGED <<pluginsUp, journals, pluginTold>>,
         NEW j, j = pluginTask.journal, NEW d, d = Desired,
         Written.phase = "staged" => HasIt(s, j.prev)',
         \/ pluginTask' = NoTask
         \/ \E stage \in Applying :
              /\ pluginTask' = [pluginTask EXCEPT !.at = stage]
              /\ stage = "switch" => d.version # 0 /\ s \notin Bundled
              /\ stage \in {"settle", "forget"} => HasIt(s, d)'
              /\ stage = "forget" => managed'[s] = d /\ (pluginsUp => pluginState'[s] = d)
  PROVE  PluginsSound'
<1>1. PICK id \in Operations : id = pluginTask.id
  BY BusyIs DEF PluginsSound
<1>2. /\ PluginsTyped /\ pluginTask \in Tasks /\ j \in GoodJournals /\ ApplyingSound
      /\ Written = journals[id] /\ Written \in GoodJournals /\ Written # None /\ Written.slug = s
      /\ Written.prev = j.prev
      /\ pluginsUp => pluginTold[s] = None
      /\ LeftSound(id)
  <2>1. \E q \in Slugs, i \in Operations, k \in GoodJournals :
           /\ q = Slug /\ i = pluginTask.id /\ k = pluginTask.journal
           /\ PluginsTyped /\ pluginTask \in Tasks /\ ApplyingSound
           /\ Written = journals[i] /\ Written \in GoodJournals /\ Written # None /\ Written.slug = q
           /\ Written.prev = k.prev
           /\ pluginsUp => pluginTold[q] = None
    BY ApplyingIs
  <2> QED BY <1>1, <2>1 DEF PluginsSound
<1>3. LeftSound(id)'
  BY <1>1, <1>2 DEF LeftSound, HasIt, Outcome, Ahead
<1>4. ASSUME NEW stage \in Applying, pluginTask' = [pluginTask EXCEPT !.at = stage]
      PROVE  /\ pluginTask' \in Tasks /\ pluginTask' # NoTask /\ pluginTask'.at = stage
             /\ pluginTask'.id = id /\ pluginTask'.forward = pluginTask.forward
             /\ pluginTask'.journal = j /\ Slug' = s /\ Desired' = d /\ Written' = Written
  <2>1. /\ pluginTask' \in Tasks /\ pluginTask' # NoTask /\ pluginTask'.at = stage
        /\ pluginTask'.id = id /\ pluginTask'.forward = pluginTask.forward
        /\ pluginTask'.journal = j
    BY <1>1, <1>2, <1>4, StageIs
  <2> QED BY <1>1, <2>1 DEF Slug, Desired, Written
<1>5. PluginsTyped' /\ (pluginTask' = NoTask \/ (pluginTask'.id = id /\ Slug' = s))
  <2>1. pluginTask' \in Tasks \cup {NoTask}
    BY <1>4
  <2>2. PluginsTyped'
    BY <1>2, <2>1 DEF PluginsTyped
  <2> QED BY <1>4, <2>2
<1>6. TaskSound'
  <2>1. CASE pluginTask' = NoTask
    BY <2>1 DEF TaskSound, Idle
  <2>2. CASE pluginTask' # NoTask
    <3>1. PICK stage \in Applying :
              /\ pluginTask' = [pluginTask EXCEPT !.at = stage]
              /\ stage = "switch" => d.version # 0 /\ s \notin Bundled
              /\ stage \in {"settle", "forget"} => HasIt(s, d)'
              /\ stage = "forget" => managed'[s] = d /\ (pluginsUp => pluginState'[s] = d)
      BY <2>2
    <3>2. /\ pluginTask'.at = stage
          /\ pluginTask'.id = id /\ pluginTask'.forward = pluginTask.forward
          /\ pluginTask'.journal = j /\ Slug' = s /\ Desired' = d /\ Written' = Written
      BY <3>1, <1>4
    <3>3. IsWritten'
      BY <1>2, <3>2 DEF IsWritten, ApplyingSound
    <3>4. ApplyingSound'
      BY <1>2, <3>1, <3>2, <3>3 DEF ApplyingSound, HasIt, Ahead
    <3>5. Left' \subseteq {id}
      BY <1>1 DEF PluginsSound, TaskSound, Left
    <3>6. stage \notin Forward
      BY DEF Forward, Applying
    <3> QED BY <1>2, <3>2, <3>4, <3>5, <3>6 DEF TaskSound
  <2> QED BY <2>1, <2>2
<1> QED BY <1>1, <1>2, <1>3, <1>5, <1>6, TaskStep DEF Idle

(* The same facts, by the names the proofs below use. *)
ApplyFacts(s, id, j) ==
  /\ s = Slug /\ id = pluginTask.id /\ j = pluginTask.journal /\ j.slug = s
  /\ PluginsTyped /\ pluginTask \in Tasks /\ ApplyingSound /\ BundledStays(s)
  /\ Written = journals[id] /\ Written \in GoodJournals /\ Written # None /\ Written.slug = s
  /\ Written.prev = j.prev /\ Written.next = j.next
  /\ pluginsUp => ~pluginTask.forward /\ pluginTold[s] = None
  /\ ~pluginsUp => Desired = Outcome(Written) /\ ("undone" \notin Troubles => pluginTold[s] \in {None, Desired})
  /\ Written.phase = "staged" => HasIt(s, j.prev) /\ Desired = j.prev /\ DesiredOn = j.prevOn
  /\ Desired \in CleanRecords /\ DesiredOn \in BOOLEAN
  /\ IF s \in Bundled THEN j.action = "metadata" /\ Desired = NoRecord
     ELSE DesiredOn = Desired.enabled /\ (j.action = "metadata" => Desired.version # 0)
  /\ ~pluginTask.forward => Desired = j.prev

(* Where a task that applies a journal stands. *)
LEMMA HasApplyFacts ==
  ASSUME PluginsSound, ~Idle, pluginTask.at \in Applying
  PROVE  \E s \in Slugs, id \in Operations, j \in GoodJournals : ApplyFacts(s, id, j)
BY ApplyingIs DEF ApplyFacts

(* A command while applying: it goes on to the next stage or is stuck. *)
LEMMA CommandKeeps ==
  ASSUME PluginsSound, ~Idle, pluginTask.at \in Applying, NEW stage \in {"switch", "settle"},
         NEW s \in Slugs, NEW id \in Operations, NEW j \in GoodJournals, ApplyFacts(s, id, j),
         plugins' \in [Slugs -> CleanRecords],
         \A r \in Slugs \ {s} : plugins'[r] = plugins[r],
         s \in Bundled => plugins'[s].version # 0,
         Written.phase = "staged" => HasIt(s, j.prev)',
         UNCHANGED <<managed, pluginState, pluginsUp, journals, pluginTold>>,
         NEW d, d = Desired,
         \/ pluginTask' = NoTask
         \/ /\ pluginTask' = [pluginTask EXCEPT !.at = stage]
            /\ IF stage = "switch" THEN d.version # 0 /\ s \notin Bundled ELSE HasIt(s, d)'
  PROVE  PluginsSound'
<1>1. /\ s = Slug /\ j = pluginTask.journal /\ PluginsTyped /\ BundledStays(s)
  BY DEF ApplyFacts
<1>2. /\ managed' \in [Slugs -> CleanRecords] /\ pluginState' \in [Slugs -> CleanRecords]
      /\ \A r \in Slugs \ {s} : managed'[r] = managed[r] /\ pluginState'[r] = pluginState[r]
  BY <1>1 DEF PluginsTyped
<1>3. BundledStays(s)'
  BY <1>1 DEF BundledStays
<1>4. stage \in Applying /\ stage # "forget"
  BY DEF Applying
<1>5. \/ pluginTask' = NoTask
      \/ \E g \in Applying :
              /\ pluginTask' = [pluginTask EXCEPT !.at = g]
              /\ g = "switch" => d.version # 0 /\ s \notin Bundled
              /\ g \in {"settle", "forget"} => HasIt(s, d)'
              /\ g = "forget" => managed'[s] = d /\ (pluginsUp => pluginState'[s] = d)
  BY <1>4
<1> QED BY <1>1, <1>2, <1>3, <1>5, ApplyKeeps

LEMMA SwitchesKeeps ==
  ASSUME PluginsSound, ~Idle, pluginTask.at \in Applying,
         pluginTask.journal.action = "metadata" \/ pluginTask.at = "switch", Switches("settle")
  PROVE  PluginsSound'
<1>1. PICK s \in Slugs, id \in Operations, j \in GoodJournals : ApplyFacts(s, id, j)
  BY HasApplyFacts
<1>2. PICK d \in CleanRecords : d = Desired
  BY <1>1 DEF ApplyFacts
<1>3. PICK on \in BOOLEAN : on = DesiredOn
  BY <1>1 DEF ApplyFacts
<1>4. /\ s = Slug /\ j = pluginTask.journal /\ PluginsTyped /\ BundledStays(s)
      /\ s \notin Bundled => d.version # 0 /\ on = d.enabled
      /\ Written.phase = "staged" => HasIt(s, d) /\ d = j.prev
  BY <1>1, <1>2, <1>3 DEF ApplyFacts, ApplyingSound
<1>5. ASSUME Switched(s, on), plugins[s].version # 0
      PROVE  /\ plugins' \in [Slugs -> CleanRecords] /\ plugins'[s].version # 0
             /\ \A r \in Slugs \ {s} : plugins'[r] = plugins[r]
             /\ s \notin Bundled /\ d.version = plugins[s].version => plugins'[s] = d
  <2>1. /\ plugins' \in [Slugs -> CleanRecords]
        /\ plugins'[s].version = plugins[s].version /\ plugins'[s].enabled = on
        /\ plugins'[s] \in CleanRecords
        /\ \A q \in Slugs \ {s} : plugins'[q] = plugins[q]
    BY <1>4, <1>5, SwitchedIs
  <2>2. s \notin Bundled /\ d.version = plugins[s].version => plugins'[s] = d
    BY <1>4, <2>1, SameRecord
  <2> QED BY <1>5, <2>1, <2>2
<1>6. ASSUME UNCHANGED plugins
      PROVE  /\ plugins' \in [Slugs -> CleanRecords]
             /\ \A r \in Slugs \ {s} : plugins'[r] = plugins[r]
             /\ s \in Bundled => plugins'[s].version # 0
             /\ Written.phase = "staged" => HasIt(s, j.prev)'
  BY <1>4, <1>6 DEF PluginsTyped, BundledStays, HasIt
<1>7. ASSUME Switched(s, on), plugins[s].version # 0
      PROVE  /\ plugins' \in [Slugs -> CleanRecords]
             /\ \A r \in Slugs \ {s} : plugins'[r] = plugins[r]
             /\ s \in Bundled => plugins'[s].version # 0
             /\ Written.phase = "staged" => HasIt(s, j.prev)'
  BY <1>4, <1>5, <1>7 DEF HasIt
<1>8. CASE plugins[s].version # 0 /\ d.version \in {0, plugins[s].version}
  <2>1. /\ UNCHANGED <<managed, pluginState, pluginsUp, journals, pluginTold>>
        /\ \/ Switched(s, on) /\ pluginTask' = [pluginTask EXCEPT !.at = "settle"]
           \/ (Switched(s, on) \/ UNCHANGED plugins) /\ pluginTask' = NoTask
    BY <1>2, <1>3, <1>4, <1>8 DEF Switches, Runs, Attempt, Goes, Untold, Stuck
  <2>2. CASE Switched(s, on) /\ pluginTask' = [pluginTask EXCEPT !.at = "settle"]
    <3>1. HasIt(s, d)'
      BY <1>4, <1>5, <1>8, <2>2 DEF HasIt
    <3> QED BY <1>1, <1>2, <1>7, <1>8, <2>1, <2>2, <3>1, CommandKeeps
  <2>3. CASE (Switched(s, on) \/ UNCHANGED plugins) /\ pluginTask' = NoTask
    BY <1>1, <1>2, <1>6, <1>7, <1>8, <2>1, <2>3, CommandKeeps
  <2> QED BY <2>1, <2>2, <2>3
<1>9. CASE ~(plugins[s].version # 0 /\ d.version \in {0, plugins[s].version})
  <2>1. /\ UNCHANGED <<managed, pluginState, pluginsUp, journals, pluginTold>> /\ pluginTask' = NoTask
        /\ IF plugins[s].version = 0 THEN UNCHANGED plugins ELSE Switched(s, on)
    BY <1>2, <1>3, <1>4, <1>9 DEF Switches, Untold, Stuck
  <2>2. CASE plugins[s].version = 0
    BY <1>1, <1>2, <1>6, <2>1, <2>2, CommandKeeps
  <2>3. CASE plugins[s].version # 0
    BY <1>1, <1>2, <1>7, <2>1, <2>3, CommandKeeps
  <2> QED BY <2>2, <2>3
<1> QED BY <1>8, <1>9

LEMMA EnablesKeeps == ASSUME PluginsSound, Enables PROVE PluginsSound'
<1>1. ~Idle /\ pluginTask.at = "switch" /\ pluginTask.at \in Applying /\ Switches("settle")
  BY DEF Enables, Doing, Idle, Applying
<1> QED BY <1>1, SwitchesKeeps

LEMMA AppliesKeeps == ASSUME PluginsSound, Applies PROVE PluginsSound'
<1>1. ~Idle /\ pluginTask.at = "apply" /\ pluginTask.at \in Applying
  BY DEF Applies, Doing, Idle, Applying
<1>2. PICK s \in Slugs, id \in Operations, j \in GoodJournals : ApplyFacts(s, id, j)
  BY <1>1, HasApplyFacts
<1>3. PICK d \in CleanRecords : d = Desired
  BY <1>2 DEF ApplyFacts
<1>4. /\ s = Slug /\ j = pluginTask.journal /\ PluginsTyped /\ BundledStays(s)
      /\ Written.phase = "staged" => HasIt(s, d) /\ d = j.prev
  BY <1>2, <1>3 DEF ApplyFacts
<1>5. CASE j.action = "metadata"
  <2>1. Switches("settle")
    BY <1>4, <1>5 DEF Applies
  <2> QED BY <1>1, <1>4, <1>5, <2>1, SwitchesKeeps
<1>6. CASE j.action # "metadata" /\ d.version # 0
  <2>1. s \notin Bundled /\ d.version \in 1 .. MaxVersion
    BY <1>2, <1>3, <1>6, RecordIs, CapabilityAssumption DEF ApplyFacts
  <2>2. /\ UNCHANGED <<managed, pluginState, pluginsUp, journals, pluginTold>>
        /\ \/ Installs(s, d.version) /\ pluginTask' = [pluginTask EXCEPT !.at = "switch"]
           \/ (Installs(s, d.version) \/ UNCHANGED plugins) /\ pluginTask' = NoTask
    BY <1>3, <1>4, <1>6 DEF Applies, Runs, Attempt, Goes, Untold, Stuck
  <2>3. ASSUME Installs(s, d.version) \/ UNCHANGED plugins
        PROVE  /\ plugins' \in [Slugs -> CleanRecords]
               /\ \A r \in Slugs \ {s} : plugins'[r] = plugins[r]
               /\ Written.phase = "staged" => HasIt(s, j.prev)'
    <3>1. CASE Installs(s, d.version)
      <4>1. /\ plugins' \in [Slugs -> CleanRecords]
            /\ plugins[s].version = d.version => plugins'[s] = plugins[s]
            /\ \A q \in Slugs \ {s} : plugins'[q] = plugins[q]
        BY <1>4, <2>1, <3>1, InstallsIs
      <4> QED BY <1>4, <4>1 DEF HasIt
    <3>2. CASE UNCHANGED plugins
      BY <1>4, <3>2, NothingIs DEF HasIt
    <3> QED BY <2>3, <3>1, <3>2
  <2> QED BY <1>1, <1>2, <1>3, <1>6, <2>1, <2>2, <2>3, CommandKeeps
<1>7. CASE j.action # "metadata" /\ d.version = 0
  <2>1. s \notin Bundled /\ d = NoRecord
    BY <1>2, <1>3, <1>7, RecordIs DEF ApplyFacts
  <2>2. /\ UNCHANGED <<managed, pluginState, pluginsUp, journals, pluginTold>>
        /\ \/ Command(s, NoRecord) /\ pluginTask' = [pluginTask EXCEPT !.at = "settle"]
           \/ (Command(s, NoRecord) \/ UNCHANGED plugins) /\ pluginTask' = NoTask
    BY <1>3, <1>4, <1>7, <2>1 DEF Applies, Runs, Attempt, Goes, Untold, Stuck
  <2>3. ASSUME Command(s, NoRecord)
        PROVE  /\ plugins' \in [Slugs -> CleanRecords]
               /\ \A r \in Slugs \ {s} : plugins'[r] = plugins[r]
               /\ plugins'[s] = d
               /\ Written.phase = "staged" => HasIt(s, j.prev)'
    <3>1. /\ plugins' \in [Slugs -> CleanRecords] /\ plugins'[s] = NoRecord
          /\ \A q \in Slugs \ {s} : plugins'[q] = plugins[q]
      BY <1>4, <2>3, CommandIs, NoRecordIsClean DEF Command
    <3> QED BY <1>4, <2>1, <3>1 DEF HasIt
  <2>4. ASSUME UNCHANGED plugins
        PROVE  /\ plugins' \in [Slugs -> CleanRecords]
               /\ \A r \in Slugs \ {s} : plugins'[r] = plugins[r]
               /\ Written.phase = "staged" => HasIt(s, j.prev)'
    BY <1>4, <2>4, NothingIs DEF HasIt
  <2>5. CASE Command(s, NoRecord) /\ pluginTask' = [pluginTask EXCEPT !.at = "settle"]
    <3>1. HasIt(s, d)'
      BY <2>3, <2>5 DEF HasIt
    <3> QED BY <1>1, <1>2, <1>3, <2>1, <2>2, <2>3, <2>5, <3>1, CommandKeeps
  <2>6. CASE (Command(s, NoRecord) \/ UNCHANGED plugins) /\ pluginTask' = NoTask
    BY <1>1, <1>2, <1>3, <2>1, <2>2, <2>3, <2>4, <2>6, CommandKeeps
  <2> QED BY <2>2, <2>5, <2>6
<1> QED BY <1>5, <1>6, <1>7

LEMMA SettlesKeeps == ASSUME PluginsSound, Settles PROVE PluginsSound'
<1>1. ~Idle /\ pluginTask.at = "settle" /\ pluginTask.at \in Applying /\ "forget" \in Applying
  BY DEF Settles, Doing, Idle, Applying
<1>2. PICK s \in Slugs, id \in Operations, j \in GoodJournals : ApplyFacts(s, id, j)
  BY <1>1, HasApplyFacts
<1>3. PICK d \in CleanRecords : d = Desired
  BY <1>2 DEF ApplyFacts
<1>4. /\ s = Slug /\ j = pluginTask.journal /\ PluginsTyped /\ BundledStays(s)
      /\ s \in Bundled => d = NoRecord
      /\ Written.phase = "staged" => HasIt(s, j.prev)
      /\ HasIt(s, d)
  BY <1>1, <1>2, <1>3 DEF ApplyFacts, ApplyingSound
<1> DEFINE base == IF pluginsUp THEN pluginState ELSE managed
<1>5. base \in [Slugs -> CleanRecords]
  BY <1>4 DEF PluginsTyped
<1>6. \A r \in Slugs \ {s} : base[r] = managed[r] /\ (pluginsUp \/ r \in Bundled => base[r] = pluginState[r])
  BY <1>1, <1>4, OthersSettled DEF Settled, BundledStays
<1>7. /\ UNCHANGED <<plugins, pluginsUp, journals, pluginTold>>
      /\ pluginState' = [base EXCEPT ![s] = d]
      /\ \/ managed' = pluginState' /\ pluginTask' = [pluginTask EXCEPT !.at = "forget"]
         \/ (managed' = pluginState' \/ UNCHANGED managed) /\ pluginTask' = NoTask
  BY <1>3, <1>4 DEF Settles, Attempt, Goes, Untold, Stuck
<1> HIDE DEF base
<1>8. /\ pluginState' \in [Slugs -> CleanRecords] /\ pluginState'[s] = d
      /\ \A r \in Slugs \ {s} : pluginState'[r] = base[r]
  BY <1>5, <1>7
<1>9. /\ managed' \in [Slugs -> CleanRecords] /\ managed'[s] \in {managed[s], d}
      /\ \A r \in Slugs \ {s} : managed'[r] = managed[r]
  BY <1>4, <1>6, <1>7, <1>8 DEF PluginsTyped
<1>10. plugins' \in [Slugs -> CleanRecords] /\ \A r \in Slugs \ {s} : plugins'[r] = plugins[r]
  BY <1>4, <1>7, NothingIs
<1>11. BundledStays(s)' /\ HasIt(s, d)' /\ (Written.phase = "staged" => HasIt(s, j.prev)')
  BY <1>4, <1>7, <1>8, <1>9 DEF BundledStays, HasIt
<1>12. \A r \in Slugs \ {s} :
           /\ plugins'[r] = plugins[r] /\ managed'[r] = managed[r]
           /\ pluginsUp \/ r \in Bundled => pluginState'[r] = pluginState[r]
  BY <1>6, <1>8, <1>9, <1>10
<1>13. \/ pluginTask' = NoTask
       \/ \E g \in Applying :
              /\ pluginTask' = [pluginTask EXCEPT !.at = g]
              /\ g = "switch" => d.version # 0 /\ s \notin Bundled
              /\ g \in {"settle", "forget"} => HasIt(s, d)'
              /\ g = "forget" => managed'[s] = d /\ (pluginsUp => pluginState'[s] = d)
  BY <1>1, <1>7, <1>8, <1>11
<1> QED BY <1>1, <1>3, <1>4, <1>7, <1>8, <1>9, <1>10, <1>11, <1>12, <1>13, ApplyKeeps

LEMMA ForgetsKeeps == ASSUME PluginsSound, Forgets PROVE PluginsSound'
<1>1. ~Idle /\ pluginTask.at = "forget" /\ pluginTask.at \in Applying
  BY DEF Forgets, Doing, Idle, Applying
<1>2. PICK s \in Slugs, id \in Operations, j \in GoodJournals : ApplyFacts(s, id, j)
  BY <1>1, HasApplyFacts
<1>3. PICK d \in CleanRecords : d = Desired
  BY <1>2 DEF ApplyFacts
<1>4. /\ s = Slug /\ id = pluginTask.id /\ j = pluginTask.journal /\ PluginsTyped /\ BundledStays(s)
      /\ Written.phase = "staged" => HasIt(s, j.prev)
      /\ HasIt(s, d) /\ managed[s] = d /\ (pluginsUp => pluginState[s] = d)
      /\ pluginsUp => pluginTold[s] = None /\ d = j.prev
      /\ ~pluginsUp => ("undone" \notin Troubles => pluginTold[s] \in {None, d})
      /\ Written = journals[id] /\ Written \in GoodJournals /\ Written.slug = s /\ Written.prev = j.prev
      /\ d \in Records
  BY <1>1, <1>2, <1>3, RecordIs DEF ApplyFacts, ApplyingSound
<1>5. /\ UNCHANGED <<plugins, managed, pluginState, pluginsUp>>
      /\ \/ journals' = [journals EXCEPT ![id] = None] /\ ((pluginsUp /\ Over(s, j.prev)) \/ Stuck)
         \/ UNCHANGED journals /\ pluginsUp /\ Withstood /\ Over(s, j.prev)
         \/ UNCHANGED journals /\ Stuck
  BY <1>4 DEF Forgets, Attempt, Forgotten
<1>6. BundledStays(s)' /\ (Written.phase = "staged" => HasIt(s, j.prev)')
  BY <1>4, <1>5 DEF BundledStays, HasIt
<1>7. \A r \in Slugs \ {s} :
           /\ plugins'[r] = plugins[r] /\ managed'[r] = managed[r] /\ pluginState'[r] = pluginState[r]
  BY <1>5
<1>8. CASE UNCHANGED journals /\ Stuck
  <2>1. /\ plugins' \in [Slugs -> CleanRecords] /\ managed' \in [Slugs -> CleanRecords]
        /\ pluginState' \in [Slugs -> CleanRecords]
    BY <1>4, <1>5 DEF PluginsTyped
  <2>2. pluginTask' = NoTask /\ UNCHANGED <<pluginsUp, journals, pluginTold>>
    BY <1>5, <1>8 DEF Stuck, Untold
  <2> QED BY <1>1, <1>3, <1>4, <1>6, <1>7, <2>1, <2>2, ApplyKeeps
<1>9. CASE journals' = [journals EXCEPT ![id] = None] /\ ((pluginsUp /\ Over(s, j.prev)) \/ Stuck)
  <2>1. /\ pluginTask' = NoTask /\ pluginTold' \in [Slugs -> Records \cup {None}]
        /\ "undone" \notin Troubles => pluginTold'[s] \in {None, d}
        /\ \A r \in Slugs \ {s} : pluginTold'[r] = pluginTold[r]
    <3>1. CASE Stuck
      BY <1>4, <3>1 DEF Stuck, Untold, PluginsTyped
    <3>2. CASE pluginsUp /\ Over(s, j.prev)
      BY <1>4, <3>2 DEF Over, PluginsTyped
    <3> QED BY <1>9, <3>1, <3>2
  <2>2. /\ journals' \in [Operations -> GoodJournals \cup {None}] /\ journals'[id] = None
        /\ \A i \in Operations \ {id} : journals'[i] = journals[i]
    BY <1>4, <1>9 DEF PluginsTyped
  <2>3. PluginsTyped'
    BY <1>4, <1>5, <2>1, <2>2 DEF PluginsTyped
  <2>4. Idle' /\ TaskSound' /\ LeftSound(id)'
    BY <2>1, <2>2 DEF Idle, TaskSound, LeftSound
  <2>5. Settled(s)'
    BY <1>4, <1>5, <2>1 DEF Settled, HasIt
  <2> QED BY <1>1, <1>4, <1>5, <1>6, <1>7, <2>1, <2>2, <2>3, <2>4, <2>5, TaskStep
<1>10. CASE UNCHANGED journals /\ pluginsUp /\ Withstood /\ Over(s, j.prev)
  <2>1. /\ pluginTask' = NoTask /\ pluginTold' \in [Slugs -> Records \cup {None}]
        /\ pluginTold'[s] = j.prev /\ \A r \in Slugs \ {s} : pluginTold'[r] = pluginTold[r]
    BY <1>4, <1>10 DEF Over, PluginsTyped
  <2>2. PluginsTyped'
    BY <1>4, <1>5, <1>10, <2>1 DEF PluginsTyped
  <2>3. LeftSound(id)'
    <3>1. "undone" \notin Troubles => Outcome(Written) = j.prev
      BY <1>4, <1>10 DEF Withstood, Outcome, Written
    <3>2. journals'[id] = Written /\ Written.slug = s
      BY <1>4, <1>10
    <3>3. Written.phase = "staged" => (s \notin Bundled => plugins'[s] = Written.prev)
      BY <1>4, <1>6 DEF HasIt
    <3>4. "undone" \notin Troubles => pluginTold'[s] = Outcome(Written)
      BY <2>1, <3>1
    <3>5. LeftSound(id)' = (Written # None =>
             /\ Written.phase = "staged" => (Written.slug \notin Bundled => plugins'[Written.slug] = Written.prev)
             /\ "undone" \notin Troubles => pluginTold'[Written.slug] \in {None, Outcome(Written)})
      BY <3>2 DEF LeftSound, HasIt, Outcome, Ahead
    <3> QED BY <3>2, <3>3, <3>4, <3>5
  <2>4. Idle' /\ TaskSound'
    BY <2>1 DEF Idle, TaskSound
  <2>5. journals'[id] # None /\ journals'[id].slug = s
    BY <1>2, <1>4, <1>10 DEF ApplyFacts
  <2> QED BY <1>1, <1>4, <1>5, <1>6, <1>7, <1>10, <2>1, <2>2, <2>3, <2>4, <2>5, TaskStep
<1> QED BY <1>5, <1>8, <1>9, <1>10

-----------------------------------------------------------------------------
(* The service has not come up yet: a recovery takes up the journal that is there. *)
LEMMA RecoversKeeps ==
  ASSUME PluginsSound, NEW id \in Operations, Recovers(id)
  PROVE  PluginsSound'
<1> DEFINE j == journals[id]
           s == j.slug
<1>1. PluginsTyped /\ LeftSound(id) /\ ~pluginsUp /\ Idle /\ j # None /\ id \in Left
  BY DEF PluginsSound, Recovers, Left
<1>2. j \in GoodJournals /\ s \in Slugs
  BY <1>1, JournalIs DEF PluginsTyped
<1> HIDE DEF j
<1>3. /\ pluginTask' = [at |-> IF j.phase = "staged" THEN "settle" ELSE "apply", id |-> id,
                        journal |-> j, forward |-> Ahead(j)]
      /\ UNCHANGED <<plugins, managed, pluginState, pluginsUp, journals, pluginTold>>
  BY DEF Recovers, Ahead, j
<1>4. /\ pluginTask' \in Tasks /\ pluginTask' # NoTask /\ pluginTask'.id = id
      /\ pluginTask'.journal = j /\ pluginTask'.forward = Ahead(j) /\ Slug' = s
      /\ pluginTask'.at \in {"settle", "apply"}
      /\ pluginTask'.at = "settle" => j.phase = "staged"
  <2>1. Ahead(j) \in BOOLEAN
    BY DEF Ahead
  <2>2. /\ pluginTask' \in Tasks /\ pluginTask'.id = id
        /\ pluginTask'.journal = j /\ pluginTask'.forward = Ahead(j)
        /\ pluginTask'.at \in {"settle", "apply"}
        /\ pluginTask'.at = "settle" => j.phase = "staged"
    BY <1>2, <1>3, <2>1 DEF Tasks, Applying
  <2> QED BY <2>2, NoneIsApart DEF Slug
<1>5. PluginsTyped'
  BY <1>1, <1>3, <1>4 DEF PluginsTyped
<1>6. IsWritten' /\ Written' = j
  <2>1. Written' = j
    BY <1>3, <1>4 DEF Written, j
  <2>2. j = [j EXCEPT !.phase = j.phase] /\ j.phase \in Phases
    BY <1>2, JournalIs DEF GoodJournals, Journals
  <2> QED BY <1>2, <1>4, <2>1, <2>2 DEF IsWritten
<1>7. ApplyingSound'
  <2>1. pluginTask'.at = "settle" => (s \notin Bundled => plugins'[s] = j.prev) /\ Desired' = j.prev
    BY <1>1, <1>3, <1>4 DEF LeftSound, HasIt, Desired, Ahead, j
  <2>2. pluginTask'.at \notin {"switch", "forget"} /\ ~pluginsUp' /\ Written' = pluginTask'.journal
    BY <1>1, <1>3, <1>4, <1>6
  <2>3. pluginTask'.forward = Ahead(Written)'
    BY <1>4, <1>6 DEF Ahead
  <2>4. pluginTask'.at = "settle" => HasIt(Slug, Desired)'
    BY <1>4, <2>1 DEF HasIt
  <2> QED BY <1>6, <2>2, <2>3, <2>4 DEF ApplyingSound
<1>8. TaskSound'
  <2>1. Left' \subseteq {id}
    BY <1>1, <1>3 DEF PluginsSound, Left
  <2>2. pluginTask'.at \notin Forward
    BY <1>4 DEF Forward
  <2> QED BY <1>1, <1>3, <1>4, <1>7, <2>1, <2>2 DEF TaskSound
<1>9. \A r \in Slugs : BundledStays(r)' /\ (Concerned(r)' \/ Settled(r)')
  <2> TAKE r \in Slugs
  <2>1. BundledStays(r)'
    BY <1>3 DEF PluginsSound, BundledStays
  <2>2. Concerned(r) => Concerned(r)'
    BY <1>1, <1>3 DEF Concerned, Left
  <2>3. Settled(r) => Settled(r)'
    BY <1>3 DEF Settled, HasIt
  <2> QED BY <2>1, <2>2, <2>3 DEF PluginsSound
<1>10. (\A i \in Operations : LeftSound(i)') /\ \A a, b \in Left' : a = b
  BY <1>3 DEF PluginsSound, LeftSound, HasIt, Left
<1> QED BY <1>5, <1>8, <1>9, <1>10 DEF PluginsSound

(* With nothing under way and no journal left, every plugin is settled. *)
LEMMA AllSettled ==
  ASSUME PluginsSound, Idle, Left = {}, NEW s \in Slugs
  PROVE  Settled(s) /\ BundledStays(s)
BY DEF PluginsSound, Concerned

(* Then there is nothing to reconcile. *)
LEMMA NothingToReconcile ==
  ASSUME PluginsSound, Idle, Left = {}, NEW s \in Slugs
  PROVE  Reconciled(s) = managed[s]
<1>1. Settled(s) /\ BundledStays(s)
  BY AllSettled
<1>2. managed[s] \in CleanRecords /\ plugins[s] \in CleanRecords
  BY DEF PluginsSound, PluginsTyped
<1>3. CASE s \in Bundled
  BY <1>1, <1>3, NoRecordIsClean DEF BundledStays, Reconciled
<1>4. CASE s \notin Bundled
  <2>1. plugins[s] = managed[s]
    BY <1>1, <1>4 DEF Settled, HasIt
  <2>2. [managed[s] EXCEPT !.enabled = managed[s].enabled] = managed[s]
    BY <1>2 DEF CleanRecords, Records
  <2>3. CASE plugins[s].version = 0
    BY <1>2, <2>1, <2>3, RecordIs DEF Reconciled
  <2>4. CASE plugins[s].version # 0
    BY <2>1, <2>2, <2>4 DEF Reconciled
  <2> QED BY <2>3, <2>4
<1> QED BY <1>3, <1>4

LEMMA ServiceStartsKeeps == ASSUME PluginsSound, ServiceStarts PROVE PluginsSound'
<1>1. /\ PluginsTyped /\ Idle /\ Left = {} /\ pluginsUp'
      /\ pluginState' = [s \in Slugs |-> Reconciled(s)] /\ managed' = pluginState'
      /\ UNCHANGED <<plugins, journals, pluginTask, pluginTold>>
  BY DEF PluginsSound, ServiceStarts
<1>2. \A s \in Slugs : Reconciled(s) = managed[s]
  BY <1>1, NothingToReconcile
<1>3. managed' = managed /\ pluginState' = managed
  BY <1>1, <1>2 DEF PluginsTyped
<1>4. PluginsTyped'
  BY <1>1, <1>3 DEF PluginsTyped, ServiceStarts
<1>5. \A s \in Slugs : BundledStays(s)' /\ Settled(s)'
  <2> TAKE s \in Slugs
  <2>1. Settled(s) /\ BundledStays(s)
    BY <1>1, AllSettled
  <2> QED BY <1>1, <1>3, <2>1 DEF Settled, HasIt, BundledStays
<1>6. (\A i \in Operations : LeftSound(i)') /\ \A a, b \in Left' : a = b
  BY <1>1 DEF PluginsSound, LeftSound, HasIt, Left
<1>7. TaskSound'
  BY <1>1 DEF TaskSound, Idle
<1> QED BY <1>4, <1>5, <1>6, <1>7 DEF PluginsSound

(* A crash: a plugin with a journal is left to its recovery, and nothing has been done to any
   other. *)
LEMMA PluginsCrashKeeps == ASSUME PluginsSound, PluginsCrash PROVE PluginsSound'
<1>1. /\ PluginsTyped /\ pluginsUp' = FALSE /\ pluginTask' = NoTask /\ pluginState' = managed
      /\ UNCHANGED <<plugins, managed, journals, pluginTold>>
  BY DEF PluginsSound, PluginsCrash
<1>2. PluginsTyped'
  BY <1>1 DEF PluginsTyped
<1>3. ASSUME NEW r \in Slugs, ~\E id \in Left : journals[id].slug = r
      PROVE  HasIt(r, managed[r]) /\ ("undone" \notin Troubles => pluginTold[r] \in {None, managed[r]})
  <2>1. CASE ~Concerned(r)
    BY <2>1 DEF PluginsSound, Settled
  <2>2. CASE Concerned(r)
    <3>1. ~Idle /\ Slug = r
      BY <1>3, <2>2 DEF Concerned
    <3>2. pluginTask.id \in Operations /\ pluginTask.at \in Forward \cup Applying
          /\ pluginTask.journal \in GoodJournals
      BY <1>1, <3>1, BusyIs
    <3>3. pluginTask.at \in Forward /\ ForwardSound
      <4>1. CASE pluginTask.at \in Applying
        <5>1. Written # None /\ Written.slug = r
          BY <1>1, <3>1, <4>1, WrittenIs DEF PluginsSound, TaskSound, ApplyingSound
        <5> QED BY <1>3, <3>2, <5>1 DEF Written, Left
      <4> QED BY <3>1, <3>2, <4>1 DEF PluginsSound, TaskSound
    <3>4. pluginTask.at = "stage"
      <4>1. CASE pluginTask.at # "stage"
        <5>1. Written = pluginTask.journal /\ Written # None
          BY <3>2, <3>3, <4>1, JournalIs DEF ForwardSound
        <5> QED BY <1>3, <3>1, <3>2, <5>1 DEF Written, Left, Slug
      <4> QED BY <4>1
    <3> QED BY <3>1, <3>3, <3>4 DEF PluginsSound, TaskSound, ForwardSound
  <2> QED BY <2>1, <2>2
<1>4. \A r \in Slugs : BundledStays(r)' /\ (Concerned(r)' \/ Settled(r)')
  <2> TAKE r \in Slugs
  <2>1. BundledStays(r)'
    BY <1>1 DEF PluginsSound, BundledStays
  <2>2. CASE \E id \in Left : journals[id].slug = r
    BY <1>1, <2>1, <2>2 DEF Concerned, Left
  <2>3. CASE ~\E id \in Left : journals[id].slug = r
    BY <1>1, <1>3, <2>1, <2>3 DEF Settled, HasIt
  <2> QED BY <2>1, <2>2, <2>3
<1>5. (\A i \in Operations : LeftSound(i)') /\ \A a, b \in Left' : a = b
  BY <1>1 DEF PluginsSound, LeftSound, HasIt, Left
<1>6. TaskSound'
  BY <1>1 DEF TaskSound, Idle
<1> QED BY <1>2, <1>4, <1>5, <1>6 DEF PluginsSound

(* An operation begins when nothing else is under way and no journal is left. *)
LEMMA BeginsKeeps ==
  ASSUME PluginsSound, "again" \notin Troubles, NEW s \in Slugs,
         NEW action, NEW next, NEW on, Begins(s, action, next, on),
         [slug |-> s, action |-> action, phase |-> "staged", prev |-> pluginState[s], next |-> next,
          prevOn |-> IF action = "metadata" THEN plugins[s].enabled ELSE pluginState[s].enabled,
          nextOn |-> on] \in GoodJournals
  PROVE  PluginsSound'
<1> DEFINE j == [slug |-> s, action |-> action, phase |-> "staged", prev |-> pluginState[s], next |-> next,
                 prevOn |-> IF action = "metadata" THEN plugins[s].enabled ELSE pluginState[s].enabled,
                 nextOn |-> on]
           id == CHOOSE i \in Operations : journals[i] = None
<1>1. j \in GoodJournals /\ j.slug = s /\ j.phase = "staged" /\ j.prev = pluginState[s]
  OBVIOUS
<1>2. /\ PluginsTyped /\ pluginsUp /\ Idle /\ Left = {} /\ Left # Operations
      /\ pluginTask' = [at |-> "stage", id |-> id, forward |-> FALSE, journal |-> j]
      /\ pluginTold' = [pluginTold EXCEPT ![s] = None]
      /\ UNCHANGED <<plugins, managed, pluginState, pluginsUp, journals>>
  BY DEF PluginsSound, Begins
<1>3. id \in Operations /\ journals[id] = None
  <2>1. \E i \in Operations : journals[i] = None
    BY <1>2 DEF Left
  <2> QED BY <2>1
<1> HIDE DEF j, id
<1>4. Settled(s)
  BY <1>2, AllSettled
<1>5. /\ pluginTask' \in Tasks /\ pluginTask' # NoTask /\ pluginTask'.at = "stage" /\ pluginTask'.id = id
      /\ ~pluginTask'.forward /\ pluginTask'.journal = j /\ Slug' = s
  <2>1. /\ pluginTask' \in Tasks /\ pluginTask'.at = "stage" /\ pluginTask'.id = id
        /\ ~pluginTask'.forward /\ pluginTask'.journal = j
    BY <1>1, <1>2, <1>3 DEF Tasks, Forward
  <2> QED BY <1>1, <2>1, NoneIsApart DEF Slug
<1>6. /\ pluginTold' \in [Slugs -> Records \cup {None}] /\ pluginTold'[s] = None
      /\ \A r \in Slugs \ {s} : pluginTold'[r] = pluginTold[r]
  BY <1>2 DEF PluginsTyped
<1>7. PluginsTyped'
  BY <1>2, <1>5, <1>6 DEF PluginsTyped
<1>8. \A r \in Slugs : BundledStays(r)' /\ (Concerned(r)' \/ Settled(r)')
  <2> TAKE r \in Slugs
  <2>1. BundledStays(r) /\ Settled(r)
    BY <1>2, AllSettled
  <2>2. BundledStays(r)'
    BY <1>2, <2>1 DEF BundledStays
  <2>3. CASE r = s
    BY <1>5, <2>2, <2>3 DEF Concerned, Idle
  <2>4. CASE r # s
    BY <1>2, <1>6, <2>1, <2>2, <2>4 DEF Settled, HasIt
  <2> QED BY <2>3, <2>4
<1>9. (\A i \in Operations : LeftSound(i)') /\ Left' = {}
  BY <1>2 DEF LeftSound, Left
<1>10. TaskSound'
  <2>1. ForwardSound'
    <3>1. Written' = None
      BY <1>2, <1>3, <1>5 DEF Written
    <3>2. managed'[s] = j.prev /\ pluginState'[s] = j.prev /\ (s \notin Bundled => plugins'[s] = j.prev)
      BY <1>1, <1>2, <1>4 DEF Settled, HasIt
    <3> QED BY <1>1, <1>2, <1>5, <3>1, <3>2 DEF ForwardSound, HasIt
  <2>2. pluginTask'.at \notin Applying
    BY <1>5 DEF Applying
  <2> QED BY <1>5, <1>6, <1>9, <2>1, <2>2 DEF TaskSound
<1> QED BY <1>7, <1>8, <1>9, <1>10 DEF PluginsSound

(* The records such a journal is made of. *)
LEMMA RecordsToBe ==
  ASSUME PluginsTyped, NEW s \in Slugs
  PROVE  /\ pluginState[s] \in CleanRecords /\ pluginState[s].enabled \in BOOLEAN
         /\ plugins[s].enabled \in BOOLEAN
         /\ \A version \in 1 .. MaxVersion, on \in BOOLEAN :
              /\ [version |-> version, enabled |-> on] \in CleanRecords
              /\ version # 0
         /\ pluginState[s].version # 0 =>
              \A on \in BOOLEAN : /\ [pluginState[s] EXCEPT !.enabled = on] \in CleanRecords
                                  /\ [pluginState[s] EXCEPT !.enabled = on].enabled = on
                                  /\ [pluginState[s] EXCEPT !.enabled = on].version = pluginState[s].version
<1>1. pluginState[s] \in CleanRecords /\ plugins[s] \in CleanRecords
  BY DEF PluginsTyped
<1>2. \A version \in 1 .. MaxVersion, on \in BOOLEAN :
        [version |-> version, enabled |-> on] \in CleanRecords /\ version # 0
  BY CapabilityAssumption DEF CleanRecords, Records
<1>3. pluginState[s].version # 0 =>
        \A on \in BOOLEAN : /\ [pluginState[s] EXCEPT !.enabled = on] \in CleanRecords
                            /\ [pluginState[s] EXCEPT !.enabled = on].enabled = on
                            /\ [pluginState[s] EXCEPT !.enabled = on].version = pluginState[s].version
  BY <1>1 DEF CleanRecords, Records
<1> QED BY <1>1, <1>2, <1>3, RecordIs

(* The four operations on a plugin begin from records that agree. *)
LEMMA InstallKeeps ==
  ASSUME PluginsSound, "again" \notin Troubles, NEW s \in Slugs, NEW version \in 1 .. MaxVersion,
         Install(s, version)
  PROVE  PluginsSound'
<1> DEFINE on == pluginState[s].version = 0 \/ pluginState[s].enabled
           next == [version |-> version, enabled |-> on]
           j == [slug |-> s, action |-> "replace", phase |-> "staged", prev |-> pluginState[s], next |-> next,
                 prevOn |-> pluginState[s].enabled, nextOn |-> on]
<1>1. PluginsTyped /\ s \notin Bundled /\ Begins(s, "replace", next, on)
  BY DEF PluginsSound, BundledStays, Install
<1>2. on \in BOOLEAN
  OBVIOUS
<1> HIDE DEF on
<1>3. next \in CleanRecords /\ next.version # 0 /\ next.enabled = on /\ pluginState[s] \in CleanRecords
      /\ pluginState[s].enabled \in BOOLEAN
  BY <1>1, <1>2, RecordsToBe
<1> HIDE DEF next
<1>4. j \in GoodJournals
  <2>1. j \in Journals
    BY <1>2, <1>3 DEF CleanRecords, Journals, Phases
  <2> QED BY <1>1, <1>3, <2>1 DEF GoodJournals
<1> QED BY <1>1, <1>4, BeginsKeeps

LEMMA UpdateKeeps ==
  ASSUME PluginsSound, "again" \notin Troubles, NEW s \in Slugs, NEW version \in 1 .. MaxVersion,
         Update(s, version)
  PROVE  PluginsSound'
<1> DEFINE on == pluginState[s].enabled
           next == [version |-> version, enabled |-> on]
           j == [slug |-> s, action |-> "replace", phase |-> "staged", prev |-> pluginState[s], next |-> next,
                 prevOn |-> pluginState[s].enabled, nextOn |-> on]
<1>1. PluginsTyped /\ s \notin Bundled /\ Begins(s, "replace", next, on)
  BY DEF PluginsSound, Update, Manages
<1>2. next \in CleanRecords /\ next.version # 0 /\ next.enabled = on /\ pluginState[s] \in CleanRecords
      /\ on \in BOOLEAN
  BY <1>1, RecordsToBe
<1> HIDE DEF next
<1>3. j \in GoodJournals
  <2>1. j \in Journals
    BY <1>2 DEF CleanRecords, Journals, Phases
  <2> QED BY <1>1, <1>2, <2>1 DEF GoodJournals
<1> QED BY <1>1, <1>3, BeginsKeeps

LEMMA UninstallKeeps ==
  ASSUME PluginsSound, "again" \notin Troubles, NEW s \in Slugs, Uninstall(s)
  PROVE  PluginsSound'
<1> DEFINE j == [slug |-> s, action |-> "remove", phase |-> "staged", prev |-> pluginState[s],
                 next |-> NoRecord, prevOn |-> pluginState[s].enabled, nextOn |-> FALSE]
<1>1. PluginsTyped /\ s \notin Bundled /\ Begins(s, "remove", NoRecord, FALSE)
  BY DEF PluginsSound, Uninstall, Manages
<1>2. pluginState[s] \in CleanRecords /\ pluginState[s].enabled \in BOOLEAN
  BY <1>1, RecordsToBe
<1>3. j \in GoodJournals
  <2>1. j \in Journals
    BY <1>2, NoRecordIsClean DEF CleanRecords, Journals, Phases
  <2> QED BY <1>1, <1>2, <2>1, NoRecordIsClean DEF GoodJournals
<1> QED BY <1>1, <1>3, BeginsKeeps

LEMMA SetEnabledKeeps ==
  ASSUME PluginsSound, "again" \notin Troubles, NEW s \in Slugs, NEW on \in BOOLEAN, SetEnabled(s, on)
  PROVE  PluginsSound'
<1> DEFINE next == IF pluginState[s].version = 0 THEN NoRecord ELSE [pluginState[s] EXCEPT !.enabled = on]
           j == [slug |-> s, action |-> "metadata", phase |-> "staged", prev |-> pluginState[s],
                 next |-> next, prevOn |-> plugins[s].enabled, nextOn |-> on]
<1>1. /\ PluginsTyped /\ Begins(s, "metadata", next, on) /\ plugins[s].version # 0
      /\ pluginsUp /\ Idle /\ Left = {}
  BY DEF PluginsSound, SetEnabled, Begins
<1>2. Settled(s) /\ BundledStays(s)
  BY <1>1, AllSettled
<1>3. pluginState[s] \in CleanRecords /\ plugins[s].enabled \in BOOLEAN
  BY <1>1, RecordsToBe
<1>4. CASE s \in Bundled
  <2>1. pluginState[s] = NoRecord /\ next = NoRecord
    BY <1>2, <1>4, NoRecordIsClean DEF BundledStays
  <2> HIDE DEF next
  <2>2. j \in Journals
    BY <1>3, <2>1, NoRecordIsClean DEF CleanRecords, Journals, Phases
  <2>3. j \in GoodJournals
    BY <1>4, <2>1, <2>2, NoRecordIsClean DEF GoodJournals
  <2> QED BY <1>1, <2>3, BeginsKeeps
<1>5. CASE s \notin Bundled
  <2>1. plugins[s] = pluginState[s]
    BY <1>1, <1>2, <1>5 DEF Settled, HasIt
  <2>2. next \in CleanRecords /\ next.enabled = on /\ next.version = pluginState[s].version
    BY <1>1, <2>1, RecordsToBe
  <2> HIDE DEF next
  <2>3. j \in Journals
    BY <1>3, <2>2 DEF CleanRecords, Journals, Phases
  <2>4. j \in GoodJournals
    BY <1>1, <1>3, <1>5, <2>1, <2>2, <2>3 DEF GoodJournals
  <2> QED BY <1>1, <2>4, BeginsKeeps
<1> QED BY <1>4, <1>5

(* The invariant of the plugins holds at first and is kept by every step. *)
LEMMA PluginsBeginSound == ASSUME PluginInit PROVE PluginsSound
<1>1. \A s \in Slugs : /\ plugins[s] \in CleanRecords /\ (s \in Bundled => plugins[s].version # 0)
                       /\ s \notin Bundled => plugins[s] = NoRecord
                       /\ managed[s] = NoRecord /\ pluginState[s] = NoRecord /\ pluginTold[s] = None
  <2>1. [version |-> 1, enabled |-> FALSE] \in CleanRecords
    BY CapabilityAssumption DEF CleanRecords, Records
  <2> QED BY <2>1, NoRecordIsClean DEF PluginInit
<1>2. Idle /\ pluginsUp = FALSE /\ \A id \in Operations : journals[id] = None
  BY DEF PluginInit, Idle
<1>3. PluginsTyped
  BY <1>1, <1>2, NoRecordIsClean DEF PluginInit, PluginsTyped, Idle
<1>4. \A s \in Slugs : BundledStays(s) /\ Settled(s)
  BY <1>1, <1>2 DEF BundledStays, Settled, HasIt
<1>5. (\A id \in Operations : LeftSound(id)) /\ Left = {} /\ TaskSound
  BY <1>2 DEF LeftSound, Left, TaskSound
<1> QED BY <1>3, <1>4, <1>5 DEF PluginsSound

LEMMA PluginsStutter == ASSUME PluginsSound, UNCHANGED pluginVars PROVE PluginsSound'
<1>1. UNCHANGED <<plugins, managed, pluginState, pluginsUp, journals, pluginTask, pluginTold>>
  BY DEF pluginVars
<1>2. PluginsTyped'
  BY <1>1 DEF PluginsSound, PluginsTyped
<1>3. \A s \in Slugs : BundledStays(s)' /\ (Concerned(s)' \/ Settled(s)')
  BY <1>1 DEF PluginsSound, BundledStays, Concerned, Settled, HasIt, Idle, Slug, Left
<1>4. (\A id \in Operations : LeftSound(id)') /\ \A a, b \in Left' : a = b
  BY <1>1 DEF PluginsSound, LeftSound, HasIt, Left
<1>5. TaskSound'
  <2>1. ForwardSound => ForwardSound'
    BY <1>1 DEF ForwardSound, HasIt, Slug, Written
  <2>2. ApplyingSound => ApplyingSound'
    BY <1>1 DEF ApplyingSound, HasIt, Slug, Written, IsWritten, Ahead, Desired
  <2> QED BY <1>1, <2>1, <2>2 DEF PluginsSound, TaskSound, Idle, Left, Slug
<1> QED BY <1>2, <1>3, <1>4, <1>5 DEF PluginsSound

LEMMA PluginStepKeeps ==
  ASSUME PluginsSound, "again" \notin Troubles, [Next]_vars
  PROVE  PluginsSound'
<1>1. CASE SkillStep \/ UNCHANGED vars
  BY <1>1, PluginsStutter DEF SkillStep, vars
<1>2. CASE PluginStep
  <2>1. CASE PluginWorks
    <3>1. CASE Stages
      BY <3>1, StagesKeeps
    <3>2. CASE StartsRuntime
      BY <3>2, StartsRuntimeKeeps
    <3>3. CASE RunsRuntime
      BY <3>3, RunsRuntimeKeeps
    <3>4. CASE EnablesRuntime
      BY <3>4, EnablesRuntimeKeeps
    <3>5. CASE CommitsRuntime
      BY <3>5, CommitsRuntimeKeeps
    <3>6. CASE RecordsState
      BY <3>6, RecordsStateKeeps
    <3>7. CASE CommitsState
      BY <3>7, CommitsStateKeeps
    <3>8. CASE Finishes
      BY <3>8, FinishesKeeps
    <3>9. CASE Applies
      BY <3>9, AppliesKeeps
    <3>10. CASE Enables
      BY <3>10, EnablesKeeps
    <3>11. CASE Settles
      BY <3>11, SettlesKeeps
    <3>12. CASE Forgets
      BY <3>12, ForgetsKeeps
    <3> QED BY <2>1, <3>1, <3>2, <3>3, <3>4, <3>5, <3>6, <3>7, <3>8, <3>9, <3>10, <3>11, <3>12
            DEF PluginWorks
  <2>2. CASE PluginsRecover
    BY <2>2, RecoversKeeps, ServiceStartsKeeps DEF PluginsRecover
  <2> QED BY <1>2, <2>1, <2>2 DEF PluginStep
<1>3. CASE Ask
  <2>1. CASE UNCHANGED pluginVars
    BY <2>1, PluginsStutter
  <2>2. CASE PluginAsked
    <3>1. PICK s \in Slugs :
            \/ \E version \in 1 .. MaxVersion : Install(s, version) \/ Update(s, version)
            \/ Uninstall(s)
            \/ \E on \in BOOLEAN : SetEnabled(s, on)
      BY <2>2 DEF PluginAsked
    <3> QED BY <3>1, InstallKeeps, UpdateKeeps, UninstallKeeps, SetEnabledKeeps
  <2> QED BY <1>3, <2>1, <2>2 DEF Ask
<1>4. CASE Crash
  BY <1>4, PluginsCrashKeeps DEF Crash
<1> QED BY <1>1, <1>2, <1>3, <1>4 DEF Next

(* With nothing under way and nothing left the records agree and outcomes have stayed. *)
LEMMA SoundMeansAgree ==
  ASSUME PluginsSound
  PROVE  RecordsAgree /\ ("undone" \notin Troubles => OutcomeStays)
<1> SUFFICES ASSUME pluginsUp, Idle, Left = {}
             PROVE  RecordsAgree /\ ("undone" \notin Troubles => OutcomeStays)
  BY DEF RecordsAgree, OutcomeStays
<1>1. \A s \in Slugs : Settled(s) /\ BundledStays(s)
  BY AllSettled
<1>2. pluginState = managed
  BY <1>1 DEF Settled, PluginsSound, PluginsTyped
<1>3. \A s \in Slugs : managed[s].version # 0 => plugins[s] = managed[s]
  BY <1>1, NoRecordIsClean DEF Settled, HasIt, BundledStays
<1>4. ASSUME "undone" \notin Troubles, NEW s \in Slugs, pluginTold[s] # None
      PROVE  managed[s] = pluginTold[s] /\ (s \notin Bundled /\ managed[s].version = 0 => plugins[s].version = 0)
  BY <1>1, <1>4 DEF Settled, HasIt
<1> QED BY <1>2, <1>3, <1>4 DEF RecordsAgree, OutcomeStays

LEMMA PluginsStaySound == ASSUME "again" \notin Troubles PROVE Spec => []PluginsSound
<1>1. Init => PluginsSound
  BY PluginsBeginSound DEF Init
<1>2. PluginsSound /\ [Next]_vars => PluginsSound'
  BY PluginStepKeeps
<1> QED BY <1>1, <1>2, PTL DEF Spec

(* Whatever failed, stopped or was recovered: with the plugin service up, nothing under way
   and no journal left, plugin-state.json, managed-plugins.json and OpenClaw name the same
   versions, enabled alike.  Assumed is that no operation begins while the journal of another
   is left, on which PluginsSound rests: the code does not prevent it, and TLC finds the
   property to hold on a small instance even so. *)
THEOREM RecordsAlwaysAgree == ASSUME "again" \notin Troubles PROVE Spec => []RecordsAgree
BY PluginsStaySound, SoundMeansAgree, PTL

(* What an operation reported is what the records say from then on, until the next operation
   on that plugin is begun: a recovery neither takes back what was reported as done nor does
   what was reported as failed and had been undone.  Assumed is the same, and that a journal
   which stays after its operation was undone does not say that it was done: with either,
   TLC finds the property violated at the next start, which applies the journal. *)
THEOREM OutcomeAlwaysStays ==
  ASSUME "again" \notin Troubles, "undone" \notin Troubles
  PROVE  Spec => []OutcomeStays
BY PluginsStaySound, SoundMeansAgree, PTL

-----------------------------------------------------------------------------
(***************************************************************************)
(* The skills.                                                             *)
(***************************************************************************)
\* What an operation makes of a skill: the version it begins with and the one it leads to.
Unphased == ""
Plans == [action : {"replace", "remove", "toggle"}, phase : SkillPhases \cup {Unphased},
          prev : CleanRecords, next : CleanRecords]
GoodPlans ==
  {j \in Plans :
     /\ j.action = "replace" =>
          j.next.version # 0 /\ (j.prev.version # 0 => j.next.enabled = j.prev.enabled)
     /\ j.action = "remove" => j.next = NoRecord /\ j.prev.version # 0
     /\ j.action = "toggle" => j.prev.version # 0 /\ j.next.version = j.prev.version}
Phase(j, phase) == [j EXCEPT !.phase = phase]

Dirs(target, staging, backup) ==
  skillFiles = [target |-> target, staging |-> staging, backup |-> backup]

SkillTyped ==
  /\ skillFiles \in [target : Versions, staging : Versions, backup : Versions]
  /\ skillRecord \in CleanRecords
  /\ skillSwitch \in BOOLEAN /\ gatewayUp \in BOOLEAN /\ skillsUp \in BOOLEAN

\* The directories and the record while a journal of this phase is on the disk.
ReplaceLies(j, phase) ==
  LET p == j.prev.version
      n == j.next.version
  IN \/ /\ phase \in {"prepared", "rolling-back"}
        /\ \E s \in {0, n} : Dirs(p, s, 0) \/ Dirs(0, s, p) \/ Dirs(n, s, p)
     \/ /\ phase \in {"staged", "backed-up", "replaced"}
        /\ \/ Dirs(n, 0, p) \/ Dirs(p, n, 0) \/ Dirs(0, n, p)
           \/ Dirs(n, 0, 0) /\ skillRecord = j.next
           \/ Dirs(0, 0, 0) /\ p = 0
     \/ /\ phase = "verified"
        /\ Dirs(n, 0, p) \/ Dirs(n, 0, 0)
        /\ skillRecord = j.next /\ skillSwitch = j.next.enabled
RemoveLies(j, phase) ==
  LET p == j.prev.version
  IN \/ phase \in {"staged", "backed-up", "rolling-back"} /\ (Dirs(p, 0, 0) \/ Dirs(0, 0, p))
     \/ phase = "committed" /\ (Dirs(0, 0, p) \/ (Dirs(0, 0, 0) /\ skillRecord = NoRecord))
     \/ /\ phase = "committed-final" /\ skillRecord = NoRecord
        /\ Dirs(0, 0, p) \/ Dirs(0, 0, 0)

SwitchIs(j) == j.action # "toggle" /\ j.prev.version # 0 => skillSwitch = j.prev.enabled
RecordIn(j) == skillRecord \in {NoRecord, j.prev, j.next}
RecordOld(j) == skillRecord \in {NoRecord, j.prev}
Lies(j, phase) ==
  /\ SwitchIs(j) /\ RecordIn(j)
  /\ j.action = "replace" => ReplaceLies(j, phase)
  /\ j.action = "remove" => RemoveLies(j, phase)
  /\ j.action = "toggle" => Dirs(j.prev.version, 0, 0)
LeftBy(j) == \E phase \in SkillPhases : skillJournal = Phase(j, phase) /\ Lies(j, phase)
DiskSound == skillJournal = None \/ \E j \in GoodPlans : LeftBy(j)

-----------------------------------------------------------------------------
StepNames ==
  SkillPhases \cup {"stage", "backup", "replace", "record", "verify", "drop", "finish", "withdraw",
                   "restore", "unstage", "switch", "compensate", "clear"}

\* What is left of a course from its k-th step on, and a task that has got so far.
Rest(course, k) == SubSeq(course, k, Len(course))
Task(way, course, k, record, before, backedUp, replaced, j) ==
  [way |-> way, steps |-> Rest(course, k), record |-> record, before |-> before,
   backedUp |-> backedUp, replaced |-> replaced, journal |-> j]

\* A task whose flags do not matter.
Stands(way, course, k, record, before, j) ==
  \E b, x \in BOOLEAN : skillTask = Task(way, course, k, record, before, b, x, j)

ReplacingDisk(j, k) ==
  LET p == j.prev.version
      n == j.next.version
  IN /\ Dirs(IF k <= 4 THEN p ELSE IF k <= 6 THEN 0 ELSE n,
             IF 3 <= k /\ k <= 6 THEN n ELSE 0,
             IF 5 <= k /\ k <= 11 THEN p ELSE 0)
     /\ \/ k = 1 /\ skillJournal = None
        \/ k \in {2, 3} /\ skillJournal = Phase(j, "prepared")
        \/ k \in {4, 5, 6, 7} /\ skillJournal = Phase(j, "staged")
        \/ k \in {6, 7} /\ skillJournal = Phase(j, "backed-up")
        \/ k \in {8, 9, 10} /\ skillJournal = Phase(j, "replaced")
        \/ k \in {11, 12} /\ skillJournal = Phase(j, "verified")
     /\ IF k <= 8 THEN RecordOld(j) ELSE skillRecord = j.next
     /\ k >= 10 => skillSwitch = j.next.enabled
Replacing(j, k) ==
  /\ skillTask = Task("go", Course("replace"), k, j.next, j.prev, k >= 5 /\ j.prev.version # 0, k >= 7, j)
  /\ ReplacingDisk(j, k)

ReplacedDisk(j, k, b, x) ==
  LET p == j.prev.version
      n == j.next.version
  IN /\ b => p # 0
     /\ x /\ p # 0 => b
     /\ \E s \in {0, n} :
          /\ k >= 6 => s = 0
          /\ Dirs(IF k >= 4 THEN p ELSE IF x /\ k <= 2 THEN n ELSE IF b THEN 0 ELSE p,
                  s, IF b /\ k <= 3 THEN p ELSE 0)
     /\ \/ k = 1 /\ skillJournal = None /\ Dirs(p, 0, 0) /\ RecordOld(j)
        \/ k = 1 /\ LeftBy(j)
        \/ k > 1 /\ skillJournal = Phase(j, "rolling-back")
     /\ IF k >= 5 THEN skillRecord = j.prev ELSE RecordIn(j)
PuttingBack(j, k) ==
  \E b, x \in BOOLEAN :
    /\ skillTask = Task("undo", Catch("replace"), k, j.prev, j.prev, b, x, j)
    /\ ReplacedDisk(j, k, b, x)

RemovingDisk(j, k) ==
  LET p == j.prev.version
  IN /\ Dirs(IF k <= 2 THEN p ELSE 0, 0, IF 3 <= k /\ k <= 8 THEN p ELSE 0)
     /\ \/ k = 1 /\ skillJournal = None
        \/ k \in {2, 3} /\ skillJournal = Phase(j, "staged")
        \/ k \in {4, 5} /\ skillJournal = Phase(j, "backed-up")
        \/ k \in {6, 7} /\ skillJournal = Phase(j, "committed")
        \/ k \in {8, 9} /\ skillJournal = Phase(j, "committed-final")
     /\ IF k <= 4 THEN RecordOld(j) ELSE skillRecord = NoRecord
Removing(j, k) ==
  \E before \in {NoRecord, j.prev} :
    /\ Stands("go", Course("remove"), k, NoRecord, before, j)
    /\ RemovingDisk(j, k)

RemovedDisk(j, k, before) ==
  LET p == j.prev.version
  IN /\ Dirs(p, 0, 0) \/ (k <= 2 /\ Dirs(0, 0, p))
     /\ IF k = 1 THEN LeftBy(j) ELSE skillJournal = Phase(j, "rolling-back")
     /\ IF k = 4 THEN skillRecord = before ELSE RecordOld(j)
BringingBack(j, k) ==
  \E before \in {NoRecord, j.prev} :
    /\ Stands("undo", Catch("remove"), k, before, before, j)
    /\ RemovedDisk(j, k, before)

TogglingDisk(j, k) ==
  /\ Dirs(j.prev.version, 0, 0)
  /\ IF k = 1 THEN skillJournal = None ELSE LeftBy(j)
  /\ skillSwitch = IF k <= 2 THEN j.prev.enabled ELSE j.next.enabled
  /\ IF k <= 4 THEN RecordOld(j) ELSE skillRecord = j.next
Toggling(j, k) ==
  \E before \in {NoRecord, j.prev} :
    /\ Stands("go", Course("toggle"), k, j.next, before, j)
    /\ TogglingDisk(j, k)

ToggledDisk(j, k, before) ==
  /\ Dirs(j.prev.version, 0, 0) /\ LeftBy(j)
  /\ k >= 2 => skillSwitch = j.prev.enabled
  /\ k = 3 => skillRecord = before
TurningBack(j, k) ==
  \E before \in {NoRecord, j.prev} :
    /\ Stands("undo", Catch("toggle"), k, before, before, j)
    /\ ToggledDisk(j, k, before)

\* A recovery that goes on: the new version is there, or the old one is away.
ForwardDisk(j, k) ==
  /\ \/ /\ j.action = "replace" /\ j.phase \in {"staged", "backed-up", "replaced", "verified"}
        /\ skillSwitch = j.next.enabled
     \/ j.action = "remove" /\ j.phase \in {"committed", "committed-final"}
  /\ Dirs(j.next.version, 0, 0) \/ (k < 3 /\ Dirs(j.next.version, 0, j.prev.version))
  /\ skillJournal = j /\ LeftBy(j)
  /\ k >= 2 => skillRecord = j.next
Completing(j, k) ==
  /\ Stands("recover", Forwards, k, j.next, j.next, j)
  /\ ForwardDisk(j, k)

\* A recovery that goes back.
BackDisk(j, k, b, x) ==
  LET p == j.prev.version
      n == j.next.version
  IN /\ j.action \in {"replace", "remove"}
     /\ j.phase \in {"prepared", "staged", "backed-up", "replaced", "rolling-back"}
     /\ k <= 2 => x = b
     /\ \E s \in (IF j.action = "replace" THEN {0, n} ELSE {0}) :
          IF b /\ k <= 2
          THEN \/ Dirs(0, s, p)
               \/ k = 1 /\ Dirs(n, s, p) /\ (p = 0 \/ j.phase \in {"prepared", "rolling-back"})
          ELSE Dirs(p, s, 0)
     /\ skillJournal = j /\ LeftBy(j)
     /\ k = 4 => skillRecord = j.prev
GoingBack(j, k) ==
  \E b, x \in BOOLEAN :
    /\ skillTask = Task("recover", Backwards, k, j.prev, j.prev, b, x, j)
    /\ BackDisk(j, k, b, x)

\* One that believes OpenClaw.
Switching(j, k) ==
  \E record \in {j.prev, j.next} :
    /\ j.action = "toggle" /\ record.enabled = skillSwitch
    /\ Stands("recover", <<"record", "finish">>, k, record, record, j)
    /\ skillJournal = j /\ LeftBy(j)
    /\ k = 2 => skillRecord = record

SkillTaskSound ==
  SkillIdle \/ \E j \in GoodPlans :
    /\ SwitchIs(j)
    /\ \/ j.action = "replace" /\ \E k \in 1 .. 12 : Replacing(j, k)
       \/ j.action = "replace" /\ \E k \in 1 .. 7 : PuttingBack(j, k)
       \/ j.action = "remove" /\ \E k \in 1 .. 9 : Removing(j, k)
       \/ j.action = "remove" /\ \E k \in 1 .. 4 : BringingBack(j, k)
       \/ j.action = "toggle" /\ \E k \in 1 .. 6 : Toggling(j, k)
       \/ j.action = "toggle" /\ \E k \in 1 .. 3 : TurningBack(j, k)
       \/ \E k \in 1 .. 3 : Completing(j, k)
       \/ \E k \in 1 .. 4 : GoingBack(j, k)
       \/ \E k \in 1 .. 2 : Switching(j, k)

SkillsSound == SkillTyped /\ FilesMatchRecord /\ DiskSound /\ SkillTaskSound

-----------------------------------------------------------------------------
(* Courses as sequences: what is left of one, and what the steps of each are. *)
LEMMA RestIs ==
  ASSUME NEW course \in Seq(StepNames), NEW k \in 1 .. Len(course)
  PROVE  /\ Rest(course, k) \in Seq(StepNames) /\ Len(Rest(course, k)) = Len(course) - k + 1
         /\ Head(Rest(course, k)) = course[k]
         /\ k < Len(course) => Tail(Rest(course, k)) = Rest(course, k + 1)
         /\ Rest(course, k) = course => k = 1
         /\ Rest(course, 1) = course
<1>1. /\ Rest(course, k) \in Seq(StepNames) /\ Len(Rest(course, k)) = Len(course) - k + 1
      /\ \A i \in 1 .. Len(course) - k + 1 : Rest(course, k)[i] = course[k + i - 1]
  BY SubSeqProperties DEF Rest
<1>2. Head(Rest(course, k)) = course[k]
  BY <1>1
<1>3. ASSUME k < Len(course) PROVE Tail(Rest(course, k)) = Rest(course, k + 1)
  <2> DEFINE r == Rest(course, k)
             q == Rest(course, k + 1)
  <2>1. /\ q \in Seq(StepNames) /\ Len(q) = Len(course) - k
        /\ \A i \in 1 .. Len(course) - k : q[i] = course[k + i]
    BY <1>3, SubSeqProperties DEF Rest
  <2>2. r # << >> /\ r \in Seq(StepNames)
    BY <1>1, <1>3
  <2>3. /\ Tail(r) \in Seq(StepNames) /\ Len(Tail(r)) = Len(r) - 1
        /\ \A i \in 1 .. Len(Tail(r)) : Tail(r)[i] = r[i + 1]
    BY <2>2, HeadTailProperties
  <2>4. Len(Tail(r)) = Len(q) /\ \A i \in 1 .. Len(q) : Tail(r)[i] = q[i]
    BY <1>1, <1>3, <2>1, <2>3
  <2> HIDE DEF r, q
  <2> QED BY <2>1, <2>3, <2>4, SeqEqual DEF r, q
<1>4. Rest(course, k) = course => k = 1
  BY <1>1
<1>5. Rest(course, 1) = course
  <2>1. /\ Rest(course, 1) \in Seq(StepNames) /\ Len(Rest(course, 1)) = Len(course)
        /\ \A i \in 1 .. Len(course) : Rest(course, 1)[i] = course[i]
    BY SubSeqProperties DEF Rest
  <2> QED BY <2>1, SeqEqual
<1> QED BY <1>1, <1>2, <1>3, <1>4, <1>5

LEMMA CourseIs == ASSUME NEW n \in Nat, NEW c \in [1 .. n -> StepNames] PROVE c \in Seq(StepNames)
OBVIOUS

LEMMA ReplaceCourse ==
  /\ Course("replace") \in Seq(StepNames) /\ Len(Course("replace")) = 12
  /\ Course("replace")[1] = "prepared" /\ Course("replace")[2] = "stage"
  /\ Course("replace")[3] = "staged" /\ Course("replace")[4] = "backup"
  /\ Course("replace")[5] = "backed-up" /\ Course("replace")[6] = "replace"
  /\ Course("replace")[7] = "replaced" /\ Course("replace")[8] = "record"
  /\ Course("replace")[9] = "verify" /\ Course("replace")[10] = "verified"
  /\ Course("replace")[11] = "drop" /\ Course("replace")[12] = "finish"
<1> DEFINE c == Course("replace")
<1>1. /\ Len(c) = 12 /\ c = [i \in 1 .. 12 |-> c[i]]
      /\ c[1] = "prepared" /\ c[2] = "stage" /\ c[3] = "staged" /\ c[4] = "backup"
      /\ c[5] = "backed-up" /\ c[6] = "replace" /\ c[7] = "replaced" /\ c[8] = "record"
      /\ c[9] = "verify" /\ c[10] = "verified" /\ c[11] = "drop" /\ c[12] = "finish"
  BY DEF Course
<1> HIDE DEF c
<1>2. \A i \in 1 .. 12 : c[i] \in StepNames
  BY <1>1 DEF StepNames, SkillPhases
<1>3. c \in [1 .. 12 -> StepNames]
  BY <1>1, <1>2
<1>4. c \in Seq(StepNames)
  BY <1>3, CourseIs
<1> QED BY <1>1, <1>4 DEF c

LEMMA ReplaceCatch ==
  /\ Catch("replace") \in Seq(StepNames) /\ Len(Catch("replace")) = 7
  /\ Catch("replace")[1] = "rolling-back" /\ Catch("replace")[2] = "withdraw"
  /\ Catch("replace")[3] = "restore" /\ Catch("replace")[4] = "record"
  /\ Catch("replace")[5] = "unstage" /\ Catch("replace")[6] = "drop"
  /\ Catch("replace")[7] = "finish"
<1> DEFINE c == Catch("replace")
<1>1. /\ Len(c) = 7 /\ c = [i \in 1 .. 7 |-> c[i]]
      /\ c[1] = "rolling-back" /\ c[2] = "withdraw" /\ c[3] = "restore" /\ c[4] = "record"
      /\ c[5] = "unstage" /\ c[6] = "drop" /\ c[7] = "finish"
  BY DEF Catch
<1> HIDE DEF c
<1>2. \A i \in 1 .. 7 : c[i] \in StepNames
  BY <1>1 DEF StepNames, SkillPhases
<1>3. c \in [1 .. 7 -> StepNames]
  BY <1>1, <1>2
<1>4. c \in Seq(StepNames)
  BY <1>3, CourseIs
<1> QED BY <1>1, <1>4 DEF c

LEMMA RemoveCourse ==
  /\ Course("remove") \in Seq(StepNames) /\ Len(Course("remove")) = 9
  /\ Course("remove")[1] = "staged" /\ Course("remove")[2] = "backup"
  /\ Course("remove")[3] = "backed-up" /\ Course("remove")[4] = "record"
  /\ Course("remove")[5] = "committed" /\ Course("remove")[6] = "verify"
  /\ Course("remove")[7] = "committed-final" /\ Course("remove")[8] = "drop"
  /\ Course("remove")[9] = "finish"
<1> DEFINE c == Course("remove")
<1>1. /\ Len(c) = 9 /\ c = [i \in 1 .. 9 |-> c[i]]
      /\ c[1] = "staged" /\ c[2] = "backup" /\ c[3] = "backed-up" /\ c[4] = "record"
      /\ c[5] = "committed" /\ c[6] = "verify" /\ c[7] = "committed-final" /\ c[8] = "drop"
      /\ c[9] = "finish"
  BY DEF Course
<1> HIDE DEF c
<1>2. \A i \in 1 .. 9 : c[i] \in StepNames
  BY <1>1 DEF StepNames, SkillPhases
<1>3. c \in [1 .. 9 -> StepNames]
  BY <1>1, <1>2
<1>4. c \in Seq(StepNames)
  BY <1>3, CourseIs
<1> QED BY <1>1, <1>4 DEF c

LEMMA RemoveCatch ==
  /\ Catch("remove") \in Seq(StepNames) /\ Len(Catch("remove")) = 4
  /\ Catch("remove")[1] = "rolling-back" /\ Catch("remove")[2] = "restore"
  /\ Catch("remove")[3] = "record" /\ Catch("remove")[4] = "finish"
<1> DEFINE c == Catch("remove")
<1>1. /\ Len(c) = 4 /\ c = [i \in 1 .. 4 |-> c[i]]
      /\ c[1] = "rolling-back" /\ c[2] = "restore" /\ c[3] = "record" /\ c[4] = "finish"
  BY DEF Catch
<1> HIDE DEF c
<1>2. \A i \in 1 .. 4 : c[i] \in StepNames
  BY <1>1 DEF StepNames, SkillPhases
<1>3. c \in [1 .. 4 -> StepNames]
  BY <1>1, <1>2
<1>4. c \in Seq(StepNames)
  BY <1>3, CourseIs
<1> QED BY <1>1, <1>4 DEF c

LEMMA ToggleCourse ==
  /\ Course("toggle") \in Seq(StepNames) /\ Len(Course("toggle")) = 6
  /\ Course("toggle")[1] = "prepared" /\ Course("toggle")[2] = "switch"
  /\ Course("toggle")[3] = "runtime-changed" /\ Course("toggle")[4] = "record"
  /\ Course("toggle")[5] = "state-persisted" /\ Course("toggle")[6] = "finish"
<1> DEFINE c == Course("toggle")
<1>1. /\ Len(c) = 6 /\ c = [i \in 1 .. 6 |-> c[i]]
      /\ c[1] = "prepared" /\ c[2] = "switch" /\ c[3] = "runtime-changed" /\ c[4] = "record"
      /\ c[5] = "state-persisted" /\ c[6] = "finish"
  BY DEF Course
<1> HIDE DEF c
<1>2. \A i \in 1 .. 6 : c[i] \in StepNames
  BY <1>1 DEF StepNames, SkillPhases
<1>3. c \in [1 .. 6 -> StepNames]
  BY <1>1, <1>2
<1>4. c \in Seq(StepNames)
  BY <1>3, CourseIs
<1> QED BY <1>1, <1>4 DEF c

LEMMA ToggleCatch ==
  /\ Catch("toggle") \in Seq(StepNames) /\ Len(Catch("toggle")) = 3
  /\ Catch("toggle")[1] = "compensate" /\ Catch("toggle")[2] = "record"
  /\ Catch("toggle")[3] = "finish"
<1> DEFINE c == Catch("toggle")
<1>1. /\ Len(c) = 3 /\ c = [i \in 1 .. 3 |-> c[i]]
      /\ c[1] = "compensate" /\ c[2] = "record" /\ c[3] = "finish"
  BY DEF Catch
<1> HIDE DEF c
<1>2. \A i \in 1 .. 3 : c[i] \in StepNames
  BY <1>1 DEF StepNames, SkillPhases
<1>3. c \in [1 .. 3 -> StepNames]
  BY <1>1, <1>2
<1>4. c \in Seq(StepNames)
  BY <1>3, CourseIs
<1> QED BY <1>1, <1>4 DEF c

LEMMA Joined ==
  ASSUME NEW c \in Seq(StepNames), NEW d \in Seq(StepNames)
  PROVE  /\ c \o d \in Seq(StepNames) /\ Len(c \o d) = Len(c) + Len(d)
         /\ \A i \in 1 .. Len(c) + Len(d) : (c \o d)[i] = IF i <= Len(c) THEN c[i] ELSE d[i - Len(c)]
BY ConcatProperties

LEMMA RecoveryCourses ==
  ASSUME "recovery" \notin Troubles
  PROVE  /\ Forwards \in Seq(StepNames) /\ Len(Forwards) = 3
         /\ Forwards[1] = "record" /\ Forwards[2] = "drop" /\ Forwards[3] = "clear"
         /\ Backwards \in Seq(StepNames) /\ Len(Backwards) = 4
         /\ Backwards[1] = "withdraw" /\ Backwards[2] = "restore"
         /\ Backwards[3] = "record" /\ Backwards[4] = "clear"
         /\ <<"record", "finish">> \in Seq(StepNames) /\ Len(<<"record", "finish">>) = 2
         /\ <<"record", "finish">>[1] = "record" /\ <<"record", "finish">>[2] = "finish"
<1>1. Cleared = <<"clear">>
  BY DEF Cleared
<1> DEFINE front == <<"record", "drop">>
           back == <<"withdraw", "restore", "record">>
           one == <<"clear">>
           two == <<"record", "finish">>
<1>2. /\ front \in Seq(StepNames) /\ Len(front) = 2 /\ front[1] = "record" /\ front[2] = "drop"
      /\ back \in Seq(StepNames) /\ Len(back) = 3
      /\ back[1] = "withdraw" /\ back[2] = "restore" /\ back[3] = "record"
      /\ one \in Seq(StepNames) /\ Len(one) = 1 /\ one[1] = "clear"
      /\ two \in Seq(StepNames) /\ Len(two) = 2 /\ two[1] = "record" /\ two[2] = "finish"
  <2>1. {"record", "drop", "withdraw", "restore", "clear", "finish"} \subseteq StepNames
    BY DEF StepNames
  <2> QED BY <2>1
<1> HIDE DEF front, back, one, two
<1>3. Forwards = front \o one /\ Backwards = back \o one
  BY <1>1 DEF Forwards, Backwards, front, back, one
<1>4. /\ Forwards \in Seq(StepNames) /\ Len(Forwards) = 3
      /\ Forwards[1] = "record" /\ Forwards[2] = "drop" /\ Forwards[3] = "clear"
  <2>1. /\ front \o one \in Seq(StepNames) /\ Len(front \o one) = 3
        /\ \A i \in 1 .. 3 : (front \o one)[i] = IF i <= 2 THEN front[i] ELSE one[i - 2]
    BY <1>2, Joined
  <2>2. /\ (front \o one)[1] = front[1] /\ (front \o one)[2] = front[2] /\ (front \o one)[3] = one[1]
    BY <2>1
  <2> QED BY <1>2, <1>3, <2>1, <2>2
<1>5. /\ Backwards \in Seq(StepNames) /\ Len(Backwards) = 4
      /\ Backwards[1] = "withdraw" /\ Backwards[2] = "restore"
      /\ Backwards[3] = "record" /\ Backwards[4] = "clear"
  <2>0. /\ back \o one \in Seq(StepNames) /\ Len(back \o one) = Len(back) + Len(one)
        /\ \A i \in 1 .. Len(back) + Len(one) :
             (back \o one)[i] = IF i <= Len(back) THEN back[i] ELSE one[i - Len(back)]
    BY <1>2, Joined, Zenon
  <2>1. /\ back \o one \in Seq(StepNames) /\ Len(back \o one) = 4
        /\ \A i \in 1 .. 4 : (back \o one)[i] = IF i <= 3 THEN back[i] ELSE one[i - 3]
    BY <1>2, <2>0
  <2>2. /\ (back \o one)[1] = back[1] /\ (back \o one)[2] = back[2] /\ (back \o one)[3] = back[3]
        /\ (back \o one)[4] = one[1]
    BY <2>1
  <2> QED BY <1>2, <1>3, <2>1, <2>2
<1> QED BY <1>2, <1>4, <1>5 DEF two

(* An operation that has got to the k-th step of a course takes it, and goes on or is over. *)
LEMMA TaskIs ==
  ASSUME NEW way \in {"go", "undo", "recover"}, NEW course \in Seq(StepNames), NEW k \in 1 .. Len(course),
         NEW r, NEW f, NEW b, NEW x, NEW j, skillTask = Task(way, course, k, r, f, b, x, j)
  PROVE  /\ ~SkillIdle /\ skillTask.way = way /\ Head(skillTask.steps) = course[k]
         /\ skillTask.record = r /\ skillTask.before = f /\ skillTask.backedUp = b
         /\ skillTask.replaced = x /\ skillTask.journal = j
         /\ skillTask.steps = Rest(course, k)
         /\ Onward => IF k = Len(course) THEN SkillOver
                      ELSE skillTask' = Task(way, course, k + 1, r, f, b, x, j)
<1>1. /\ skillTask.way = way /\ skillTask.steps = Rest(course, k)
      /\ skillTask.record = r /\ skillTask.before = f /\ skillTask.backedUp = b
      /\ skillTask.replaced = x /\ skillTask.journal = j
  BY DEF Task
<1>2. Head(skillTask.steps) = course[k] /\ Len(skillTask.steps) = Len(course) - k + 1
  <2>1. Head(Rest(course, k)) = course[k] /\ Len(Rest(course, k)) = Len(course) - k + 1
    BY RestIs
  <2> QED BY <1>1, <2>1
<1>3. ~SkillIdle
  BY <1>1 DEF SkillIdle, NoSkillTask
<1>4. ASSUME Onward PROVE IF k = Len(course) THEN SkillOver
                          ELSE skillTask' = Task(way, course, k + 1, r, f, b, x, j)
  <2>1. CASE k = Len(course)
    BY <1>2, <1>4, <2>1 DEF Onward
  <2>2. CASE k < Len(course)
    <3>1. skillTask' = [skillTask EXCEPT !.steps = Tail(@)]
      BY <1>2, <1>4, <2>2 DEF Onward
    <3>2. Tail(Rest(course, k)) = Rest(course, k + 1)
      BY <2>2, RestIs
    <3>3. skillTask' = Task(way, course, k + 1, r, f, b, x, j)
      BY <3>1, <3>2 DEF Task
    <3> QED BY <2>2, <3>3
  <2> QED BY <2>1, <2>2
<1> QED BY <1>1, <1>2, <1>3, <1>4

(* Which action takes a step, and what it does. *)
LEMMA StepsOfActions ==
  /\ SavesPhase => Head(skillTask.steps) \in SkillPhases
  /\ MovesFiles => Head(skillTask.steps) \in {"stage", "backup", "replace", "withdraw", "restore", "unstage", "drop"}
  /\ WritesRecord => Head(skillTask.steps) = "record"
  /\ Verifies => Head(skillTask.steps) = "verify"
  /\ TurnsSwitch => Head(skillTask.steps) \in {"switch", "compensate"}
  /\ FinishesSkill => Head(skillTask.steps) \in {"finish", "clear"}
<1>1. SavesPhase => Head(skillTask.steps) \in SkillPhases
  BY DEF SavesPhase, Step
<1>2. MovesFiles => Head(skillTask.steps) \in {"stage", "backup", "replace", "withdraw", "restore", "unstage", "drop"}
  BY DEF MovesFiles, Step
<1>3. WritesRecord => Head(skillTask.steps) = "record"
  BY DEF WritesRecord, Step
<1>4. Verifies => Head(skillTask.steps) = "verify"
  BY DEF Verifies, Step
<1>5. TurnsSwitch => Head(skillTask.steps) \in {"switch", "compensate"}
  BY DEF TurnsSwitch, Step
<1>6. FinishesSkill => Head(skillTask.steps) \in {"finish", "clear"}
  BY DEF FinishesSkill, Step
<1> QED BY <1>1, <1>2, <1>3, <1>4, <1>5, <1>6

(* What each step does to the disk, in the two ways in which it may end. *)
LEMMA SavesIs ==
  ASSUME NEW x \in SkillPhases, SkillWorks, Head(skillTask.steps) = x
  PROVE  /\ UNCHANGED <<skillFiles, skillRecord, skillSwitch, gatewayUp, skillsUp>>
         /\ \/ skillJournal' = Phase(skillTask.journal, x) /\ (Onward \/ Error)
            \/ skillJournal' = skillJournal /\ Error
<1>1. SavesPhase
  BY StepsOfActions DEF SkillWorks, SkillPhases
<1> QED BY <1>1 DEF SavesPhase, Step, Tries, Attempt, Phase

LEMMA RecordIsWritten ==
  ASSUME SkillWorks, Head(skillTask.steps) = "record"
  PROVE  /\ UNCHANGED <<skillFiles, skillJournal, skillSwitch, gatewayUp, skillsUp>>
         /\ \/ skillRecord' = skillTask.record /\ (Onward \/ Error)
            \/ skillRecord' = skillRecord /\ Error
<1>1. WritesRecord
  BY StepsOfActions DEF SkillWorks, SkillPhases
<1> QED BY <1>1 DEF WritesRecord, Step, Tries, Attempt

LEMMA VerifiesIs ==
  ASSUME SkillWorks, Head(skillTask.steps) = "verify"
  PROVE  /\ UNCHANGED <<skillDisk, gatewayUp, skillsUp>>
         /\ (Shows(skillTask.journal.next) /\ Onward) \/ Error
<1>1. Verifies
  BY StepsOfActions DEF SkillWorks, SkillPhases
<1> QED BY <1>1 DEF Verifies

LEMMA SwitchIsSet ==
  ASSUME SkillWorks, NEW on,
         \/ Head(skillTask.steps) = "switch" /\ on = skillTask.journal.next.enabled
         \/ Head(skillTask.steps) = "compensate" /\ on = skillTask.journal.prev.enabled
  PROVE  /\ UNCHANGED <<skillFiles, skillRecord, skillJournal, gatewayUp, skillsUp>>
         /\ \/ skillSwitch' = on /\ (Onward \/ Error)
            \/ skillSwitch' = skillSwitch /\ Error
<1>1. TurnsSwitch
  BY StepsOfActions DEF SkillWorks, SkillPhases
<1>2. SetsSwitch(on)
  BY <1>1 DEF TurnsSwitch, Step
<1> QED BY <1>2 DEF SetsSwitch, Tries, Attempt

LEMMA FinishesIs ==
  ASSUME SkillWorks, "sync" \notin Troubles, Head(skillTask.steps) \in {"finish", "clear"}
  PROVE  /\ UNCHANGED <<skillRecord, skillSwitch, gatewayUp, skillsUp>>
         /\ \/ /\ skillJournal' = None /\ Onward
               /\ skillFiles' = IF Head(skillTask.steps) = "clear" THEN [skillFiles EXCEPT !.staging = 0]
                                ELSE skillFiles
            \/ UNCHANGED <<skillJournal, skillFiles>> /\ Error
<1>1. FinishesSkill
  BY StepsOfActions DEF SkillWorks, SkillPhases
<1>2. CASE Head(skillTask.steps) = "finish"
  BY <1>1, <1>2 DEF FinishesSkill, Step, Changes
<1>3. CASE Head(skillTask.steps) = "clear"
  BY <1>1, <1>3 DEF FinishesSkill, Step, Changes
<1> QED BY <1>2, <1>3

LEMMA MovesStep ==
  ASSUME SkillWorks,
         Head(skillTask.steps) \in {"stage", "backup", "replace", "withdraw", "restore", "unstage", "drop"}
  PROVE  MovesFiles /\ UNCHANGED <<skillRecord, skillJournal, skillSwitch, gatewayUp, skillsUp>>
<1>1. MovesFiles
  BY StepsOfActions DEF SkillWorks, SkillPhases
<1> QED BY <1>1 DEF MovesFiles

LEMMA StagesIs ==
  ASSUME SkillWorks, Head(skillTask.steps) = "stage"
  PROVE  \/ skillFiles' = [skillFiles EXCEPT !.staging = skillTask.journal.next.version] /\ (Onward \/ Error)
         \/ skillFiles' = skillFiles /\ Error
BY MovesStep DEF MovesFiles, Step, Tries, Attempt

LEMMA RemovesIs ==
  ASSUME SkillWorks, NEW which \in {"staging", "backup"},
         Head(skillTask.steps) = IF which = "staging" THEN "unstage" ELSE "drop"
  PROVE  \/ skillFiles' = [skillFiles EXCEPT ![which] = 0] /\ (Onward \/ Error)
         \/ skillFiles' = skillFiles /\ Error
BY MovesStep DEF MovesFiles, Step, Removes, Tries, Attempt

LEMMA WithdrawsIs ==
  ASSUME SkillWorks, Head(skillTask.steps) = "withdraw"
  PROVE  IF skillTask.replaced
         THEN \/ skillFiles' = [skillFiles EXCEPT !.target = 0] /\ (Onward \/ Error)
              \/ skillFiles' = skillFiles /\ Error
         ELSE skillFiles' = skillFiles /\ Onward
BY MovesStep DEF MovesFiles, Step, Removes, Tries, Attempt, Skips

Moved(from, to, flag) ==
  /\ skillFiles' = [skillFiles EXCEPT ![to] = skillFiles[from], ![from] = 0]
  /\ skillTask' = [skillTask EXCEPT !.steps = Tail(@), ![flag] = TRUE]

LEMMA BacksUpIs ==
  ASSUME SkillWorks, "sync" \notin Troubles, Head(skillTask.steps) = "backup"
  PROVE  IF Target # 0 THEN Moved("target", "backup", "backedUp") \/ (skillFiles' = skillFiles /\ Error)
         ELSE /\ skillFiles' = skillFiles
              /\ \/ skillTask.journal.action = "remove" /\ Error
                 \/ /\ skillTask.journal.action # "remove"
                    /\ skillTask' = [skillTask EXCEPT !.steps = Tail(Tail(@))]
BY MovesStep DEF MovesFiles, Step, Moves, Changes, Moved

LEMMA ReplacesIs ==
  ASSUME SkillWorks, "sync" \notin Troubles, Head(skillTask.steps) = "replace"
  PROVE  Moved("staging", "target", "replaced") \/ (skillFiles' = skillFiles /\ Error)
BY MovesStep DEF MovesFiles, Step, Moves, Changes, Moved

LEMMA RestoresIs ==
  ASSUME SkillWorks, "sync" \notin Troubles, Head(skillTask.steps) = "restore"
  PROVE  IF /\ skillTask.backedUp \/ skillTask.journal.action = "remove"
            /\ skillFiles.backup # 0 /\ Target = 0
         THEN Moved("backup", "target", "backedUp") \/ (skillFiles' = skillFiles /\ Error)
         ELSE skillFiles' = skillFiles /\ Onward
BY MovesStep DEF MovesFiles, Step, Moves, Changes, Moved, Skips

LEMMA ActionCourses ==
  ASSUME NEW a \in {"replace", "remove", "toggle"}
  PROVE  Course(a) \in Seq(StepNames) /\ Catch(a) \in Seq(StepNames)
         /\ Len(Catch(a)) >= 1
<1>1. CASE a = "replace"
  BY <1>1, ReplaceCourse, ReplaceCatch
<1>2. CASE a = "remove"
  BY <1>2, RemoveCourse, RemoveCatch
<1>3. CASE a = "toggle"
  BY <1>3, ToggleCourse, ToggleCatch
<1> QED BY <1>1, <1>2, <1>3

(* What a failure makes of an operation, and of undoing one or recovering. *)
LEMMA ErrorIsLeft ==
  ASSUME NEW way \in {"undo", "recover"}, NEW course, NEW k,
         NEW r, NEW f, NEW b, NEW x, NEW j, skillTask = Task(way, course, k, r, f, b, x, j), Error
  PROVE  SkillOver
BY DEF Task, Error

(* What a failure makes of an operation that is not being undone. *)
LEMMA ErrorIsUndone ==
  ASSUME NEW a \in {"replace", "remove", "toggle"}, NEW k \in 1 .. Len(Course(a)),
         NEW r, NEW f, NEW b, NEW x, NEW j, j.action = a,
         skillTask = Task("go", Course(a), k, r, f, b, x, j), Error
  PROVE  IF (a # "toggle" /\ Course(a)[k] \in {"drop", "finish"}) \/ (a # "replace" /\ k = 1)
         THEN SkillOver
         ELSE skillTask' = Task("undo", Catch(a), 1, f, f, b, x, j)
<1>1. /\ Course(a) \in Seq(StepNames) /\ Catch(a) \in Seq(StepNames) /\ Len(Catch(a)) >= 1
      /\ 1 \in 1 .. Len(Catch(a))
  BY ActionCourses
<1>2. Rest(Catch(a), 1) = Catch(a)
  BY <1>1, RestIs
<1>3. Rest(Course(a), k) = Course(a) <=> k = 1
  BY <1>1, RestIs
<1>4. /\ ~SkillIdle /\ skillTask.way = "go" /\ Head(skillTask.steps) = Course(a)[k]
      /\ skillTask.before = f /\ skillTask.journal = j /\ skillTask.steps = Rest(Course(a), k)
  BY <1>1, TaskIs
<1>5. Final <=> a # "toggle" /\ Course(a)[k] \in {"drop", "finish"}
  BY <1>4 DEF Final, Step
<1>6. Outside <=> a # "replace" /\ k = 1
  BY <1>3, <1>4 DEF Outside
<1>7. CASE Final \/ Outside
  <2>1. SkillOver
    BY <1>7 DEF Error
  <2> QED BY <1>5, <1>6, <1>7, <2>1
<1>8. CASE ~(Final \/ Outside)
  <2>1. skillTask' = [skillTask EXCEPT !.way = "undo", !.steps = Catch(a), !.record = f]
    BY <1>4, <1>8 DEF Error
  <2>2. skillTask' = Task("undo", Catch(a), 1, f, f, b, x, j)
    BY <1>2, <2>1 DEF Task
  <2> QED BY <1>5, <1>6, <1>8, <2>2
<1> QED BY <1>7, <1>8

(* A move of a directory sets its flag. *)
LEMMA BackedUpOn ==
  ASSUME NEW way \in {"go", "undo", "recover"}, NEW course \in Seq(StepNames), NEW k \in 1 .. Len(course),
         k < Len(course),
         NEW r, NEW f, NEW b, NEW x, NEW j, skillTask = Task(way, course, k, r, f, b, x, j),
         Moved("target", "backup", "backedUp") \/ Moved("backup", "target", "backedUp")
  PROVE  skillTask' = Task(way, course, k + 1, r, f, TRUE, x, j)
<1>1. Tail(Rest(course, k)) = Rest(course, k + 1)
  BY RestIs
<1>2. skillTask' = [skillTask EXCEPT !.steps = Tail(@), !["backedUp"] = TRUE]
  BY DEF Moved
<1> QED BY <1>1, <1>2 DEF Task

LEMMA ReplacedOn ==
  ASSUME NEW way \in {"go", "undo", "recover"}, NEW course \in Seq(StepNames), NEW k \in 1 .. Len(course),
         k < Len(course),
         NEW r, NEW f, NEW b, NEW x, NEW j, skillTask = Task(way, course, k, r, f, b, x, j),
         Moved("staging", "target", "replaced")
  PROVE  skillTask' = Task(way, course, k + 1, r, f, b, TRUE, j)
<1>1. Tail(Rest(course, k)) = Rest(course, k + 1)
  BY RestIs
<1>2. skillTask' = [skillTask EXCEPT !.steps = Tail(@), !["replaced"] = TRUE]
  BY DEF Moved
<1> QED BY <1>1, <1>2 DEF Task

(* What plans and the changes of the directories are made of. *)
LEMMA PlanIs ==
  ASSUME NEW j \in GoodPlans
  PROVE  /\ j.action \in {"replace", "remove", "toggle"}
         /\ j.prev \in CleanRecords /\ j.next \in CleanRecords
         /\ j.prev.version \in Versions /\ j.next.version \in Versions
         /\ j.prev.enabled \in BOOLEAN /\ j.next.enabled \in BOOLEAN
BY RecordIs DEF GoodPlans, Plans, Versions

(* The journal of a plan, in one of its phases. *)
LEMMA PlanPhase ==
  ASSUME NEW j \in GoodPlans, NEW x \in SkillPhases
  PROVE  /\ Phase(j, x) \in GoodPlans /\ Phase(j, x) # None /\ Phase(j, x).phase = x
         /\ Phase(j, x).action = j.action /\ Phase(j, x).prev = j.prev /\ Phase(j, x).next = j.next
<1> DEFINE q == Phase(j, x)
<1>1. j \in Plans
  BY DEF GoodPlans
<1>2. q \in Plans /\ q.phase = x /\ q.action = j.action /\ q.prev = j.prev /\ q.next = j.next
  BY <1>1 DEF Plans, Phase
<1> HIDE DEF q
<1>3. q \in GoodPlans
  BY <1>2 DEF GoodPlans
<1>4. q \in SkillJournals
  BY <1>2, RecordIs DEF Plans, SkillJournals
<1>5. q # None
  BY <1>4, NoneIsNoSkillJournal
<1> QED BY <1>2, <1>3, <1>5 DEF q

(* A plan that is read from the disk is in the phase that it says. *)
LEMMA SamePlan ==
  ASSUME NEW i \in GoodPlans, NEW x \in SkillPhases, NEW j, j = Phase(i, x)
  PROVE  /\ j \in GoodPlans /\ j.phase = x /\ Phase(j, x) = j
         /\ Lies(i, x) <=> Lies(j, x)
         /\ SwitchIs(i) <=> SwitchIs(j)
<1>1. /\ j \in GoodPlans /\ j.phase = x /\ j.action = i.action /\ j.prev = i.prev /\ j.next = i.next
  BY PlanPhase
<1>2. Phase(j, x) = j
  BY <1>1 DEF Phase, GoodPlans, Plans
<1>3. SwitchIs(i) <=> SwitchIs(j)
  BY <1>1 DEF SwitchIs
<1>4. Lies(i, x) <=> Lies(j, x)
  BY <1>1, <1>3 DEF Lies, RecordIn, ReplaceLies, RemoveLies
<1> QED BY <1>1, <1>2, <1>3, <1>4

LEMMA DirsAre ==
  ASSUME NEW t, NEW s, NEW b, Dirs(t, s, b)
  PROVE  /\ skillFiles.target = t /\ skillFiles.staging = s /\ skillFiles.backup = b /\ Target = t
BY DEF Dirs, Target

(* What the changes of the directories make of them. *)
LEMMA DirsChanged ==
  ASSUME NEW t, NEW s, NEW b, Dirs(t, s, b), NEW n
  PROVE  /\ skillFiles' = skillFiles => Dirs(t, s, b)'
         /\ skillFiles' = [skillFiles EXCEPT !.target = n] => Dirs(n, s, b)'
         /\ skillFiles' = [skillFiles EXCEPT !.staging = n] => Dirs(t, n, b)'
         /\ skillFiles' = [skillFiles EXCEPT !["staging"] = n] => Dirs(t, n, b)'
         /\ skillFiles' = [skillFiles EXCEPT !["backup"] = n] => Dirs(t, s, n)'
BY DEF Dirs

LEMMA DirsMoved ==
  ASSUME NEW t, NEW s, NEW b, Dirs(t, s, b)
  PROVE  /\ Moved("target", "backup", "backedUp") => Dirs(0, s, t)'
         /\ Moved("staging", "target", "replaced") => Dirs(s, 0, b)'
         /\ Moved("backup", "target", "backedUp") => Dirs(b, s, 0)'
BY DEF Dirs, Moved

LEMMA DirsTyped ==
  ASSUME NEW t \in Versions, NEW s \in Versions, NEW b \in Versions, Dirs(t, s, b)'
  PROVE  skillFiles' \in [target : Versions, staging : Versions, backup : Versions]
BY DEF Dirs

(* The flags of an installation or an update at some of its steps. *)
LEMMA FlagsAre ==
  ASSUME NEW j
  PROVE  LET p == j.prev.version
             Is(i) == Task("go", Course("replace"), i, j.next, j.prev, i >= 5 /\ p # 0, i >= 7, j)
             At(i, b, x) == Task("go", Course("replace"), i, j.next, j.prev, b, x, j)
         IN /\ Is(4) = At(4, FALSE, FALSE) /\ Is(6) = At(6, p # 0, FALSE)
            /\ Is(7) = At(7, p # 0, TRUE)
            /\ p # 0 => Is(5) = At(5, TRUE, FALSE)
            /\ p = 0 => Is(6) = At(6, FALSE, FALSE)
<1> DEFINE p == j.prev.version
<1>1. /\ (4 >= 5 /\ p # 0) = FALSE /\ (4 >= 7) = FALSE
      /\ (6 >= 5 /\ p # 0) = (p # 0) /\ (6 >= 7) = FALSE
      /\ (7 >= 5 /\ p # 0) = (p # 0) /\ (7 >= 7) = TRUE
      /\ (5 >= 5 /\ p # 0) = (p # 0) /\ (5 >= 7) = FALSE
  OBVIOUS
<1>2. (p # 0 => (p # 0) = TRUE) /\ (p = 0 => (p # 0) = FALSE)
  OBVIOUS
<1> QED BY <1>1, <1>2

(* An installation or an update takes its next step. *)
LEMMA ReplacingGoes ==
  ASSUME NEW j \in GoodPlans, j.action = "replace", NEW k \in 1 .. 12, Replacing(j, k),
         SkillWorks, "sync" \notin Troubles
  PROVE  /\ UNCHANGED <<skillSwitch, gatewayUp, skillsUp>>
         /\ \/ ReplacingDisk(j, k)' /\ Error
            \/ k \notin {4, 6, 12} /\ ReplacingDisk(j, k + 1)' /\ (Onward \/ Error)
            \/ k \in {4, 6} /\ \E i \in 5 .. 7 : Replacing(j, i)'
            \/ /\ k = 12 /\ skillJournal' = None /\ Onward
               /\ UNCHANGED <<skillFiles, skillRecord>>
<1> DEFINE p == j.prev.version
           n == j.next.version
           Is(i) == Task("go", Course("replace"), i, j.next, j.prev, i >= 5 /\ p # 0, i >= 7, j)
<1>1. skillTask = Is(k) /\ ReplacingDisk(j, k)
  BY DEF Replacing
<1>2. /\ Head(skillTask.steps) = Course("replace")[k] /\ skillTask.journal = j
      /\ skillTask.record = j.next
  BY <1>1, ReplaceCourse, TaskIs
<1>3. p \in Versions /\ n \in Versions /\ n # 0
  BY PlanIs DEF GoodPlans
<1>4. PICK t, s, b \in Versions :
        /\ Dirs(t, s, b)
        /\ t = IF k <= 4 THEN p ELSE IF k <= 6 THEN 0 ELSE n
        /\ s = IF 3 <= k /\ k <= 6 THEN n ELSE 0
        /\ b = IF 5 <= k /\ k <= 11 THEN p ELSE 0
  BY <1>1, <1>3, CapabilityAssumption DEF ReplacingDisk, Versions
<1>5. CASE k = 1
  <2>1. Head(skillTask.steps) = "prepared" /\ "prepared" \in SkillPhases
    BY <1>2, <1>5, ReplaceCourse DEF SkillPhases
  <2>2. /\ UNCHANGED <<skillFiles, skillRecord, skillSwitch, gatewayUp, skillsUp>>
        /\ \/ skillJournal' = Phase(j, "prepared") /\ (Onward \/ Error)
           \/ skillJournal' = skillJournal /\ Error
    BY <1>2, <2>1, SavesIs
  <2> QED BY <1>1, <1>5, <2>2 DEF ReplacingDisk, Dirs, RecordOld
<1>6. CASE k = 2
  <2>1. Head(skillTask.steps) = "stage"
    BY <1>2, <1>6, ReplaceCourse
  <2>2. UNCHANGED <<skillRecord, skillJournal, skillSwitch, gatewayUp, skillsUp>>
    BY <2>1, MovesStep
  <2>3. \/ Dirs(t, n, b)' /\ (Onward \/ Error)
        \/ Dirs(t, s, b)' /\ Error
    BY <1>2, <1>4, <2>1, StagesIs, DirsChanged
  <2> QED BY <1>1, <1>4, <1>6, <2>2, <2>3 DEF ReplacingDisk, RecordOld
<1>7. CASE k = 3
  <2>1. Head(skillTask.steps) = "staged" /\ "staged" \in SkillPhases
    BY <1>2, <1>7, ReplaceCourse DEF SkillPhases
  <2>2. /\ UNCHANGED <<skillFiles, skillRecord, skillSwitch, gatewayUp, skillsUp>>
        /\ \/ skillJournal' = Phase(j, "staged") /\ (Onward \/ Error)
           \/ skillJournal' = skillJournal /\ Error
    BY <1>2, <2>1, SavesIs
  <2> QED BY <1>1, <1>7, <2>2 DEF ReplacingDisk, Dirs, RecordOld
<1>8. CASE k = 4
  <2>1. Head(skillTask.steps) = "backup"
    BY <1>2, <1>8, ReplaceCourse
  <2>2. UNCHANGED <<skillRecord, skillJournal, skillSwitch, gatewayUp, skillsUp>>
    BY <2>1, MovesStep
  <2>3. Target = p
    BY <1>4, <1>8, DirsAre
  <2>4. IF p # 0 THEN Moved("target", "backup", "backedUp") \/ (skillFiles' = skillFiles /\ Error)
        ELSE skillFiles' = skillFiles /\ skillTask' = [skillTask EXCEPT !.steps = Tail(Tail(@))]
    <3>1. j.action # "remove"
      OBVIOUS
    <3> QED BY <1>2, <2>1, <2>3, <3>1, BacksUpIs
  <2>5. CASE p # 0 /\ Moved("target", "backup", "backedUp")
    <3>1. skillTask' = Is(5)
      <4>1. skillTask = Task("go", Course("replace"), k, j.next, j.prev, FALSE, FALSE, j)
        BY <1>1, <1>8, FlagsAre
      <4>2. skillTask' = Task("go", Course("replace"), k + 1, j.next, j.prev, TRUE, FALSE, j)
        <5>1. /\ k \in 1 .. Len(Course("replace")) /\ k < Len(Course("replace"))
              /\ Course("replace") \in Seq(StepNames)
          BY <1>8, ReplaceCourse
        <5> QED BY <2>5, <4>1, <5>1, BackedUpOn
      <4>3. k + 1 = 5
        BY <1>8
      <4> QED BY <2>5, <4>2, <4>3, FlagsAre
    <3>2. Dirs(0, n, p)'
      BY <1>4, <1>8, <2>5, DirsMoved
    <3>3. ReplacingDisk(j, 5)'
      BY <1>1, <1>8, <2>2, <3>2 DEF ReplacingDisk, RecordOld
    <3> QED BY <1>8, <2>2, <3>1, <3>3 DEF Replacing
  <2>6. CASE skillFiles' = skillFiles /\ Error
    BY <1>1, <1>8, <2>2, <2>6 DEF ReplacingDisk, Dirs, RecordOld
  <2>7. CASE p = 0
    <3>1. skillTask' = Is(6)
      <4>1. skillTask = Task("go", Course("replace"), 4, j.next, j.prev, FALSE, FALSE, j)
        BY <1>1, <1>8, FlagsAre
      <4>2. Tail(Tail(Rest(Course("replace"), 4))) = Rest(Course("replace"), 6)
        <5>1. ASSUME NEW i \in 1 .. 11
              PROVE  Tail(Rest(Course("replace"), i)) = Rest(Course("replace"), i + 1)
          <6>1. /\ i \in 1 .. Len(Course("replace")) /\ i < Len(Course("replace"))
                /\ Course("replace") \in Seq(StepNames)
            BY ReplaceCourse
          <6> QED BY <6>1, RestIs
        <5>2. /\ Tail(Rest(Course("replace"), 4)) = Rest(Course("replace"), 5)
              /\ Tail(Rest(Course("replace"), 5)) = Rest(Course("replace"), 6)
          BY <5>1
        <5> QED BY <5>2
      <4>3. skillTask' = Task("go", Course("replace"), 6, j.next, j.prev, FALSE, FALSE, j)
        BY <2>4, <2>7, <4>1, <4>2 DEF Task
      <4> QED BY <2>7, <4>3, FlagsAre
    <3>2. ReplacingDisk(j, 6)'
      BY <1>1, <1>8, <2>2, <2>4, <2>7 DEF ReplacingDisk, Dirs, RecordOld
    <3> QED BY <1>8, <2>2, <3>1, <3>2 DEF Replacing
  <2> QED BY <2>4, <2>5, <2>6, <2>7
<1>9. CASE k = 5
  <2>1. Head(skillTask.steps) = "backed-up" /\ "backed-up" \in SkillPhases
    BY <1>2, <1>9, ReplaceCourse DEF SkillPhases
  <2>2. /\ UNCHANGED <<skillFiles, skillRecord, skillSwitch, gatewayUp, skillsUp>>
        /\ \/ skillJournal' = Phase(j, "backed-up") /\ (Onward \/ Error)
           \/ skillJournal' = skillJournal /\ Error
    BY <1>2, <2>1, SavesIs
  <2> QED BY <1>1, <1>9, <2>2 DEF ReplacingDisk, Dirs, RecordOld
<1>10. CASE k = 6
  <2>1. Head(skillTask.steps) = "replace"
    BY <1>2, <1>10, ReplaceCourse
  <2>2. UNCHANGED <<skillRecord, skillJournal, skillSwitch, gatewayUp, skillsUp>>
    BY <2>1, MovesStep
  <2>3. CASE Moved("staging", "target", "replaced")
    <3>1. skillTask' = Is(7)
      <4>1. skillTask = Task("go", Course("replace"), k, j.next, j.prev, p # 0, FALSE, j)
        BY <1>1, <1>10, FlagsAre
      <4>2. skillTask' = Task("go", Course("replace"), k + 1, j.next, j.prev, p # 0, TRUE, j)
        <5>1. /\ k \in 1 .. Len(Course("replace")) /\ k < Len(Course("replace"))
              /\ Course("replace") \in Seq(StepNames)
          BY <1>10, ReplaceCourse
        <5> QED BY <2>3, <4>1, <5>1, ReplacedOn
      <4>3. k + 1 = 7
        BY <1>10
      <4> QED BY <4>2, <4>3, FlagsAre
    <3>2. Dirs(n, 0, p)'
      BY <1>4, <1>10, <2>3, DirsMoved
    <3>3. ReplacingDisk(j, 7)'
      BY <1>1, <1>10, <2>2, <3>2 DEF ReplacingDisk, RecordOld
    <3> QED BY <1>10, <2>2, <3>1, <3>3 DEF Replacing
  <2>4. CASE skillFiles' = skillFiles /\ Error
    BY <1>1, <1>10, <2>2, <2>4 DEF ReplacingDisk, Dirs, RecordOld
  <2> QED BY <2>1, <2>3, <2>4, ReplacesIs
<1>11. CASE k = 7
  <2>1. Head(skillTask.steps) = "replaced" /\ "replaced" \in SkillPhases
    BY <1>2, <1>11, ReplaceCourse DEF SkillPhases
  <2>2. /\ UNCHANGED <<skillFiles, skillRecord, skillSwitch, gatewayUp, skillsUp>>
        /\ \/ skillJournal' = Phase(j, "replaced") /\ (Onward \/ Error)
           \/ skillJournal' = skillJournal /\ Error
    BY <1>2, <2>1, SavesIs
  <2> QED BY <1>1, <1>11, <2>2 DEF ReplacingDisk, Dirs, RecordOld
<1>12. CASE k = 8
  <2>1. Head(skillTask.steps) = "record"
    BY <1>2, <1>12, ReplaceCourse
  <2>2. /\ UNCHANGED <<skillFiles, skillJournal, skillSwitch, gatewayUp, skillsUp>>
        /\ \/ skillRecord' = j.next /\ (Onward \/ Error)
           \/ skillRecord' = skillRecord /\ Error
    BY <1>2, <2>1, RecordIsWritten
  <2> QED BY <1>1, <1>12, <2>2 DEF ReplacingDisk, Dirs, RecordOld
<1>13. CASE k = 9
  <2>1. Head(skillTask.steps) = "verify"
    BY <1>2, <1>13, ReplaceCourse
  <2>2. /\ UNCHANGED <<skillDisk, gatewayUp, skillsUp>>
        /\ (Shows(j.next) /\ Onward) \/ Error
    BY <1>2, <2>1, VerifiesIs
  <2>3. UNCHANGED <<skillFiles, skillRecord, skillJournal, skillSwitch>>
    BY <2>2 DEF skillDisk
  <2>4. Shows(j.next) => skillSwitch = j.next.enabled
    BY <1>3 DEF Shows
  <2> QED BY <1>1, <1>13, <2>2, <2>3, <2>4 DEF ReplacingDisk, Dirs, RecordOld
<1>14. CASE k = 10
  <2>1. Head(skillTask.steps) = "verified" /\ "verified" \in SkillPhases
    BY <1>2, <1>14, ReplaceCourse DEF SkillPhases
  <2>2. /\ UNCHANGED <<skillFiles, skillRecord, skillSwitch, gatewayUp, skillsUp>>
        /\ \/ skillJournal' = Phase(j, "verified") /\ (Onward \/ Error)
           \/ skillJournal' = skillJournal /\ Error
    BY <1>2, <2>1, SavesIs
  <2> QED BY <1>1, <1>14, <2>2 DEF ReplacingDisk, Dirs, RecordOld
<1>15. CASE k = 11
  <2>1. Head(skillTask.steps) = "drop"
    BY <1>2, <1>15, ReplaceCourse
  <2>2. UNCHANGED <<skillRecord, skillJournal, skillSwitch, gatewayUp, skillsUp>>
    BY <2>1, MovesStep
  <2>3. \/ skillFiles' = [skillFiles EXCEPT !["backup"] = 0] /\ (Onward \/ Error)
        \/ skillFiles' = skillFiles /\ Error
    BY <2>1, RemovesIs
  <2>4. \/ Dirs(t, s, 0)' /\ (Onward \/ Error)
        \/ Dirs(t, s, b)' /\ Error
    BY <1>4, <2>3, DirsChanged
  <2> QED BY <1>1, <1>4, <1>15, <2>2, <2>4 DEF ReplacingDisk, RecordOld
<1>16. CASE k = 12
  <2>1. Head(skillTask.steps) = "finish"
    BY <1>2, <1>16, ReplaceCourse
  <2>2. /\ UNCHANGED <<skillRecord, skillSwitch, gatewayUp, skillsUp>>
        /\ \/ skillJournal' = None /\ Onward /\ skillFiles' = skillFiles
           \/ UNCHANGED <<skillJournal, skillFiles>> /\ Error
    BY <2>1, FinishesIs
  <2> QED BY <1>1, <1>16, <2>2 DEF ReplacingDisk, Dirs, RecordOld
<1> QED BY <1>5, <1>6, <1>7, <1>8, <1>9, <1>10, <1>11, <1>12, <1>13, <1>14, <1>15, <1>16

Kept(j, left) ==
  /\ skillFiles \in [target : Versions, staging : Versions, backup : Versions]
  /\ skillRecord \in CleanRecords
  /\ left => LeftBy(j) /\ skillJournal # None
  /\ ~left => skillJournal = None
  /\ DiskSound

LEMMA LeftIsThere ==
  ASSUME NEW j \in GoodPlans, LeftBy(j)'
  PROVE  skillJournal' # None /\ DiskSound'
<1>1. PICK phase \in SkillPhases : skillJournal' = Phase(j, phase)
  BY DEF LeftBy
<1> QED BY <1>1, PlanPhase DEF DiskSound

(* What an installation or an update has on the disk, from its first step to its last. *)
LEMMA ReplacingLeaves ==
  ASSUME NEW j \in GoodPlans, j.action = "replace", NEW k \in 1 .. 12,
         SwitchIs(j)', ReplacingDisk(j, k)'
  PROVE  Kept(j, k > 1)'
<1> DEFINE p == j.prev.version
           n == j.next.version
<1>1. p \in Versions /\ n \in Versions /\ n # 0 /\ 0 \in Versions
  BY PlanIs, CapabilityAssumption DEF GoodPlans, Versions
<1>2. j.prev \in CleanRecords /\ j.next \in CleanRecords /\ NoRecord \in CleanRecords
  BY PlanIs, NoRecordIsClean
<1>3. PICK t, s, b \in Versions :
        /\ Dirs(t, s, b)'
        /\ t = IF k <= 4 THEN p ELSE IF k <= 6 THEN 0 ELSE n
        /\ s = IF 3 <= k /\ k <= 6 THEN n ELSE 0
        /\ b = IF 5 <= k /\ k <= 11 THEN p ELSE 0
  BY <1>1 DEF ReplacingDisk
<1>4. /\ skillFiles' \in [target : Versions, staging : Versions, backup : Versions]
      /\ skillRecord' \in CleanRecords /\ RecordIn(j)'
  BY <1>2, <1>3, DirsTyped DEF ReplacingDisk, RecordOld, RecordIn
<1>5. ASSUME k > 1 PROVE LeftBy(j)'
  <2>1. PICK phase \in {"prepared", "staged", "backed-up", "replaced", "verified"} :
          /\ skillJournal' = Phase(j, phase)
          /\ \/ k \in {2, 3} /\ phase = "prepared"
             \/ k \in {4, 5, 6, 7} /\ phase = "staged"
             \/ k \in {6, 7} /\ phase = "backed-up"
             \/ k \in {8, 9, 10} /\ phase = "replaced"
             \/ k \in {11, 12} /\ phase = "verified"
    BY <1>5 DEF ReplacingDisk
  <2>2. ReplaceLies(j, phase)'
    <3>1. CASE k \in {2, 3}
      BY <1>3, <2>1, <3>1 DEF ReplaceLies
    <3>2. CASE k \in {4, 5, 6, 7}
      BY <1>3, <2>1, <3>2 DEF ReplaceLies
    <3>3. CASE k \in {8, 9, 10}
      BY <1>3, <2>1, <3>3 DEF ReplaceLies
    <3>4. CASE k \in {11, 12}
      <4>1. skillRecord' = j.next /\ skillSwitch' = j.next.enabled
        BY <3>4 DEF ReplacingDisk
      <4> QED BY <1>3, <2>1, <3>4, <4>1 DEF ReplaceLies
    <3> QED BY <1>5, <3>1, <3>2, <3>3, <3>4
  <2>3. phase \in SkillPhases /\ Lies(j, phase)'
    BY <1>4, <2>1, <2>2 DEF Lies, SkillPhases
  <2> QED BY <2>1, <2>3 DEF LeftBy
<1>6. CASE k = 1
  BY <1>4, <1>6 DEF ReplacingDisk, Kept, DiskSound
<1>7. CASE k > 1
  <2>1. skillJournal' # None /\ DiskSound'
    BY <1>5, <1>7, LeftIsThere
  <2> QED BY <1>4, <1>5, <1>7, <2>1 DEF Kept
<1> QED BY <1>6, <1>7

(* What a failure finds on the disk. *)
LEMMA ReplacingUndone ==
  ASSUME NEW j \in GoodPlans, j.action = "replace", NEW k \in 1 .. 11,
         SwitchIs(j)', ReplacingDisk(j, k)'
  PROVE  ReplacedDisk(j, 1, k >= 5 /\ j.prev.version # 0, k >= 7)'
<1> DEFINE p == j.prev.version
           n == j.next.version
           b == k >= 5 /\ p # 0
           x == k >= 7
<1>1. (b => p # 0) /\ (x /\ p # 0 => b) /\ b \in BOOLEAN /\ x \in BOOLEAN
  OBVIOUS
<1>2. \E s \in {0, n} : Dirs(IF x THEN n ELSE IF b THEN 0 ELSE p, s, IF b THEN p ELSE 0)'
  BY DEF ReplacingDisk
<1>3. \/ skillJournal' = None /\ Dirs(p, 0, 0)' /\ RecordOld(j)'
      \/ LeftBy(j)'
  <2>1. CASE k = 1
    BY <2>1 DEF ReplacingDisk
  <2>2. CASE k > 1
    BY <2>2, ReplacingLeaves DEF Kept
  <2> QED BY <2>1, <2>2
<1>4. RecordIn(j)'
  BY DEF ReplacingDisk, RecordOld, RecordIn
<1> HIDE DEF b, x
<1>5. ReplacedDisk(j, 1, b, x)'
  BY <1>1, <1>2, <1>3, <1>4 DEF ReplacedDisk
<1> QED BY <1>5 DEF b, x

Steady == UNCHANGED <<gatewayUp, skillsUp>>

(* An installation or an update keeps the invariant. *)
LEMMA ReplacingKeeps ==
  ASSUME SkillsSound, NEW j \in GoodPlans, j.action = "replace", SwitchIs(j), NEW k \in 1 .. 12,
         Replacing(j, k), SkillWorks, "sync" \notin Troubles
  PROVE  SkillsSound'
<1> DEFINE p == j.prev.version
           Is(i) == Task("go", Course("replace"), i, j.next, j.prev, i >= 5 /\ p # 0, i >= 7, j)
           b == k >= 5 /\ p # 0
           x == k >= 7
<1>1. /\ UNCHANGED <<skillSwitch, gatewayUp, skillsUp>>
      /\ \/ ReplacingDisk(j, k)' /\ Error
         \/ k \notin {4, 6, 12} /\ ReplacingDisk(j, k + 1)' /\ (Onward \/ Error)
         \/ k \in {4, 6} /\ \E i \in 5 .. 7 : Replacing(j, i)'
         \/ /\ k = 12 /\ skillJournal' = None /\ Onward
            /\ UNCHANGED <<skillFiles, skillRecord>>
  BY ReplacingGoes
<1>2. SwitchIs(j)' /\ skillSwitch' \in BOOLEAN /\ gatewayUp' \in BOOLEAN /\ skillsUp' \in BOOLEAN
  BY <1>1 DEF SkillsSound, SkillTyped, SwitchIs
<1>3. skillTask = Task("go", Course("replace"), k, j.next, j.prev, b, x, j)
  BY DEF Replacing
<1>4. /\ b \in BOOLEAN /\ x \in BOOLEAN /\ k \in 1 .. Len(Course("replace"))
      /\ Course("replace") \in Seq(StepNames)
      /\ k = 12 <=> k = Len(Course("replace"))
      /\ "replace" \in {"replace", "remove", "toggle"} /\ "go" \in {"go", "undo", "recover"}
  <2>1. Course("replace") \in Seq(StepNames) /\ Len(Course("replace")) = 12
    BY ReplaceCourse
  <2>2. b \in BOOLEAN /\ x \in BOOLEAN
    OBVIOUS
  <2> HIDE DEF b, x
  <2> QED BY <2>1, <2>2
<1>5. Error => IF k \in {11, 12} THEN SkillOver
               ELSE skillTask' = Task("undo", Catch("replace"), 1, j.prev, j.prev, b, x, j)
  <2>1. Course("replace")[k] \in {"drop", "finish"} <=> k \in {11, 12}
    BY ReplaceCourse
  <2> HIDE DEF b, x
  <2> QED BY <1>3, <1>4, <2>1, ErrorIsUndone
<1>6. Onward => IF k = 12 THEN SkillOver
                ELSE skillTask' = Task("go", Course("replace"), k + 1, j.next, j.prev, b, x, j)
  <2> HIDE DEF b, x
  <2> QED BY <1>3, <1>4, TaskIs
<1>7. ASSUME NEW i \in 1 .. 12, ReplacingDisk(j, i)', i > 1 \/ k < 11, k < 11 => i <= 11 /\ (i >= 5 <=> k >= 5) /\ (i >= 7 <=> k >= 7), Error
      PROVE  SkillsSound'
  <2>1. Kept(j, i > 1)'
    BY <1>2, <1>7, ReplacingLeaves
  <2>2. CASE k \in {11, 12}
    <3>1. SkillOver
      BY <1>5, <1>7, <2>2
    <3>2. SkillIdle' /\ skillJournal' # None
      BY <1>7, <2>1, <2>2, <3>1 DEF Kept, SkillOver, SkillIdle
    <3> QED BY <1>2, <2>1, <3>2 DEF SkillsSound, SkillTyped, FilesMatchRecord, SkillTaskSound, Kept
  <2>3. CASE k < 11
    <3>1. ReplacedDisk(j, 1, i >= 5 /\ p # 0, i >= 7)'
      BY <1>2, <1>7, <2>3, ReplacingUndone
    <3>2. (i >= 5 /\ p # 0) = b /\ (i >= 7) = x
      BY <1>7, <2>3
    <3> HIDE DEF b, x
    <3>3. ReplacedDisk(j, 1, b, x)'
      BY <3>1, <3>2
    <3>4. skillTask' = Task("undo", Catch("replace"), 1, j.prev, j.prev, b, x, j)
      BY <1>5, <1>7, <2>3
    <3>5. PuttingBack(j, 1)'
      BY <1>4, <3>3, <3>4 DEF PuttingBack
    <3>6. SkillTaskSound'
      BY <1>2, <3>5 DEF SkillTaskSound
    <3>7. ~SkillIdle'
      BY <3>4 DEF SkillIdle, NoSkillTask, Task
    <3> QED BY <1>2, <2>1, <3>6, <3>7 DEF SkillsSound, SkillTyped, FilesMatchRecord, Kept
  <2> QED BY <2>2, <2>3
<1>8. ASSUME NEW i \in 1 .. 12, Replacing(j, i)' PROVE SkillsSound'
  <2>1. Kept(j, i > 1)'
    BY <1>2, <1>8, ReplacingLeaves DEF Replacing
  <2>2. ~SkillIdle'
    BY <1>8 DEF Replacing, SkillIdle, NoSkillTask, Task
  <2>3. SkillTaskSound'
    BY <1>2, <1>8 DEF SkillTaskSound
  <2> QED BY <1>2, <2>1, <2>2, <2>3 DEF SkillsSound, SkillTyped, FilesMatchRecord, Kept
<1>9. CASE ReplacingDisk(j, k)' /\ Error
  BY <1>7, <1>9
<1>10. CASE k \notin {4, 6, 12} /\ ReplacingDisk(j, k + 1)' /\ (Onward \/ Error)
  <2>1. /\ k + 1 \in 1 .. 12 /\ k + 1 > 1 /\ (k + 1 >= 5 <=> k >= 5) /\ (k + 1 >= 7 <=> k >= 7)
        /\ k < 11 => k + 1 <= 11
    BY <1>10
  <2>2. CASE Error
    BY <1>7, <1>10, <2>1, <2>2
  <2>3. CASE Onward
    <3>1. skillTask' = Task("go", Course("replace"), k + 1, j.next, j.prev, b, x, j)
      BY <1>6, <1>10, <2>3
    <3>2. (k + 1 >= 5 /\ p # 0) = b /\ (k + 1 >= 7) = x
      BY <2>1
    <3>3. Replacing(j, k + 1)'
      BY <1>10, <3>1, <3>2 DEF Replacing
    <3> QED BY <1>8, <2>1, <3>3
  <2> QED BY <1>10, <2>2, <2>3
<1>11. CASE k \in {4, 6} /\ \E i \in 5 .. 7 : Replacing(j, i)'
  BY <1>8, <1>11
<1>12. CASE /\ k = 12 /\ skillJournal' = None /\ Onward
            /\ UNCHANGED <<skillFiles, skillRecord>>
  <2>1. SkillOver
    BY <1>6, <1>12
  <2>2. Dirs(j.next.version, 0, 0)' /\ skillRecord' = j.next /\ skillSwitch' = j.next.enabled
    BY <1>1, <1>12 DEF Replacing, ReplacingDisk, Dirs
  <2>3. SkillIdle' /\ SkillTaskSound' /\ DiskSound'
    BY <1>12, <2>1 DEF SkillOver, SkillIdle, SkillTaskSound, DiskSound
  <2>4. FilesMatchRecord'
    BY <2>2 DEF FilesMatchRecord, Dirs, Target
  <2> QED BY <1>1, <1>2, <1>12, <2>3, <2>4 DEF SkillsSound, SkillTyped
<1> QED BY <1>1, <1>9, <1>10, <1>11, <1>12

(* An installation or an update is undone by another step. *)
LEMMA PutsBack ==
  ASSUME NEW j \in GoodPlans, j.action = "replace", NEW k \in 1 .. 7, NEW b \in BOOLEAN, NEW x \in BOOLEAN,
         skillTask = Task("undo", Catch("replace"), k, j.prev, j.prev, b, x, j),
         ReplacedDisk(j, k, b, x), SwitchIs(j), SkillWorks, "sync" \notin Troubles
  PROVE  /\ UNCHANGED <<skillSwitch, gatewayUp, skillsUp>>
         /\ \/ ReplacedDisk(j, k, b, x)' /\ SkillOver
            \/ /\ k < 7 /\ ReplacedDisk(j, k + 1, b, x)'
               /\ \/ SkillOver
                  \/ skillTask' = Task("undo", Catch("replace"), k + 1, j.prev, j.prev, b, x, j)
            \/ /\ k = 7 /\ skillJournal' = None /\ SkillOver
               /\ UNCHANGED <<skillFiles, skillRecord>>
<1> DEFINE p == j.prev.version
           n == j.next.version
           Is(i) == Task("undo", Catch("replace"), i, j.prev, j.prev, b, x, j)
<1>1. /\ k \in 1 .. Len(Catch("replace")) /\ Catch("replace") \in Seq(StepNames)
      /\ "undo" \in {"undo", "recover"} /\ "undo" \in {"go", "undo", "recover"}
      /\ Len(Catch("replace")) = 7
  BY ReplaceCatch
<1>2. /\ Head(skillTask.steps) = Catch("replace")[k] /\ skillTask.journal = j
      /\ skillTask.record = j.prev /\ skillTask.backedUp = b /\ skillTask.replaced = x
      /\ Onward => IF k = 7 THEN SkillOver ELSE skillTask' = Is(k + 1)
  <2>1. /\ Head(skillTask.steps) = Catch("replace")[k] /\ skillTask.journal = j
        /\ skillTask.record = j.prev /\ skillTask.backedUp = b /\ skillTask.replaced = x
        /\ Onward => IF k = Len(Catch("replace")) THEN SkillOver ELSE skillTask' = Is(k + 1)
    BY <1>1, TaskIs
  <2> QED BY <1>1, <2>1
<1>3. Error => SkillOver
  BY <1>1, ErrorIsLeft
<1>4. PICK s \in {0, n} :
        /\ k >= 6 => s = 0
        /\ Dirs(IF k >= 4 THEN p ELSE IF x /\ k <= 2 THEN n ELSE IF b THEN 0 ELSE p,
                s, IF b /\ k <= 3 THEN p ELSE 0)
  BY DEF ReplacedDisk
<1>5. p \in Versions /\ n \in Versions /\ n # 0 /\ (b => p # 0) /\ (x /\ p # 0 => b) /\ 0 \in Versions
  BY PlanIs, CapabilityAssumption DEF GoodPlans, ReplacedDisk, Versions
<1>6. CASE k = 1
  <2>1. Head(skillTask.steps) = "rolling-back" /\ "rolling-back" \in SkillPhases
    BY <1>2, <1>6, ReplaceCatch DEF SkillPhases
  <2>2. /\ UNCHANGED <<skillFiles, skillRecord, skillSwitch, gatewayUp, skillsUp>>
        /\ \/ skillJournal' = Phase(j, "rolling-back") /\ (Onward \/ Error)
           \/ skillJournal' = skillJournal /\ Error
    BY <1>2, <2>1, SavesIs
  <2>3. RecordIn(j)'
    BY <1>6, <2>2 DEF ReplacedDisk, RecordIn
  <2>4. CASE skillJournal' = Phase(j, "rolling-back") /\ (Onward \/ Error)
    <3>1. k < 7 /\ k # 7 /\ ReplacedDisk(j, k + 1, b, x)'
      BY <1>4, <1>5, <1>6, <2>2, <2>3, <2>4 DEF ReplacedDisk, Dirs
    <3> QED BY <1>2, <1>3, <1>6, <2>2, <2>4, <3>1
  <2>5. CASE skillJournal' = skillJournal /\ Error
    <3>1. ReplacedDisk(j, 1, b, x)'
      <4>1. LeftBy(j) => LeftBy(j)'
        BY <2>2, <2>5 DEF LeftBy, Lies, RecordIn, SwitchIs, ReplaceLies, RemoveLies, Dirs
      <4> QED BY <1>4, <1>5, <1>6, <2>2, <2>3, <2>5, <4>1 DEF ReplacedDisk, Dirs, RecordOld
    <3> QED BY <1>3, <1>6, <2>2, <2>5, <3>1
  <2> QED BY <2>2, <2>4, <2>5
<1>7. CASE k = 2
  <2>1. Head(skillTask.steps) = "withdraw"
    BY <1>2, <1>7, ReplaceCatch
  <2>2. UNCHANGED <<skillRecord, skillJournal, skillSwitch, gatewayUp, skillsUp>>
    BY <2>1, MovesStep
  <2>3. IF x THEN \/ skillFiles' = [skillFiles EXCEPT !.target = 0] /\ (Onward \/ Error)
                  \/ skillFiles' = skillFiles /\ Error
        ELSE skillFiles' = skillFiles /\ Onward
    BY <1>2, <2>1, WithdrawsIs
  <2>4. IF x THEN \/ Dirs(0, s, IF b THEN p ELSE 0)' /\ (Onward \/ Error)
                  \/ skillFiles' = skillFiles /\ Error
        ELSE skillFiles' = skillFiles /\ Onward
    BY <1>4, <1>7, <2>3, DirsChanged
  <2>5. CASE x /\ Dirs(0, s, IF b THEN p ELSE 0)' /\ (Onward \/ Error)
    <3>1. k < 7 /\ k # 7 /\ ReplacedDisk(j, k + 1, b, x)'
      BY <1>4, <1>5, <1>7, <2>2, <2>5 DEF ReplacedDisk, RecordIn
    <3> QED BY <1>2, <1>3, <1>7, <2>2, <2>5, <3>1
  <2>6. CASE skillFiles' = skillFiles /\ Error
    <3>1. ReplacedDisk(j, k, b, x)'
      BY <1>4, <1>5, <1>7, <2>2, <2>6 DEF ReplacedDisk, RecordIn, Dirs
    <3> QED BY <1>3, <1>7, <2>2, <2>6, <3>1
  <2>7. CASE ~x /\ skillFiles' = skillFiles /\ Onward
    <3>1. k < 7 /\ k # 7 /\ ReplacedDisk(j, k + 1, b, x)'
      BY <1>4, <1>5, <1>7, <2>2, <2>7 DEF ReplacedDisk, RecordIn, Dirs
    <3> QED BY <1>2, <1>7, <2>2, <2>7, <3>1
  <2> QED BY <2>4, <2>5, <2>6, <2>7
<1>8. CASE k = 3
  <2>1. Head(skillTask.steps) = "restore"
    BY <1>2, <1>8, ReplaceCatch
  <2>2. UNCHANGED <<skillRecord, skillJournal, skillSwitch, gatewayUp, skillsUp>>
    BY <2>1, MovesStep
  <2>3. Dirs(IF b THEN 0 ELSE p, s, IF b THEN p ELSE 0)
    BY <1>4, <1>8
  <2>4. (skillTask.backedUp \/ skillTask.journal.action = "remove") /\ skillFiles.backup # 0 /\ Target = 0 <=> b
    BY <1>2, <1>5, <2>3, DirsAre
  <2>5. IF b THEN Moved("backup", "target", "backedUp") \/ (skillFiles' = skillFiles /\ Error)
        ELSE skillFiles' = skillFiles /\ Onward
    BY <2>1, <2>4, RestoresIs
  <2>6. CASE b /\ Moved("backup", "target", "backedUp")
    <3>1. Dirs(p, s, 0)'
      BY <2>3, <2>6, DirsMoved
    <3>2. k < 7 /\ k # 7 /\ ReplacedDisk(j, k + 1, b, x)'
      BY <1>4, <1>5, <1>8, <2>2, <3>1 DEF ReplacedDisk, RecordIn
    <3>3. skillTask' = Task("undo", Catch("replace"), k + 1, j.prev, j.prev, TRUE, x, j)
      <4>1. k < Len(Catch("replace"))
        BY <1>8, ReplaceCatch
      <4> QED BY <1>1, <2>6, <4>1, BackedUpOn, Zenon
    <3>4. skillTask' = Is(k + 1)
      <4>1. b = TRUE
        BY <2>6
      <4> QED BY <3>3, <4>1
    <3> QED BY <2>2, <3>2, <3>4
  <2>7. CASE skillFiles' = skillFiles /\ Error
    <3>1. ReplacedDisk(j, k, b, x)'
      BY <1>4, <1>5, <1>8, <2>2, <2>7 DEF ReplacedDisk, RecordIn, Dirs
    <3> QED BY <1>3, <1>8, <2>2, <2>7, <3>1
  <2>8. CASE ~b /\ skillFiles' = skillFiles /\ Onward
    <3>1. k < 7 /\ k # 7 /\ ReplacedDisk(j, k + 1, b, x)'
      BY <1>4, <1>5, <1>8, <2>2, <2>8 DEF ReplacedDisk, RecordIn, Dirs
    <3> QED BY <1>2, <1>8, <2>2, <2>8, <3>1
  <2> QED BY <2>5, <2>6, <2>7, <2>8
<1>9. CASE k = 4
  <2>1. Head(skillTask.steps) = "record"
    BY <1>2, <1>9, ReplaceCatch
  <2>2. /\ UNCHANGED <<skillFiles, skillJournal, skillSwitch, gatewayUp, skillsUp>>
        /\ \/ skillRecord' = j.prev /\ (Onward \/ Error)
           \/ skillRecord' = skillRecord /\ Error
    BY <1>2, <2>1, RecordIsWritten
  <2>3. CASE skillRecord' = j.prev /\ (Onward \/ Error)
    <3>1. k < 7 /\ k # 7 /\ ReplacedDisk(j, k + 1, b, x)'
      BY <1>4, <1>5, <1>9, <2>2, <2>3 DEF ReplacedDisk, Dirs
    <3> QED BY <1>2, <1>3, <1>9, <2>2, <2>3, <3>1
  <2>4. CASE skillRecord' = skillRecord /\ Error
    <3>1. ReplacedDisk(j, k, b, x)'
      BY <1>4, <1>5, <1>9, <2>2, <2>4 DEF ReplacedDisk, RecordIn, Dirs
    <3> QED BY <1>3, <1>9, <2>2, <2>4, <3>1
  <2> QED BY <2>2, <2>3, <2>4
<1>10. CASE k \in {5, 6}
  <2> DEFINE which == IF k = 5 THEN "staging" ELSE "backup"
  <2>1. /\ which \in {"staging", "backup"}
        /\ Head(skillTask.steps) = IF which = "staging" THEN "unstage" ELSE "drop"
        /\ Head(skillTask.steps) \in {"unstage", "drop"}
    BY <1>2, <1>10, ReplaceCatch
  <2>2. UNCHANGED <<skillRecord, skillJournal, skillSwitch, gatewayUp, skillsUp>>
    BY <2>1, MovesStep
  <2>3. \/ skillFiles' = [skillFiles EXCEPT ![which] = 0] /\ (Onward \/ Error)
        \/ skillFiles' = skillFiles /\ Error
    <3> HIDE DEF which
    <3> QED BY <2>1, RemovesIs
  <2>4. \/ Dirs(p, 0, 0)' /\ (Onward \/ Error)
        \/ skillFiles' = skillFiles /\ Error
    <3>1. Dirs(p, s, 0) /\ (k = 6 => s = 0)
      BY <1>4, <1>10
    <3>2. CASE k = 5
      BY <2>3, <3>1, <3>2, DirsChanged
    <3>3. CASE k = 6
      BY <2>3, <3>1, <3>3, DirsChanged
    <3> QED BY <1>10, <3>2, <3>3
  <2>5. CASE Dirs(p, 0, 0)' /\ (Onward \/ Error)
    <3>1. ReplacedDisk(j, k + 1, b, x)'
      BY <1>4, <1>5, <1>10, <2>2, <2>5 DEF ReplacedDisk
    <3> QED BY <1>2, <1>3, <1>10, <2>2, <2>5, <3>1
  <2>6. CASE skillFiles' = skillFiles /\ Error
    <3>1. ReplacedDisk(j, k, b, x)'
      BY <1>4, <1>5, <1>10, <2>2, <2>6 DEF ReplacedDisk, Dirs
    <3> QED BY <1>3, <1>10, <2>2, <2>6, <3>1
  <2> QED BY <2>4, <2>5, <2>6
<1>11. CASE k = 7
  <2>1. Head(skillTask.steps) = "finish"
    BY <1>2, <1>11, ReplaceCatch
  <2>2. /\ UNCHANGED <<skillRecord, skillSwitch, gatewayUp, skillsUp>>
        /\ \/ skillJournal' = None /\ Onward /\ skillFiles' = skillFiles
           \/ UNCHANGED <<skillJournal, skillFiles>> /\ Error
    BY <2>1, FinishesIs
  <2>3. CASE skillJournal' = None /\ Onward /\ skillFiles' = skillFiles
    BY <1>2, <1>11, <2>2, <2>3
  <2>4. CASE UNCHANGED <<skillJournal, skillFiles>> /\ Error
    <3>1. ReplacedDisk(j, 7, b, x)'
      BY <1>4, <1>5, <1>11, <2>2, <2>4 DEF ReplacedDisk, Dirs
    <3> QED BY <1>3, <1>11, <2>2, <2>4, <3>1
  <2> QED BY <2>2, <2>3, <2>4
<1> QED BY <1>6, <1>7, <1>8, <1>9, <1>10, <1>11

(* An operation that is over, and one that goes on. *)
LEMMA LeftOver ==
  ASSUME SkillTyped', DiskSound', SkillOver, skillJournal' # None \/ FilesMatchRecord'
  PROVE  SkillsSound'
BY DEF SkillsSound, FilesMatchRecord, SkillTaskSound, SkillOver, SkillIdle

LEMMA GoesOn ==
  ASSUME SkillTyped', DiskSound', SkillTaskSound', NEW way \in {"go", "undo", "recover"},
         NEW course, NEW k, NEW r, NEW f, NEW b, NEW x, NEW j,
         skillTask' = Task(way, course, k, r, f, b, x, j)
  PROVE  SkillsSound'
<1>1. ~SkillIdle'
  BY DEF SkillIdle, NoSkillTask, Task
<1> QED BY <1>1 DEF SkillsSound, FilesMatchRecord

(* Nothing was begun that would last, and nothing is left of it. *)
LEMMA UndoneMatches ==
  ASSUME NEW j \in GoodPlans, SwitchIs(j)', j.action = "toggle" => skillSwitch' = j.prev.enabled,
         Dirs(j.prev.version, 0, 0)', RecordOld(j)'
  PROVE  FilesMatchRecord'
BY DEF FilesMatchRecord, SwitchIs, RecordOld, NoRecord, Dirs, Target

LEMMA ReplacedLeaves ==
  ASSUME NEW j \in GoodPlans, j.action = "replace", NEW k \in 1 .. 7, NEW b \in BOOLEAN, NEW x \in BOOLEAN,
         SwitchIs(j)', ReplacedDisk(j, k, b, x)'
  PROVE  /\ skillFiles' \in [target : Versions, staging : Versions, backup : Versions]
         /\ skillRecord' \in CleanRecords
         /\ DiskSound'
         /\ skillJournal' # None \/ FilesMatchRecord'
<1> DEFINE p == j.prev.version
           n == j.next.version
<1>1. p \in Versions /\ n \in Versions /\ n # 0 /\ 0 \in Versions
  BY PlanIs, CapabilityAssumption DEF GoodPlans, Versions
<1>2. j.prev \in CleanRecords /\ j.next \in CleanRecords /\ NoRecord \in CleanRecords
  BY PlanIs, NoRecordIsClean
<1>3. PICK s \in {0, n} :
        /\ k >= 6 => s = 0
        /\ Dirs(IF k >= 4 THEN p ELSE IF x /\ k <= 2 THEN n ELSE IF b THEN 0 ELSE p,
                s, IF b /\ k <= 3 THEN p ELSE 0)'
  BY DEF ReplacedDisk
<1>4. PICK t \in {0, p, n}, a \in {0, p} :
        /\ Dirs(t, s, a)'
        /\ t = IF k >= 4 THEN p ELSE IF x /\ k <= 2 THEN n ELSE IF b THEN 0 ELSE p
        /\ a = IF b /\ k <= 3 THEN p ELSE 0
  BY <1>3
<1>5. skillFiles' \in [target : Versions, staging : Versions, backup : Versions]
  BY <1>1, <1>4, DirsTyped
<1>6. RecordIn(j)' /\ skillRecord' \in CleanRecords
  BY <1>2 DEF ReplacedDisk, RecordIn
<1>7. CASE k = 1 /\ skillJournal' = None /\ Dirs(p, 0, 0)' /\ RecordOld(j)'
  BY <1>5, <1>6, <1>7, UndoneMatches DEF DiskSound
<1>8. CASE k = 1 /\ LeftBy(j)'
  BY <1>5, <1>6, <1>8, LeftIsThere
<1>9. CASE k > 1 /\ skillJournal' = Phase(j, "rolling-back")
  <2>1. Dirs(t, s, a)' /\ ((t = p /\ a = 0) \/ (t = 0 /\ a = p) \/ (t = n /\ a = p))
    <3>1. (b => p # 0) /\ (x /\ p # 0 => b)
      BY DEF ReplacedDisk
    <3>2. CASE b
      BY <1>4, <3>2
    <3>3. CASE ~b
      BY <1>4, <3>1, <3>3
    <3> QED BY <3>2, <3>3
  <2>2. ReplaceLies(j, "rolling-back")'
    BY <2>1 DEF ReplaceLies
  <2>3. "rolling-back" \in SkillPhases /\ Lies(j, "rolling-back")'
    BY <1>6, <2>2 DEF Lies, SkillPhases
  <2>4. LeftBy(j)'
    BY <1>9, <2>3 DEF LeftBy
  <2> QED BY <1>5, <1>6, <2>4, LeftIsThere
<1> QED BY <1>7, <1>8, <1>9 DEF ReplacedDisk

(* Undoing an installation or an update keeps the invariant. *)
LEMMA PuttingBackKeeps ==
  ASSUME SkillsSound, NEW j \in GoodPlans, j.action = "replace", SwitchIs(j), NEW k \in 1 .. 7,
         PuttingBack(j, k), SkillWorks, "sync" \notin Troubles
  PROVE  SkillsSound'
<1>1. PICK b, x \in BOOLEAN :
        /\ skillTask = Task("undo", Catch("replace"), k, j.prev, j.prev, b, x, j)
        /\ ReplacedDisk(j, k, b, x)
  BY DEF PuttingBack
<1>2. /\ UNCHANGED <<skillSwitch, gatewayUp, skillsUp>>
      /\ \/ ReplacedDisk(j, k, b, x)' /\ SkillOver
         \/ /\ k < 7 /\ ReplacedDisk(j, k + 1, b, x)'
            /\ \/ SkillOver
               \/ skillTask' = Task("undo", Catch("replace"), k + 1, j.prev, j.prev, b, x, j)
         \/ /\ k = 7 /\ skillJournal' = None /\ SkillOver
            /\ UNCHANGED <<skillFiles, skillRecord>>
  BY <1>1, PutsBack
<1>3. SwitchIs(j)' /\ skillSwitch' \in BOOLEAN /\ gatewayUp' \in BOOLEAN /\ skillsUp' \in BOOLEAN
  BY <1>2 DEF SkillsSound, SkillTyped, SwitchIs
<1>4. CASE ReplacedDisk(j, k, b, x)' /\ SkillOver
  BY <1>3, <1>4, ReplacedLeaves, LeftOver DEF SkillTyped
<1>5. CASE k < 7 /\ ReplacedDisk(j, k + 1, b, x)'
  <2>1. k + 1 \in 1 .. 7
    BY <1>5
  <2>2. SkillTyped' /\ DiskSound' /\ (skillJournal' # None \/ FilesMatchRecord')
    BY <1>3, <1>5, <2>1, ReplacedLeaves DEF SkillTyped
  <2>3. CASE SkillOver
    BY <2>2, <2>3, LeftOver
  <2>4. CASE skillTask' = Task("undo", Catch("replace"), k + 1, j.prev, j.prev, b, x, j)
    <3>1. PuttingBack(j, k + 1)'
      BY <1>5, <2>4 DEF PuttingBack
    <3>2. SkillTaskSound'
      BY <1>3, <2>1, <3>1 DEF SkillTaskSound
    <3> QED BY <2>2, <2>4, <3>2, GoesOn
  <2> QED BY <1>2, <1>5, <2>3, <2>4 DEF ReplacedDisk
<1>6. CASE /\ k = 7 /\ skillJournal' = None /\ SkillOver
           /\ UNCHANGED <<skillFiles, skillRecord>>
  <2>1. Dirs(j.prev.version, 0, 0) /\ skillRecord = j.prev
    BY <1>1, <1>6 DEF ReplacedDisk
  <2>2. Dirs(j.prev.version, 0, 0)' /\ RecordOld(j)'
    BY <1>6, <2>1 DEF Dirs, RecordOld
  <2>3. SkillTyped' /\ DiskSound'
    BY <1>3, <1>6 DEF SkillsSound, SkillTyped, DiskSound
  <2> QED BY <1>3, <1>6, <2>2, <2>3, UndoneMatches, LeftOver
<1> QED BY <1>2, <1>4, <1>5, <1>6

(* What follows from where a task stands. *)
LEMMA StandsIs ==
  ASSUME NEW way \in {"go", "undo", "recover"}, NEW course \in Seq(StepNames), NEW k \in 1 .. Len(course),
         NEW r, NEW f, NEW j, Stands(way, course, k, r, f, j)
  PROVE  /\ Head(skillTask.steps) = course[k] /\ skillTask.record = r /\ skillTask.journal = j
         /\ Onward => IF k = Len(course) THEN SkillOver ELSE Stands(way, course, k + 1, r, f, j)'
         /\ k < Len(course) /\ (Moved("target", "backup", "backedUp") \/ Moved("backup", "target", "backedUp"))
              => Stands(way, course, k + 1, r, f, j)'
         /\ way # "go" /\ Error => SkillOver
<1>1. PICK b, x \in BOOLEAN : skillTask = Task(way, course, k, r, f, b, x, j)
  BY DEF Stands
<1>2. /\ Head(skillTask.steps) = course[k] /\ skillTask.record = r /\ skillTask.journal = j
      /\ Onward => IF k = Len(course) THEN SkillOver
                   ELSE skillTask' = Task(way, course, k + 1, r, f, b, x, j)
  BY <1>1, TaskIs
<1>3. ASSUME k < Len(course), Moved("target", "backup", "backedUp") \/ Moved("backup", "target", "backedUp")
      PROVE  Stands(way, course, k + 1, r, f, j)'
  <2>1. skillTask' = Task(way, course, k + 1, r, f, TRUE, x, j)
    <3>1. Tail(Rest(course, k)) = Rest(course, k + 1)
      BY <1>3, RestIs
    <3>2. skillTask' = [skillTask EXCEPT !.steps = Tail(@), !["backedUp"] = TRUE]
      BY <1>3 DEF Moved
    <3> QED BY <1>1, <3>1, <3>2 DEF Task
  <2>2. \E b1, x1 \in BOOLEAN : skillTask' = Task(way, course, k + 1, r, f, b1, x1, j)
    <3>1. TRUE \in BOOLEAN /\ x \in BOOLEAN
      OBVIOUS
    <3> QED BY <2>1, <3>1, Zenon
  <2> QED BY <2>2 DEF Stands
<1>4. Onward => IF k = Len(course) THEN SkillOver ELSE Stands(way, course, k + 1, r, f, j)'
  BY <1>2 DEF Stands
<1>5. way # "go" /\ Error => SkillOver
  BY <1>1, ErrorIsLeft
<1> QED BY <1>2, <1>3, <1>4, <1>5

LEMMA StandsUndone ==
  ASSUME NEW a \in {"replace", "remove", "toggle"}, NEW k \in 1 .. Len(Course(a)),
         NEW r, NEW f, NEW j, j.action = a, Stands("go", Course(a), k, r, f, j), Error
  PROVE  IF (a # "toggle" /\ Course(a)[k] \in {"drop", "finish"}) \/ (a # "replace" /\ k = 1)
         THEN SkillOver
         ELSE Stands("undo", Catch(a), 1, f, f, j)'
<1>1. PICK b, x \in BOOLEAN : skillTask = Task("go", Course(a), k, r, f, b, x, j)
  BY DEF Stands
<1> QED BY <1>1, ErrorIsUndone DEF Stands

LEMMA StandsGoesOn ==
  ASSUME SkillTyped', DiskSound', SkillTaskSound', NEW way \in {"go", "undo", "recover"},
         NEW course, NEW k, NEW r, NEW f, NEW j, Stands(way, course, k, r, f, j)'
  PROVE  SkillsSound'
<1>1. ~SkillIdle'
  BY DEF SkillIdle, NoSkillTask, Task, Stands
<1> QED BY <1>1 DEF SkillsSound, FilesMatchRecord

(* What a removal is of. *)
LEMMA RemovalIs ==
  ASSUME NEW j \in GoodPlans, j.action = "remove"
  PROVE  /\ j.next = NoRecord /\ j.prev.version # 0 /\ j.prev.version \in Versions /\ 0 \in Versions
         /\ j.prev \in CleanRecords /\ NoRecord \in CleanRecords
BY PlanIs, NoRecordIsClean, CapabilityAssumption DEF GoodPlans, Versions

(* A removal takes its next step. *)
LEMMA RemovingGoes ==
  ASSUME NEW j \in GoodPlans, j.action = "remove", NEW k \in 1 .. 9, NEW f,
         Stands("go", Course("remove"), k, NoRecord, f, j),
         RemovingDisk(j, k), SkillWorks, "sync" \notin Troubles
  PROVE  /\ UNCHANGED <<skillSwitch, gatewayUp, skillsUp>>
         /\ \/ RemovingDisk(j, k)' /\ Error
            \/ k \notin {2, 9} /\ RemovingDisk(j, k + 1)' /\ (Onward \/ Error)
            \/ /\ k = 2 /\ RemovingDisk(j, 3)'
               /\ Stands("go", Course("remove"), 3, NoRecord, f, j)'
            \/ /\ k = 9 /\ skillJournal' = None /\ Onward
               /\ UNCHANGED <<skillFiles, skillRecord>>
<1> DEFINE p == j.prev.version
<1>1. /\ k \in 1 .. Len(Course("remove")) /\ Course("remove") \in Seq(StepNames)
      /\ Len(Course("remove")) = 9 /\ "go" \in {"go", "undo", "recover"}
  BY RemoveCourse
<1>2. /\ Head(skillTask.steps) = Course("remove")[k] /\ skillTask.journal = j
      /\ skillTask.record = NoRecord
  BY <1>1, StandsIs
<1>3. p \in Versions /\ p # 0 /\ 0 \in Versions /\ j.next = NoRecord
  BY RemovalIs
<1>4. Dirs(IF k <= 2 THEN p ELSE 0, 0, IF 3 <= k /\ k <= 8 THEN p ELSE 0)
  BY DEF RemovingDisk, Dirs
<1>5. ASSUME NEW phase \in SkillPhases, Course("remove")[k] = phase, k \notin {2, 9},
             skillJournal' = Phase(j, phase) /\ UNCHANGED <<skillFiles, skillRecord>> => RemovingDisk(j, k + 1)',
             UNCHANGED <<skillFiles, skillRecord, skillJournal>> => RemovingDisk(j, k)'
      PROVE  /\ UNCHANGED <<skillSwitch, gatewayUp, skillsUp>>
             /\ \/ RemovingDisk(j, k)' /\ Error
                \/ k \notin {2, 9} /\ RemovingDisk(j, k + 1)' /\ (Onward \/ Error)
  <2>1. /\ UNCHANGED <<skillFiles, skillRecord, skillSwitch, gatewayUp, skillsUp>>
        /\ \/ skillJournal' = Phase(j, phase) /\ (Onward \/ Error)
           \/ skillJournal' = skillJournal /\ Error
    BY <1>2, <1>5, SavesIs
  <2> QED BY <1>5, <2>1
<1>6. UNCHANGED <<skillFiles, skillRecord, skillJournal>> => RemovingDisk(j, k)'
  BY DEF RemovingDisk, Dirs, RecordOld
<1>7. CASE k = 1
  <2>1. Course("remove")[k] = "staged" /\ "staged" \in SkillPhases
    BY <1>7, RemoveCourse DEF SkillPhases
  <2>2. skillJournal' = Phase(j, "staged") /\ UNCHANGED <<skillFiles, skillRecord>> => RemovingDisk(j, k + 1)'
    BY <1>7 DEF RemovingDisk, Dirs, RecordOld
  <2> QED BY <1>5, <1>6, <1>7, <2>1, <2>2
<1>8. CASE k = 2
  <2>1. Head(skillTask.steps) = "backup"
    BY <1>2, <1>8, RemoveCourse
  <2>2. UNCHANGED <<skillRecord, skillJournal, skillSwitch, gatewayUp, skillsUp>>
    BY <2>1, MovesStep
  <2>3. Dirs(p, 0, 0) /\ Target = p
    <3>1. Dirs(p, 0, 0)
      BY <1>4, <1>8
    <3> QED BY <3>1, DirsAre
  <2>4. Moved("target", "backup", "backedUp") \/ (skillFiles' = skillFiles /\ Error)
    BY <1>3, <2>1, <2>3, BacksUpIs
  <2>5. CASE Moved("target", "backup", "backedUp")
    <3>1. Dirs(0, 0, p)'
      BY <2>3, <2>5, DirsMoved
    <3>2. RemovingDisk(j, 3)'
      BY <1>8, <2>2, <3>1 DEF RemovingDisk, RecordOld
    <3>3. Stands("go", Course("remove"), k + 1, NoRecord, f, j)'
      <4>1. k < Len(Course("remove"))
        BY <1>8, RemoveCourse
      <4> QED BY <1>1, <2>5, <4>1, StandsIs
    <3>4. k + 1 = 3
      BY <1>8
    <3> QED BY <1>8, <2>2, <3>2, <3>3, <3>4
  <2>6. CASE skillFiles' = skillFiles /\ Error
    BY <1>6, <2>2, <2>6
  <2> QED BY <2>4, <2>5, <2>6
<1>9. CASE k = 3
  <2>1. Course("remove")[k] = "backed-up" /\ "backed-up" \in SkillPhases
    BY <1>9, RemoveCourse DEF SkillPhases
  <2>2. skillJournal' = Phase(j, "backed-up") /\ UNCHANGED <<skillFiles, skillRecord>> => RemovingDisk(j, k + 1)'
    BY <1>9 DEF RemovingDisk, Dirs, RecordOld
  <2> QED BY <1>5, <1>6, <1>9, <2>1, <2>2
<1>10. CASE k = 4
  <2>1. Head(skillTask.steps) = "record"
    BY <1>2, <1>10, RemoveCourse
  <2>2. /\ UNCHANGED <<skillFiles, skillJournal, skillSwitch, gatewayUp, skillsUp>>
        /\ \/ skillRecord' = NoRecord /\ (Onward \/ Error)
           \/ skillRecord' = skillRecord /\ Error
    BY <1>2, <2>1, RecordIsWritten
  <2>3. skillRecord' = NoRecord => RemovingDisk(j, k + 1)'
    BY <1>10, <2>2 DEF RemovingDisk, Dirs, RecordOld
  <2> QED BY <1>6, <1>10, <2>2, <2>3
<1>11. CASE k = 5
  <2>1. Course("remove")[k] = "committed" /\ "committed" \in SkillPhases
    BY <1>11, RemoveCourse DEF SkillPhases
  <2>2. skillJournal' = Phase(j, "committed") /\ UNCHANGED <<skillFiles, skillRecord>> => RemovingDisk(j, k + 1)'
    BY <1>11 DEF RemovingDisk, Dirs, RecordOld
  <2> QED BY <1>5, <1>6, <1>11, <2>1, <2>2
<1>12. CASE k = 6
  <2>1. Head(skillTask.steps) = "verify"
    BY <1>2, <1>12, RemoveCourse
  <2>2. /\ UNCHANGED <<skillDisk, gatewayUp, skillsUp>>
        /\ Onward \/ Error
    BY <1>2, <2>1, VerifiesIs
  <2>3. UNCHANGED <<skillFiles, skillRecord, skillJournal, skillSwitch, gatewayUp, skillsUp>>
    BY <2>2 DEF skillDisk
  <2>4. RemovingDisk(j, k + 1)'
    BY <1>12, <2>3 DEF RemovingDisk, Dirs, RecordOld
  <2> QED BY <1>12, <2>2, <2>3, <2>4
<1>13. CASE k = 7
  <2>1. Course("remove")[k] = "committed-final" /\ "committed-final" \in SkillPhases
    BY <1>13, RemoveCourse DEF SkillPhases
  <2>2. skillJournal' = Phase(j, "committed-final") /\ UNCHANGED <<skillFiles, skillRecord>> => RemovingDisk(j, k + 1)'
    BY <1>13 DEF RemovingDisk, Dirs, RecordOld
  <2> QED BY <1>5, <1>6, <1>13, <2>1, <2>2
<1>14. CASE k = 8
  <2>1. Head(skillTask.steps) = "drop"
    BY <1>2, <1>14, RemoveCourse
  <2>2. UNCHANGED <<skillRecord, skillJournal, skillSwitch, gatewayUp, skillsUp>>
    BY <2>1, MovesStep
  <2>3. \/ skillFiles' = [skillFiles EXCEPT !["backup"] = 0] /\ (Onward \/ Error)
        \/ skillFiles' = skillFiles /\ Error
    BY <2>1, RemovesIs
  <2>4. \/ Dirs(0, 0, 0)' /\ (Onward \/ Error)
        \/ skillFiles' = skillFiles /\ Error
    <3>1. Dirs(0, 0, p)
      BY <1>4, <1>14
    <3>2. CASE skillFiles' = [skillFiles EXCEPT !["backup"] = 0] /\ (Onward \/ Error)
      BY <3>1, <3>2, DirsChanged
    <3> QED BY <2>3, <3>2
  <2>5. Dirs(0, 0, 0)' => RemovingDisk(j, k + 1)'
    BY <1>14, <2>2 DEF RemovingDisk, RecordOld
  <2> QED BY <1>6, <1>14, <2>2, <2>4, <2>5
<1>15. CASE k = 9
  <2>1. Head(skillTask.steps) = "finish"
    BY <1>2, <1>15, RemoveCourse
  <2>2. /\ UNCHANGED <<skillRecord, skillSwitch, gatewayUp, skillsUp>>
        /\ \/ skillJournal' = None /\ Onward /\ skillFiles' = skillFiles
           \/ UNCHANGED <<skillJournal, skillFiles>> /\ Error
    BY <2>1, FinishesIs
  <2> QED BY <1>6, <1>15, <2>2
<1>16. k = 1 \/ k = 2 \/ k = 3 \/ k = 4 \/ k = 5 \/ k = 6 \/ k = 7 \/ k = 8 \/ k = 9
  OBVIOUS
<1> QED BY <1>7, <1>8, <1>9, <1>10, <1>11, <1>12, <1>13, <1>14, <1>15, <1>16, Zenon

(* What is left stays as it is while the disk does; what a removal leaves. *)
LEMMA LeftStays ==
  ASSUME NEW j, LeftBy(j), UNCHANGED <<skillFiles, skillRecord, skillJournal, skillSwitch>>
  PROVE  LeftBy(j)'
BY DEF LeftBy, Lies, RecordIn, SwitchIs, ReplaceLies, RemoveLies, Dirs

LEMMA RemovingLeaves ==
  ASSUME NEW j \in GoodPlans, j.action = "remove", NEW k \in 1 .. 9, SwitchIs(j)', RemovingDisk(j, k)'
  PROVE  /\ skillFiles' \in [target : Versions, staging : Versions, backup : Versions]
         /\ skillRecord' \in CleanRecords
         /\ DiskSound'
         /\ k > 1 => LeftBy(j)' /\ skillJournal' # None
<1> DEFINE p == j.prev.version
<1>1. /\ j.next = NoRecord /\ p # 0 /\ p \in Versions /\ 0 \in Versions
      /\ j.prev \in CleanRecords /\ NoRecord \in CleanRecords
  BY RemovalIs
<1>2. Dirs(IF k <= 2 THEN p ELSE 0, 0, IF 3 <= k /\ k <= 8 THEN p ELSE 0)'
  BY DEF RemovingDisk, Dirs
<1>3. /\ skillFiles' \in [target : Versions, staging : Versions, backup : Versions]
      /\ skillRecord' \in CleanRecords /\ RecordIn(j)'
  BY <1>1, <1>2, DirsTyped DEF RemovingDisk, RecordOld, RecordIn
<1>4. ASSUME k > 1 PROVE LeftBy(j)'
  <2>1. PICK phase \in {"staged", "backed-up", "committed", "committed-final"} :
          /\ skillJournal' = Phase(j, phase)
          /\ \/ k \in {2, 3} /\ phase = "staged"
             \/ k \in {4, 5} /\ phase = "backed-up"
             \/ k \in {6, 7} /\ phase = "committed"
             \/ k \in {8, 9} /\ phase = "committed-final"
    BY <1>4 DEF RemovingDisk
  <2>2. RemoveLies(j, phase)'
    <3>1. CASE k \in {2, 3}
      BY <1>2, <2>1, <3>1 DEF RemoveLies
    <3>2. CASE k \in {4, 5}
      BY <1>2, <2>1, <3>2 DEF RemoveLies
    <3>3. CASE k \in {6, 7}
      BY <1>2, <2>1, <3>3 DEF RemoveLies
    <3>4. CASE k \in {8, 9}
      <4>1. skillRecord' = NoRecord
        BY <3>4 DEF RemovingDisk
      <4> QED BY <1>2, <2>1, <3>4, <4>1 DEF RemoveLies
    <3> QED BY <1>4, <3>1, <3>2, <3>3, <3>4
  <2>3. phase \in SkillPhases /\ Lies(j, phase)'
    BY <1>3, <2>1, <2>2 DEF Lies, SkillPhases
  <2> QED BY <2>1, <2>3 DEF LeftBy
<1>5. CASE k = 1
  BY <1>3, <1>5 DEF RemovingDisk, DiskSound
<1>6. CASE k > 1
  BY <1>3, <1>4, <1>6, LeftIsThere
<1> QED BY <1>5, <1>6

LEMMA RemovedLeaves ==
  ASSUME NEW j \in GoodPlans, j.action = "remove", NEW k \in 1 .. 4, NEW f \in {NoRecord, j.prev},
         SwitchIs(j)', RemovedDisk(j, k, f)'
  PROVE  /\ skillFiles' \in [target : Versions, staging : Versions, backup : Versions]
         /\ skillRecord' \in CleanRecords
         /\ DiskSound' /\ skillJournal' # None
<1> DEFINE p == j.prev.version
<1>1. /\ p # 0 /\ p \in Versions /\ 0 \in Versions
      /\ j.prev \in CleanRecords /\ NoRecord \in CleanRecords
  BY RemovalIs
<1>2. Dirs(p, 0, 0)' \/ Dirs(0, 0, p)'
  BY DEF RemovedDisk
<1>3. /\ skillFiles' \in [target : Versions, staging : Versions, backup : Versions]
      /\ skillRecord' \in CleanRecords /\ RecordIn(j)'
  BY <1>1, <1>2, DirsTyped DEF RemovedDisk, RecordOld, RecordIn
<1>4. LeftBy(j)'
  <2>1. CASE k = 1
    BY <2>1 DEF RemovedDisk
  <2>2. CASE k > 1
    <3>1. skillJournal' = Phase(j, "rolling-back") /\ "rolling-back" \in SkillPhases
      BY <2>2 DEF RemovedDisk, SkillPhases
    <3>2. Lies(j, "rolling-back")'
      BY <1>2, <1>3 DEF Lies, RemoveLies
    <3> QED BY <3>1, <3>2 DEF LeftBy
  <2> QED BY <2>1, <2>2
<1> QED BY <1>3, <1>4, LeftIsThere

(* A removal is undone by another step. *)
LEMMA BringsBack ==
  ASSUME NEW j \in GoodPlans, j.action = "remove", NEW k \in 1 .. 4, NEW f \in {NoRecord, j.prev},
         Stands("undo", Catch("remove"), k, f, f, j),
         RemovedDisk(j, k, f), SwitchIs(j), SkillWorks, "sync" \notin Troubles
  PROVE  /\ UNCHANGED <<skillSwitch, gatewayUp, skillsUp>>
         /\ \/ RemovedDisk(j, k, f)' /\ SkillOver
            \/ /\ k < 4 /\ RemovedDisk(j, k + 1, f)'
               /\ SkillOver \/ Stands("undo", Catch("remove"), k + 1, f, f, j)'
            \/ /\ k = 4 /\ skillJournal' = None /\ SkillOver
               /\ UNCHANGED <<skillFiles, skillRecord>>
<1> DEFINE p == j.prev.version
<1>1. /\ k \in 1 .. Len(Catch("remove")) /\ Catch("remove") \in Seq(StepNames)
      /\ "undo" \in {"undo", "recover"} /\ "undo" \in {"go", "undo", "recover"}
      /\ Len(Catch("remove")) = 4
  BY RemoveCatch
<1>2. /\ Head(skillTask.steps) = Catch("remove")[k] /\ skillTask.journal = j /\ skillTask.record = f
      /\ Onward => IF k = 4 THEN SkillOver ELSE Stands("undo", Catch("remove"), k + 1, f, f, j)'
  <2>1. /\ Head(skillTask.steps) = Catch("remove")[k] /\ skillTask.journal = j /\ skillTask.record = f
        /\ Onward => IF k = Len(Catch("remove")) THEN SkillOver
                     ELSE Stands("undo", Catch("remove"), k + 1, f, f, j)'
    BY <1>1, StandsIs
  <2> QED BY <1>1, <2>1
<1>3. Error => SkillOver
  BY <1>1, StandsIs
<1>5. p # 0 /\ (Dirs(p, 0, 0) \/ (k <= 2 /\ Dirs(0, 0, p)))
  BY RemovalIs DEF RemovedDisk
<1>6. UNCHANGED <<skillFiles, skillRecord, skillJournal, skillSwitch>> => RemovedDisk(j, k, f)'
  BY LeftStays DEF RemovedDisk, Dirs, RecordOld
<1>7. CASE k = 1
  <2>1. Head(skillTask.steps) = "rolling-back" /\ "rolling-back" \in SkillPhases
    BY <1>2, <1>7, RemoveCatch DEF SkillPhases
  <2>2. /\ UNCHANGED <<skillFiles, skillRecord, skillSwitch, gatewayUp, skillsUp>>
        /\ \/ skillJournal' = Phase(j, "rolling-back") /\ (Onward \/ Error)
           \/ skillJournal' = skillJournal /\ Error
    BY <1>2, <2>1, SavesIs
  <2>3. skillJournal' = Phase(j, "rolling-back") => RemovedDisk(j, k + 1, f)'
    BY <1>7, <2>2 DEF RemovedDisk, Dirs, RecordOld
  <2> QED BY <1>2, <1>3, <1>6, <1>7, <2>2, <2>3
<1>8. CASE k = 2
  <2>1. Head(skillTask.steps) = "restore"
    BY <1>2, <1>8, RemoveCatch
  <2>2. UNCHANGED <<skillRecord, skillJournal, skillSwitch, gatewayUp, skillsUp>>
    BY <2>1, MovesStep
  <2>3. CASE Dirs(0, 0, p)
    <3>1. (skillTask.backedUp \/ skillTask.journal.action = "remove") /\ skillFiles.backup # 0 /\ Target = 0
      BY <1>2, <1>5, <2>3, DirsAre
    <3>2. Moved("backup", "target", "backedUp") \/ (skillFiles' = skillFiles /\ Error)
      BY <2>1, <3>1, RestoresIs
    <3>3. CASE Moved("backup", "target", "backedUp")
      <4>1. Dirs(p, 0, 0)'
        BY <2>3, <3>3, DirsMoved
      <4>2. RemovedDisk(j, k + 1, f)'
        BY <1>8, <2>2, <4>1 DEF RemovedDisk, RecordOld
      <4>3. Stands("undo", Catch("remove"), k + 1, f, f, j)'
        <5>1. k < Len(Catch("remove"))
          BY <1>8, RemoveCatch
        <5> QED BY <1>1, <3>3, <5>1, StandsIs
      <4> QED BY <1>8, <2>2, <4>2, <4>3
    <3>4. CASE skillFiles' = skillFiles /\ Error
      BY <1>3, <1>6, <2>2, <3>4
    <3> QED BY <3>2, <3>3, <3>4
  <2>4. CASE Dirs(p, 0, 0)
    <3>1. ~((skillTask.backedUp \/ skillTask.journal.action = "remove") /\ skillFiles.backup # 0 /\ Target = 0)
      BY <1>5, <2>4, DirsAre
    <3>2. skillFiles' = skillFiles /\ Onward
      BY <2>1, <3>1, RestoresIs
    <3>3. RemovedDisk(j, k + 1, f)'
      BY <1>8, <2>2, <2>4, <3>2 DEF RemovedDisk, RecordOld, Dirs
    <3> QED BY <1>2, <1>8, <2>2, <3>2, <3>3
  <2> QED BY <1>5, <2>3, <2>4
<1>9. CASE k = 3
  <2>1. Head(skillTask.steps) = "record"
    BY <1>2, <1>9, RemoveCatch
  <2>2. /\ UNCHANGED <<skillFiles, skillJournal, skillSwitch, gatewayUp, skillsUp>>
        /\ \/ skillRecord' = f /\ (Onward \/ Error)
           \/ skillRecord' = skillRecord /\ Error
    BY <1>2, <2>1, RecordIsWritten
  <2>3. skillRecord' = f => RemovedDisk(j, k + 1, f)'
    BY <1>5, <1>9, <2>2 DEF RemovedDisk, Dirs
  <2> QED BY <1>2, <1>3, <1>6, <1>9, <2>2, <2>3
<1>10. CASE k = 4
  <2>1. Head(skillTask.steps) = "finish"
    BY <1>2, <1>10, RemoveCatch
  <2>2. /\ UNCHANGED <<skillRecord, skillSwitch, gatewayUp, skillsUp>>
        /\ \/ skillJournal' = None /\ Onward /\ skillFiles' = skillFiles
           \/ UNCHANGED <<skillJournal, skillFiles>> /\ Error
    BY <2>1, FinishesIs
  <2> QED BY <1>2, <1>3, <1>6, <1>10, <2>2
<1> QED BY <1>7, <1>8, <1>9, <1>10

(* A removal, and undoing one, keep the invariant. *)
LEMMA RemovingKeeps ==
  ASSUME SkillsSound, NEW j \in GoodPlans, j.action = "remove", SwitchIs(j), NEW k \in 1 .. 9,
         Removing(j, k), SkillWorks, "sync" \notin Troubles
  PROVE  SkillsSound'
<1>1. PICK f \in {NoRecord, j.prev} :
        Stands("go", Course("remove"), k, NoRecord, f, j) /\ RemovingDisk(j, k)
  BY DEF Removing
<1>2. /\ UNCHANGED <<skillSwitch, gatewayUp, skillsUp>>
      /\ \/ RemovingDisk(j, k)' /\ Error
         \/ k \notin {2, 9} /\ RemovingDisk(j, k + 1)' /\ (Onward \/ Error)
         \/ /\ k = 2 /\ RemovingDisk(j, 3)'
            /\ Stands("go", Course("remove"), 3, NoRecord, f, j)'
         \/ /\ k = 9 /\ skillJournal' = None /\ Onward
            /\ UNCHANGED <<skillFiles, skillRecord>>
  BY <1>1, RemovingGoes
<1>3. SwitchIs(j)' /\ skillSwitch' \in BOOLEAN /\ gatewayUp' \in BOOLEAN /\ skillsUp' \in BOOLEAN
  BY <1>2 DEF SkillsSound, SkillTyped, SwitchIs
<1>4. /\ k \in 1 .. Len(Course("remove")) /\ Course("remove") \in Seq(StepNames)
      /\ k = 9 <=> k = Len(Course("remove"))
      /\ "remove" \in {"replace", "remove", "toggle"} /\ "go" \in {"go", "undo", "recover"}
  BY RemoveCourse
<1>5. Error => IF k \in {1, 8, 9} THEN SkillOver ELSE Stands("undo", Catch("remove"), 1, f, f, j)'
  <2>1. Course("remove")[k] \in {"drop", "finish"} <=> k \in {8, 9}
    BY RemoveCourse
  <2> QED BY <1>1, <1>4, <2>1, StandsUndone
<1>6. Onward => IF k = 9 THEN SkillOver ELSE Stands("go", Course("remove"), k + 1, NoRecord, f, j)'
  BY <1>1, <1>4, StandsIs
<1>7. ASSUME NEW i \in 1 .. 9, RemovingDisk(j, i)', Error, i \in {k, k + 1}
      PROVE  SkillsSound'
  <2>1. /\ SkillTyped' /\ DiskSound'
        /\ i > 1 => LeftBy(j)' /\ skillJournal' # None
    BY <1>3, <1>7, RemovingLeaves DEF SkillTyped
  <2>2. CASE k \in {1, 8, 9}
    <3>1. skillJournal' # None \/ FilesMatchRecord'
      <4>1. CASE i > 1
        BY <2>1, <4>1
      <4>2. CASE i = 1
        <5>1. Dirs(j.prev.version, 0, 0)' /\ RecordOld(j)'
          BY <1>7, <4>2 DEF RemovingDisk, Dirs, RecordOld
        <5> QED BY <1>3, <5>1, UndoneMatches
      <4> QED BY <4>1, <4>2
    <3> QED BY <1>5, <1>7, <2>1, <2>2, <3>1, LeftOver
  <2>3. CASE k \in 2 .. 7
    <3>1. Stands("undo", Catch("remove"), 1, f, f, j)'
      BY <1>5, <1>7, <2>3
    <3>2. RemovedDisk(j, 1, f)'
      <4>1. i \in 2 .. 8
        BY <1>7, <2>3
      <4>2. RecordOld(j)'
        BY <1>7 DEF RemovingDisk, RecordOld
      <4>3. Dirs(j.prev.version, 0, 0)' \/ Dirs(0, 0, j.prev.version)'
        BY <1>7, <4>1 DEF RemovingDisk, Dirs
      <4> QED BY <2>1, <4>1, <4>2, <4>3 DEF RemovedDisk
    <3>3. BringingBack(j, 1)'
      BY <3>1, <3>2 DEF BringingBack
    <3>4. SkillTaskSound'
      BY <1>3, <3>3 DEF SkillTaskSound
    <3> QED BY <2>1, <3>1, <3>4, StandsGoesOn
  <2> QED BY <2>2, <2>3
<1>8. ASSUME NEW i \in 1 .. 9, RemovingDisk(j, i)', Stands("go", Course("remove"), i, NoRecord, f, j)'
      PROVE  SkillsSound'
  <2>1. SkillTyped' /\ DiskSound'
    BY <1>3, <1>8, RemovingLeaves DEF SkillTyped
  <2>2. Removing(j, i)'
    BY <1>8 DEF Removing
  <2>3. SkillTaskSound'
    BY <1>3, <2>2 DEF SkillTaskSound
  <2> QED BY <1>8, <2>1, <2>3, StandsGoesOn
<1>9. CASE RemovingDisk(j, k)' /\ Error
  BY <1>7, <1>9
<1>10. CASE k \notin {2, 9} /\ RemovingDisk(j, k + 1)' /\ (Onward \/ Error)
  <2>1. k + 1 \in 1 .. 9 /\ k # 9
    BY <1>10
  <2>2. CASE Error
    BY <1>7, <1>10, <2>1, <2>2
  <2>3. CASE Onward
    <3>1. Stands("go", Course("remove"), k + 1, NoRecord, f, j)'
      BY <1>6, <2>1, <2>3
    <3> QED BY <1>8, <1>10, <2>1, <3>1
  <2> QED BY <1>10, <2>2, <2>3
<1>11. CASE /\ k = 2 /\ RemovingDisk(j, 3)'
            /\ Stands("go", Course("remove"), 3, NoRecord, f, j)'
  BY <1>8, <1>11
<1>12. CASE /\ k = 9 /\ skillJournal' = None /\ Onward
            /\ UNCHANGED <<skillFiles, skillRecord>>
  <2>1. Dirs(0, 0, 0) /\ skillRecord = NoRecord
    BY <1>1, <1>12 DEF RemovingDisk, Dirs
  <2>2. SkillTyped' /\ DiskSound' /\ FilesMatchRecord'
    BY <1>2, <1>3, <1>12, <2>1 DEF SkillsSound, SkillTyped, DiskSound, FilesMatchRecord, Dirs, NoRecord
  <2> QED BY <1>6, <1>12, <2>2, LeftOver
<1> QED BY <1>2, <1>9, <1>10, <1>11, <1>12

LEMMA BringingBackKeeps ==
  ASSUME SkillsSound, NEW j \in GoodPlans, j.action = "remove", SwitchIs(j), NEW k \in 1 .. 4,
         BringingBack(j, k), SkillWorks, "sync" \notin Troubles
  PROVE  SkillsSound'
<1>1. PICK f \in {NoRecord, j.prev} : Stands("undo", Catch("remove"), k, f, f, j) /\ RemovedDisk(j, k, f)
  BY DEF BringingBack
<1>2. /\ UNCHANGED <<skillSwitch, gatewayUp, skillsUp>>
      /\ \/ RemovedDisk(j, k, f)' /\ SkillOver
         \/ /\ k < 4 /\ RemovedDisk(j, k + 1, f)'
            /\ SkillOver \/ Stands("undo", Catch("remove"), k + 1, f, f, j)'
         \/ /\ k = 4 /\ skillJournal' = None /\ SkillOver
            /\ UNCHANGED <<skillFiles, skillRecord>>
  BY <1>1, BringsBack
<1>3. SwitchIs(j)' /\ skillSwitch' \in BOOLEAN /\ gatewayUp' \in BOOLEAN /\ skillsUp' \in BOOLEAN
  BY <1>2 DEF SkillsSound, SkillTyped, SwitchIs
<1>4. CASE RemovedDisk(j, k, f)' /\ SkillOver
  BY <1>3, <1>4, RemovedLeaves, LeftOver DEF SkillTyped
<1>5. CASE /\ k < 4 /\ RemovedDisk(j, k + 1, f)'
           /\ SkillOver \/ Stands("undo", Catch("remove"), k + 1, f, f, j)'
  <2>1. k + 1 \in 1 .. 4
    BY <1>5
  <2>2. SkillTyped' /\ DiskSound' /\ skillJournal' # None
    BY <1>3, <1>5, <2>1, RemovedLeaves DEF SkillTyped
  <2>3. CASE SkillOver
    BY <2>2, <2>3, LeftOver
  <2>4. CASE Stands("undo", Catch("remove"), k + 1, f, f, j)'
    <3>1. BringingBack(j, k + 1)'
      BY <1>5, <2>4 DEF BringingBack
    <3>2. SkillTaskSound'
      BY <1>3, <2>1, <3>1 DEF SkillTaskSound
    <3> QED BY <2>2, <2>4, <3>2, StandsGoesOn
  <2> QED BY <1>5, <2>3, <2>4
<1>6. CASE /\ k = 4 /\ skillJournal' = None /\ SkillOver
           /\ UNCHANGED <<skillFiles, skillRecord>>
  <2>1. Dirs(j.prev.version, 0, 0) /\ RecordOld(j)
    BY <1>1, <1>6 DEF RemovedDisk, RecordOld
  <2>2. Dirs(j.prev.version, 0, 0)' /\ RecordOld(j)'
    BY <1>6, <2>1 DEF Dirs, RecordOld
  <2>3. SkillTyped' /\ DiskSound'
    BY <1>3, <1>6 DEF SkillsSound, SkillTyped, DiskSound
  <2> QED BY <1>3, <1>6, <2>2, <2>3, UndoneMatches, LeftOver
<1> QED BY <1>2, <1>4, <1>5, <1>6

(* What a switch is of. *)
LEMMA ToggleIs ==
  ASSUME NEW j \in GoodPlans, j.action = "toggle"
  PROVE  /\ j.prev.version # 0 /\ j.prev.version \in Versions /\ 0 \in Versions
         /\ j.next.version = j.prev.version
         /\ j.prev \in CleanRecords /\ j.next \in CleanRecords /\ NoRecord \in CleanRecords
         /\ j.prev.enabled \in BOOLEAN /\ j.next.enabled \in BOOLEAN
BY PlanIs, NoRecordIsClean, CapabilityAssumption DEF GoodPlans, Versions

(* The journal of a switch, whichever its phase, fits the directories and each record. *)
LEMMA ToggleLeft ==
  ASSUME NEW j \in GoodPlans, j.action = "toggle", Dirs(j.prev.version, 0, 0)', RecordIn(j)',
         \/ \E phase \in SkillPhases : skillJournal' = Phase(j, phase)
         \/ LeftBy(j) /\ skillJournal' = skillJournal
  PROVE  LeftBy(j)'
<1>1. PICK phase \in SkillPhases : skillJournal' = Phase(j, phase)
  BY DEF LeftBy
<1>2. Lies(j, phase)'
  BY DEF Lies, SwitchIs
<1> QED BY <1>1, <1>2 DEF LeftBy

(* A switch takes its next step, and is undone by another. *)
LEMMA TogglingGoes ==
  ASSUME NEW j \in GoodPlans, j.action = "toggle", NEW k \in 1 .. 6, NEW f,
         Stands("go", Course("toggle"), k, j.next, f, j),
         TogglingDisk(j, k), SkillWorks, "sync" \notin Troubles
  PROVE  /\ UNCHANGED <<gatewayUp, skillsUp>>
         /\ \/ TogglingDisk(j, k)' /\ Error
            \/ k < 6 /\ TogglingDisk(j, k + 1)' /\ (Onward \/ Error)
            \/ /\ k = 6 /\ skillJournal' = None /\ Onward
               /\ UNCHANGED <<skillFiles, skillRecord, skillSwitch>>
<1>1. /\ k \in 1 .. Len(Course("toggle")) /\ Course("toggle") \in Seq(StepNames)
      /\ "go" \in {"go", "undo", "recover"}
  BY ToggleCourse
<1>2. /\ Head(skillTask.steps) = Course("toggle")[k] /\ skillTask.journal = j
      /\ skillTask.record = j.next
  BY <1>1, StandsIs
<1>3. Dirs(j.prev.version, 0, 0)
  BY DEF TogglingDisk
<1>4. skillFiles' = skillFiles => Dirs(j.prev.version, 0, 0)'
  BY <1>3 DEF Dirs
<1>5. /\ k <= 4 => RecordOld(j)
      /\ k > 4 => skillRecord = j.next
      /\ RecordIn(j)
  BY DEF TogglingDisk, RecordOld, RecordIn
<1>6. UNCHANGED <<skillFiles, skillRecord, skillJournal, skillSwitch>> => TogglingDisk(j, k)'
  BY LeftStays DEF TogglingDisk, Dirs, RecordOld
<1>7. CASE k \in {1, 3, 5}
  <2>1. Course("toggle")[k] \in SkillPhases
    BY <1>7, ToggleCourse DEF SkillPhases
  <2>2. PICK phase \in SkillPhases : Course("toggle")[k] = phase
    BY <2>1
  <2>3. /\ UNCHANGED <<skillFiles, skillRecord, skillSwitch, gatewayUp, skillsUp>>
        /\ \/ skillJournal' = Phase(j, phase) /\ (Onward \/ Error)
           \/ skillJournal' = skillJournal /\ Error
    BY <1>2, <2>2, SavesIs
  <2>4. ASSUME skillJournal' = Phase(j, phase) PROVE TogglingDisk(j, k + 1)'
    <3>1. LeftBy(j)'
      <4>1. RecordIn(j)'
        BY <1>5, <2>3 DEF RecordIn
      <4> QED BY <1>4, <2>3, <2>4, <4>1, ToggleLeft
    <3>2. Dirs(j.prev.version, 0, 0)'
      BY <1>4, <2>3
    <3>3. IF k + 1 <= 4 THEN RecordOld(j)' ELSE skillRecord' = j.next
      BY <1>5, <1>7, <2>3 DEF RecordOld
    <3>4. skillSwitch' = IF k + 1 <= 2 THEN j.prev.enabled ELSE j.next.enabled
      BY <1>7, <2>3 DEF TogglingDisk
    <3> QED BY <1>7, <3>1, <3>2, <3>3, <3>4 DEF TogglingDisk
  <2> QED BY <1>6, <1>7, <2>3, <2>4
<1>8. CASE k = 2
  <2>1. Head(skillTask.steps) = "switch"
    BY <1>2, <1>8, ToggleCourse
  <2>2. PICK on : on = j.next.enabled
    OBVIOUS
  <2>3. /\ UNCHANGED <<skillFiles, skillRecord, skillJournal, gatewayUp, skillsUp>>
        /\ \/ skillSwitch' = on /\ (Onward \/ Error)
           \/ skillSwitch' = skillSwitch /\ Error
    BY <1>2, <2>1, <2>2, SwitchIsSet
  <2>4. ASSUME skillSwitch' = on PROVE TogglingDisk(j, k + 1)'
    <3>1. LeftBy(j)'
      <4>1. RecordIn(j)'
        BY <1>5, <2>3 DEF RecordIn
      <4>2. LeftBy(j)
        BY <1>8 DEF TogglingDisk
      <4> QED BY <1>4, <2>3, <4>1, <4>2, ToggleLeft
    <3>2. Dirs(j.prev.version, 0, 0)' /\ RecordOld(j)'
      BY <1>4, <1>5, <1>8, <2>3 DEF RecordOld
    <3> QED BY <1>8, <2>2, <2>4, <3>1, <3>2 DEF TogglingDisk
  <2> QED BY <1>6, <1>8, <2>3, <2>4
<1>9. CASE k = 4
  <2>1. Head(skillTask.steps) = "record"
    BY <1>2, <1>9, ToggleCourse
  <2>2. /\ UNCHANGED <<skillFiles, skillJournal, skillSwitch, gatewayUp, skillsUp>>
        /\ \/ skillRecord' = j.next /\ (Onward \/ Error)
           \/ skillRecord' = skillRecord /\ Error
    BY <1>2, <2>1, RecordIsWritten
  <2>3. ASSUME skillRecord' = j.next PROVE TogglingDisk(j, k + 1)'
    <3>1. LeftBy(j)'
      <4>1. RecordIn(j)'
        BY <2>3 DEF RecordIn
      <4>2. LeftBy(j)
        BY <1>9 DEF TogglingDisk
      <4> QED BY <1>4, <2>2, <4>1, <4>2, ToggleLeft
    <3>2. Dirs(j.prev.version, 0, 0)' /\ skillSwitch' = j.next.enabled
      BY <1>4, <1>9, <2>2 DEF TogglingDisk
    <3> QED BY <1>9, <2>3, <3>1, <3>2 DEF TogglingDisk
  <2> QED BY <1>6, <1>9, <2>2, <2>3
<1>10. CASE k = 6
  <2>1. Head(skillTask.steps) = "finish"
    BY <1>2, <1>10, ToggleCourse
  <2>2. /\ UNCHANGED <<skillRecord, skillSwitch, gatewayUp, skillsUp>>
        /\ \/ skillJournal' = None /\ Onward /\ skillFiles' = skillFiles
           \/ UNCHANGED <<skillJournal, skillFiles>> /\ Error
    BY <2>1, FinishesIs
  <2> QED BY <1>6, <1>10, <2>2
<1> QED BY <1>7, <1>8, <1>9, <1>10

LEMMA TogglingLeaves ==
  ASSUME NEW j \in GoodPlans, j.action = "toggle", NEW k \in 1 .. 6, TogglingDisk(j, k)'
  PROVE  /\ skillFiles' \in [target : Versions, staging : Versions, backup : Versions]
         /\ skillRecord' \in CleanRecords /\ skillSwitch' \in BOOLEAN
         /\ DiskSound'
         /\ k > 1 => LeftBy(j)' /\ skillJournal' # None
<1>1. Dirs(j.prev.version, 0, 0)' /\ j.prev.version \in Versions /\ 0 \in Versions
  BY ToggleIs DEF TogglingDisk
<1>2. /\ skillFiles' \in [target : Versions, staging : Versions, backup : Versions]
      /\ skillRecord' \in CleanRecords
  BY <1>1, ToggleIs, DirsTyped DEF TogglingDisk, RecordOld
<1>3. skillSwitch' \in BOOLEAN
  BY ToggleIs DEF TogglingDisk
<1>4. CASE k = 1
  BY <1>2, <1>3, <1>4 DEF TogglingDisk, DiskSound
<1>5. CASE k > 1
  <2>1. LeftBy(j)'
    BY <1>5 DEF TogglingDisk
  <2> QED BY <1>2, <1>3, <1>5, <2>1, LeftIsThere
<1> QED BY <1>4, <1>5

LEMMA ToggledLeaves ==
  ASSUME NEW j \in GoodPlans, j.action = "toggle", NEW k \in 1 .. 3, NEW f, ToggledDisk(j, k, f)'
  PROVE  /\ skillFiles' \in [target : Versions, staging : Versions, backup : Versions]
         /\ skillRecord' \in CleanRecords
         /\ DiskSound' /\ skillJournal' # None
<1>1. Dirs(j.prev.version, 0, 0)' /\ j.prev.version \in Versions /\ 0 \in Versions /\ LeftBy(j)'
  BY ToggleIs DEF ToggledDisk
<1>2. RecordIn(j)'
  BY <1>1 DEF LeftBy, Lies
<1> QED BY <1>1, <1>2, ToggleIs, DirsTyped, LeftIsThere DEF RecordIn

LEMMA TurnsBack ==
  ASSUME NEW j \in GoodPlans, j.action = "toggle", NEW k \in 1 .. 3, NEW f \in {NoRecord, j.prev},
         Stands("undo", Catch("toggle"), k, f, f, j), skillSwitch \in BOOLEAN,
         ToggledDisk(j, k, f), SkillWorks, "sync" \notin Troubles
  PROVE  /\ UNCHANGED <<gatewayUp, skillsUp>> /\ skillSwitch' \in BOOLEAN
         /\ \/ ToggledDisk(j, k, f)' /\ SkillOver
            \/ /\ k < 3 /\ ToggledDisk(j, k + 1, f)'
               /\ SkillOver \/ Stands("undo", Catch("toggle"), k + 1, f, f, j)'
            \/ /\ k = 3 /\ skillJournal' = None /\ SkillOver
               /\ UNCHANGED <<skillFiles, skillRecord, skillSwitch>>
<1>1. /\ k \in 1 .. Len(Catch("toggle")) /\ Catch("toggle") \in Seq(StepNames)
      /\ "undo" \in {"undo", "recover"} /\ "undo" \in {"go", "undo", "recover"}
      /\ Len(Catch("toggle")) = 3
  BY ToggleCatch
<1>2. /\ Head(skillTask.steps) = Catch("toggle")[k] /\ skillTask.journal = j /\ skillTask.record = f
      /\ Onward => IF k = 3 THEN SkillOver ELSE Stands("undo", Catch("toggle"), k + 1, f, f, j)'
  <2>1. /\ Head(skillTask.steps) = Catch("toggle")[k] /\ skillTask.journal = j /\ skillTask.record = f
        /\ Onward => IF k = Len(Catch("toggle")) THEN SkillOver
                     ELSE Stands("undo", Catch("toggle"), k + 1, f, f, j)'
    BY <1>1, StandsIs
  <2> QED BY <1>1, <2>1
<1>3. Error => SkillOver
  BY <1>1, StandsIs
<1>4. LeftBy(j) /\ Dirs(j.prev.version, 0, 0) /\ RecordIn(j)
  BY DEF ToggledDisk, LeftBy, Lies
<1>5. UNCHANGED <<skillFiles, skillRecord, skillJournal, skillSwitch>> => ToggledDisk(j, k, f)'
  BY LeftStays DEF ToggledDisk, Dirs
<1>6. CASE k = 1
  <2>1. Head(skillTask.steps) = "compensate"
    BY <1>2, <1>6, ToggleCatch
  <2>2. PICK on : on = j.prev.enabled
    OBVIOUS
  <2>3. /\ UNCHANGED <<skillFiles, skillRecord, skillJournal, gatewayUp, skillsUp>>
        /\ \/ skillSwitch' = on /\ (Onward \/ Error)
           \/ skillSwitch' = skillSwitch /\ Error
    BY <1>2, <2>1, <2>2, SwitchIsSet
  <2>4. ASSUME skillSwitch' = on PROVE ToggledDisk(j, k + 1, f)' /\ skillSwitch' \in BOOLEAN
    <3>1. LeftBy(j)' /\ Dirs(j.prev.version, 0, 0)'
      <4>1. RecordIn(j)' /\ Dirs(j.prev.version, 0, 0)'
        BY <1>4, <2>3 DEF RecordIn, Dirs
      <4> QED BY <1>4, <2>3, <4>1, ToggleLeft
    <3> QED BY <1>6, <2>2, <2>4, <3>1, ToggleIs DEF ToggledDisk
  <2> QED BY <1>2, <1>3, <1>5, <1>6, <2>3, <2>4
<1>7. CASE k = 2
  <2>1. Head(skillTask.steps) = "record"
    BY <1>2, <1>7, ToggleCatch
  <2>2. /\ UNCHANGED <<skillFiles, skillJournal, skillSwitch, gatewayUp, skillsUp>>
        /\ \/ skillRecord' = f /\ (Onward \/ Error)
           \/ skillRecord' = skillRecord /\ Error
    BY <1>2, <2>1, RecordIsWritten
  <2>3. ASSUME skillRecord' = f PROVE ToggledDisk(j, k + 1, f)'
    <3>1. LeftBy(j)' /\ Dirs(j.prev.version, 0, 0)'
      <4>1. RecordIn(j)' /\ Dirs(j.prev.version, 0, 0)'
        BY <1>4, <2>2, <2>3 DEF RecordIn, Dirs
      <4> QED BY <1>4, <2>2, <4>1, ToggleLeft
    <3> QED BY <1>7, <2>2, <2>3, <3>1 DEF ToggledDisk
  <2> QED BY <1>2, <1>3, <1>5, <1>7, <2>2, <2>3
<1>8. CASE k = 3
  <2>1. Head(skillTask.steps) = "finish"
    BY <1>2, <1>8, ToggleCatch
  <2>2. /\ UNCHANGED <<skillRecord, skillSwitch, gatewayUp, skillsUp>>
        /\ \/ skillJournal' = None /\ Onward /\ skillFiles' = skillFiles
           \/ UNCHANGED <<skillJournal, skillFiles>> /\ Error
    BY <2>1, FinishesIs
  <2> QED BY <1>2, <1>3, <1>5, <1>8, <2>2
<1> QED BY <1>6, <1>7, <1>8

(* A switch, and undoing one, keep the invariant. *)
LEMMA TogglingKeeps ==
  ASSUME SkillsSound, NEW j \in GoodPlans, j.action = "toggle", NEW k \in 1 .. 6,
         Toggling(j, k), SkillWorks, "sync" \notin Troubles
  PROVE  SkillsSound'
<1>1. PICK f \in {NoRecord, j.prev} : Stands("go", Course("toggle"), k, j.next, f, j) /\ TogglingDisk(j, k)
  BY DEF Toggling
<1>2. /\ UNCHANGED <<gatewayUp, skillsUp>>
      /\ \/ TogglingDisk(j, k)' /\ Error
         \/ k < 6 /\ TogglingDisk(j, k + 1)' /\ (Onward \/ Error)
         \/ /\ k = 6 /\ skillJournal' = None /\ Onward
            /\ UNCHANGED <<skillFiles, skillRecord, skillSwitch>>
  BY <1>1, TogglingGoes
<1>3. SwitchIs(j)' /\ gatewayUp' \in BOOLEAN /\ skillsUp' \in BOOLEAN
  BY <1>2 DEF SkillsSound, SkillTyped, SwitchIs
<1>4. /\ k \in 1 .. Len(Course("toggle")) /\ Course("toggle") \in Seq(StepNames)
      /\ k = 6 <=> k = Len(Course("toggle"))
      /\ "toggle" \in {"replace", "remove", "toggle"} /\ "go" \in {"go", "undo", "recover"}
  BY ToggleCourse
<1>5. Error => IF k = 1 THEN SkillOver ELSE Stands("undo", Catch("toggle"), 1, f, f, j)'
  BY <1>1, <1>4, StandsUndone
<1>6. Onward => IF k = 6 THEN SkillOver ELSE Stands("go", Course("toggle"), k + 1, j.next, f, j)'
  BY <1>1, <1>4, StandsIs
<1>7. ASSUME NEW i \in 1 .. 6, TogglingDisk(j, i)', Error, i \in {k, k + 1}
      PROVE  SkillsSound'
  <2>1. /\ SkillTyped' /\ DiskSound'
        /\ i > 1 => LeftBy(j)' /\ skillJournal' # None
    BY <1>3, <1>7, TogglingLeaves DEF SkillTyped
  <2>2. CASE k = 1
    <3>1. skillJournal' # None \/ FilesMatchRecord'
      <4>1. CASE i > 1
        BY <2>1, <4>1
      <4>2. CASE i = 1
        <5>1. Dirs(j.prev.version, 0, 0)' /\ RecordOld(j)' /\ skillSwitch' = j.prev.enabled
          BY <1>7, <4>2 DEF TogglingDisk, Dirs, RecordOld
        <5> QED BY <1>3, <5>1, UndoneMatches
      <4> QED BY <4>1, <4>2
    <3> QED BY <1>5, <1>7, <2>1, <2>2, <3>1, LeftOver
  <2>3. CASE k > 1
    <3>1. Stands("undo", Catch("toggle"), 1, f, f, j)'
      BY <1>5, <1>7, <2>3
    <3>2. ToggledDisk(j, 1, f)'
      <4>1. i > 1
        BY <1>7, <2>3
      <4> QED BY <1>7, <2>1, <4>1 DEF ToggledDisk, TogglingDisk
    <3>3. TurningBack(j, 1)'
      BY <3>1, <3>2 DEF TurningBack
    <3>4. SkillTaskSound'
      BY <1>3, <3>3 DEF SkillTaskSound
    <3> QED BY <2>1, <3>1, <3>4, StandsGoesOn
  <2> QED BY <2>2, <2>3
<1>8. CASE TogglingDisk(j, k)' /\ Error
  BY <1>7, <1>8
<1>9. CASE k < 6 /\ TogglingDisk(j, k + 1)' /\ (Onward \/ Error)
  <2>1. k + 1 \in 1 .. 6 /\ k # 6
    BY <1>9
  <2>2. CASE Error
    BY <1>7, <1>9, <2>1, <2>2
  <2>3. CASE Onward
    <3>1. Stands("go", Course("toggle"), k + 1, j.next, f, j)'
      BY <1>6, <2>1, <2>3
    <3>2. SkillTyped' /\ DiskSound'
      BY <1>3, <1>9, <2>1, TogglingLeaves DEF SkillTyped
    <3>3. Toggling(j, k + 1)'
      BY <1>9, <3>1 DEF Toggling
    <3>4. SkillTaskSound'
      BY <1>3, <2>1, <3>3 DEF SkillTaskSound
    <3> QED BY <3>1, <3>2, <3>4, StandsGoesOn
  <2> QED BY <1>9, <2>2, <2>3
<1>10. CASE /\ k = 6 /\ skillJournal' = None /\ Onward
            /\ UNCHANGED <<skillFiles, skillRecord, skillSwitch>>
  <2>1. Dirs(j.prev.version, 0, 0) /\ skillRecord = j.next /\ skillSwitch = j.next.enabled
    BY <1>1, <1>10 DEF TogglingDisk
  <2>2. SkillTyped' /\ DiskSound'
    BY <1>3, <1>10 DEF SkillsSound, SkillTyped, DiskSound
  <2>3. FilesMatchRecord'
    BY <1>10, <2>1, ToggleIs DEF FilesMatchRecord, Dirs, Target
  <2> QED BY <1>6, <1>10, <2>2, <2>3, LeftOver
<1> QED BY <1>2, <1>8, <1>9, <1>10

LEMMA TurningBackKeeps ==
  ASSUME SkillsSound, NEW j \in GoodPlans, j.action = "toggle", NEW k \in 1 .. 3,
         TurningBack(j, k), SkillWorks, "sync" \notin Troubles
  PROVE  SkillsSound'
<1>1. PICK f \in {NoRecord, j.prev} : Stands("undo", Catch("toggle"), k, f, f, j) /\ ToggledDisk(j, k, f)
  BY DEF TurningBack
<1>2. /\ UNCHANGED <<gatewayUp, skillsUp>> /\ skillSwitch' \in BOOLEAN
      /\ \/ ToggledDisk(j, k, f)' /\ SkillOver
         \/ /\ k < 3 /\ ToggledDisk(j, k + 1, f)'
            /\ SkillOver \/ Stands("undo", Catch("toggle"), k + 1, f, f, j)'
         \/ /\ k = 3 /\ skillJournal' = None /\ SkillOver
            /\ UNCHANGED <<skillFiles, skillRecord, skillSwitch>>
  BY <1>1, TurnsBack DEF SkillsSound, SkillTyped
<1>3. SwitchIs(j)' /\ gatewayUp' \in BOOLEAN /\ skillsUp' \in BOOLEAN
  BY <1>2 DEF SkillsSound, SkillTyped, SwitchIs
<1>4. CASE ToggledDisk(j, k, f)' /\ SkillOver
  BY <1>2, <1>3, <1>4, ToggledLeaves, LeftOver DEF SkillTyped
<1>5. CASE /\ k < 3 /\ ToggledDisk(j, k + 1, f)'
           /\ SkillOver \/ Stands("undo", Catch("toggle"), k + 1, f, f, j)'
  <2>1. k + 1 \in 1 .. 3
    BY <1>5
  <2>2. SkillTyped' /\ DiskSound' /\ skillJournal' # None
    BY <1>2, <1>3, <1>5, <2>1, ToggledLeaves DEF SkillTyped
  <2>3. CASE SkillOver
    BY <2>2, <2>3, LeftOver
  <2>4. CASE Stands("undo", Catch("toggle"), k + 1, f, f, j)'
    <3>1. TurningBack(j, k + 1)'
      BY <1>5, <2>4 DEF TurningBack
    <3>2. SkillTaskSound'
      BY <1>3, <2>1, <3>1 DEF SkillTaskSound
    <3> QED BY <2>2, <2>4, <3>2, StandsGoesOn
  <2> QED BY <1>5, <2>3, <2>4
<1>6. CASE /\ k = 3 /\ skillJournal' = None /\ SkillOver
           /\ UNCHANGED <<skillFiles, skillRecord, skillSwitch>>
  <2>1. Dirs(j.prev.version, 0, 0) /\ skillRecord = f /\ skillSwitch = j.prev.enabled
    BY <1>1, <1>6 DEF ToggledDisk
  <2>2. Dirs(j.prev.version, 0, 0)' /\ RecordOld(j)' /\ skillSwitch' = j.prev.enabled
    BY <1>6, <2>1 DEF Dirs, RecordOld
  <2>3. SkillTyped' /\ DiskSound'
    BY <1>2, <1>3, <1>6 DEF SkillsSound, SkillTyped, DiskSound
  <2> QED BY <1>3, <1>6, <2>2, <2>3, UndoneMatches, LeftOver
<1> QED BY <1>2, <1>4, <1>5, <1>6

(* The journal of a recovery is the plan itself, in the phase that it says. *)
LEMMA JournalIsPlan ==
  ASSUME NEW j \in GoodPlans, skillJournal = j, LeftBy(j)
  PROVE  j = Phase(j, j.phase) /\ j.phase \in SkillPhases /\ Lies(j, j.phase)
<1>1. PICK phase \in SkillPhases : j = Phase(j, phase) /\ Lies(j, phase)
  BY DEF LeftBy
<1>2. j.phase = phase
  BY <1>1, PlanPhase
<1> QED BY <1>1, <1>2

LEMMA RecoveredLeft ==
  ASSUME NEW j \in GoodPlans, j = Phase(j, j.phase), j.phase \in SkillPhases, skillJournal' = j,
         Lies(j, j.phase)'
  PROVE  LeftBy(j)'
<1>1. \E phase \in SkillPhases : skillJournal' = Phase(j, phase) /\ Lies(j, phase)'
  <2>1. skillJournal' = Phase(j, j.phase)
    OBVIOUS
  <2> QED BY <2>1
<1> QED BY <1>1 DEF LeftBy

(* What a recovery leaves is of the right kind. *)
LEMMA LeftTyped ==
  ASSUME NEW j \in GoodPlans, LeftBy(j)'
  PROVE  /\ skillRecord' \in CleanRecords /\ DiskSound' /\ skillJournal' # None
<1>1. RecordIn(j)'
  BY DEF LeftBy, Lies
<1> QED BY <1>1, PlanIs, NoRecordIsClean, LeftIsThere DEF RecordIn

(* A recovery that goes on has another step behind it. *)
LEMMA ForwardLeft ==
  ASSUME NEW j \in GoodPlans, j = Phase(j, j.phase), j.phase \in SkillPhases, skillJournal' = j,
         \/ /\ j.action = "replace" /\ j.phase \in {"staged", "backed-up", "replaced", "verified"}
            /\ skillSwitch' = j.next.enabled
         \/ j.action = "remove" /\ j.phase \in {"committed", "committed-final"},
         Dirs(j.next.version, 0, 0)' \/ Dirs(j.next.version, 0, j.prev.version)',
         skillRecord' = j.next, SwitchIs(j)'
  PROVE  LeftBy(j)'
<1>1. CASE j.action = "replace"
  <2>1. /\ skillSwitch' = j.next.enabled /\ j.phase \in {"staged", "backed-up", "replaced", "verified"}
    BY <1>1
  <2>2. ReplaceLies(j, j.phase)'
    BY <2>1 DEF ReplaceLies
  <2>3. Lies(j, j.phase)'
    BY <1>1, <2>2 DEF Lies, RecordIn
  <2> QED BY <2>3, RecoveredLeft
<1>2. CASE j.action = "remove"
  <2>1. j.next = NoRecord /\ j.phase \in {"committed", "committed-final"} /\ NoRecord.version = 0
    BY <1>2, RemovalIs DEF NoRecord
  <2>2. RemoveLies(j, j.phase)'
    BY <2>1 DEF RemoveLies
  <2>3. Lies(j, j.phase)'
    BY <1>2, <2>2 DEF Lies, RecordIn
  <2> QED BY <2>3, RecoveredLeft
<1> QED BY <1>1, <1>2

(* A recovery that goes on takes its next step. *)
LEMMA Completes ==
  ASSUME NEW j \in GoodPlans, NEW k \in 1 .. 3, Stands("recover", Forwards, k, j.next, j.next, j),
         ForwardDisk(j, k), SwitchIs(j), SkillWorks, "sync" \notin Troubles, "recovery" \notin Troubles
  PROVE  /\ UNCHANGED <<skillSwitch, gatewayUp, skillsUp>>
         /\ \/ ForwardDisk(j, k)' /\ SkillOver
            \/ /\ k < 3 /\ ForwardDisk(j, k + 1)'
               /\ SkillOver \/ Stands("recover", Forwards, k + 1, j.next, j.next, j)'
            \/ /\ k = 3 /\ skillJournal' = None /\ SkillOver
               /\ Dirs(j.next.version, 0, 0)' /\ skillRecord' = skillRecord
<1> DEFINE p == j.prev.version
           n == j.next.version
<1>1. /\ k \in 1 .. Len(Forwards) /\ Forwards \in Seq(StepNames) /\ Len(Forwards) = 3
      /\ "recover" \in {"undo", "recover"} /\ "recover" \in {"go", "undo", "recover"}
  BY RecoveryCourses
<1>2. /\ Head(skillTask.steps) = Forwards[k] /\ skillTask.journal = j /\ skillTask.record = j.next
      /\ Onward => IF k = 3 THEN SkillOver ELSE Stands("recover", Forwards, k + 1, j.next, j.next, j)'
  <2>1. /\ Head(skillTask.steps) = Forwards[k] /\ skillTask.journal = j /\ skillTask.record = j.next
        /\ Onward => IF k = Len(Forwards) THEN SkillOver
                     ELSE Stands("recover", Forwards, k + 1, j.next, j.next, j)'
    <3>1. PICK c : c = Forwards
      OBVIOUS
    <3>2. PICK r : r = j.next
      OBVIOUS
    <3>3. Stands("recover", c, k, r, r, j) /\ k \in 1 .. Len(c) /\ c \in Seq(StepNames)
      BY <1>1, <3>1, <3>2
    <3>4. /\ Head(skillTask.steps) = c[k] /\ skillTask.journal = j /\ skillTask.record = r
          /\ Onward => IF k = Len(c) THEN SkillOver
                       ELSE Stands("recover", c, k + 1, r, r, j)'
      BY <1>1, <3>3, StandsIs
    <3> QED BY <3>1, <3>2, <3>4
  <2> QED BY <1>1, <2>1
<1>3. Error => SkillOver
  BY <1>1, StandsIs
<1>4. /\ j = Phase(j, j.phase) /\ j.phase \in SkillPhases
      /\ skillJournal = j /\ LeftBy(j)
  BY JournalIsPlan DEF ForwardDisk
<1>5. UNCHANGED <<skillFiles, skillRecord, skillJournal, skillSwitch>> => ForwardDisk(j, k)'
  BY LeftStays DEF ForwardDisk, Dirs
<1>6. ASSUME UNCHANGED <<skillJournal, skillSwitch>>, skillRecord' = j.next,
             Dirs(n, 0, 0)' \/ (k = 1 /\ Dirs(n, 0, p)'), k < 3
      PROVE  ForwardDisk(j, k + 1)'
  <2>1. SwitchIs(j)'
    BY <1>6 DEF SwitchIs
  <2>2. LeftBy(j)'
    <3>1. skillJournal' = j /\ skillRecord' = j.next
      BY <1>4, <1>6
    <3>2. \/ /\ j.action = "replace" /\ j.phase \in {"staged", "backed-up", "replaced", "verified"}
             /\ skillSwitch' = j.next.enabled
          \/ j.action = "remove" /\ j.phase \in {"committed", "committed-final"}
      BY <1>6 DEF ForwardDisk
    <3>3. Dirs(n, 0, 0)' \/ Dirs(n, 0, p)'
      BY <1>6
    <3> QED BY <1>4, <2>1, <3>1, <3>2, <3>3, ForwardLeft
  <2> QED BY <1>4, <1>6, <2>2 DEF ForwardDisk
<1>7. CASE k = 1
  <2>1. Head(skillTask.steps) = "record"
    BY <1>2, <1>7, RecoveryCourses
  <2>2. /\ UNCHANGED <<skillFiles, skillJournal, skillSwitch, gatewayUp, skillsUp>>
        /\ \/ skillRecord' = j.next /\ (Onward \/ Error)
           \/ skillRecord' = skillRecord /\ Error
    BY <1>2, <2>1, RecordIsWritten
  <2>3. Dirs(n, 0, 0)' \/ Dirs(n, 0, p)'
    BY <2>2 DEF ForwardDisk, Dirs
  <2> QED BY <1>2, <1>3, <1>5, <1>6, <1>7, <2>2, <2>3
<1>8. CASE k = 2
  <2>1. Head(skillTask.steps) = "drop"
    BY <1>2, <1>8, RecoveryCourses
  <2>2. UNCHANGED <<skillRecord, skillJournal, skillSwitch, gatewayUp, skillsUp>>
    BY <2>1, MovesStep
  <2>3. \/ skillFiles' = [skillFiles EXCEPT !["backup"] = 0] /\ (Onward \/ Error)
        \/ skillFiles' = skillFiles /\ Error
    BY <2>1, RemovesIs
  <2>4. skillFiles' = [skillFiles EXCEPT !["backup"] = 0] => Dirs(n, 0, 0)'
    BY DirsChanged DEF ForwardDisk
  <2>5. skillRecord' = j.next
    BY <1>8, <2>2 DEF ForwardDisk
  <2> QED BY <1>2, <1>3, <1>5, <1>6, <1>8, <2>2, <2>3, <2>4, <2>5
<1>9. CASE k = 3
  <2>1. Head(skillTask.steps) = "clear"
    BY <1>2, <1>9, RecoveryCourses
  <2>2. /\ UNCHANGED <<skillRecord, skillSwitch, gatewayUp, skillsUp>>
        /\ \/ /\ skillJournal' = None /\ Onward
              /\ skillFiles' = [skillFiles EXCEPT !.staging = 0]
           \/ UNCHANGED <<skillJournal, skillFiles>> /\ Error
    BY <2>1, FinishesIs
  <2>3. Dirs(n, 0, 0)
    BY <1>9 DEF ForwardDisk
  <2>4. skillFiles' = [skillFiles EXCEPT !.staging = 0] => Dirs(n, 0, 0)'
    BY <2>3, DirsChanged
  <2> QED BY <1>2, <1>3, <1>5, <1>9, <2>2, <2>4
<1> QED BY <1>7, <1>8, <1>9

(* A recovery that goes on keeps the invariant. *)
LEMMA CompletingKeeps ==
  ASSUME SkillsSound, NEW j \in GoodPlans, SwitchIs(j), NEW k \in 1 .. 3,
         Completing(j, k), SkillWorks, "sync" \notin Troubles, "recovery" \notin Troubles
  PROVE  SkillsSound'
<1>1. Stands("recover", Forwards, k, j.next, j.next, j) /\ ForwardDisk(j, k)
  BY DEF Completing
<1>2. /\ UNCHANGED <<skillSwitch, gatewayUp, skillsUp>>
      /\ \/ ForwardDisk(j, k)' /\ SkillOver
         \/ /\ k < 3 /\ ForwardDisk(j, k + 1)'
            /\ SkillOver \/ Stands("recover", Forwards, k + 1, j.next, j.next, j)'
         \/ /\ k = 3 /\ skillJournal' = None /\ SkillOver
            /\ Dirs(j.next.version, 0, 0)' /\ skillRecord' = skillRecord
  BY <1>1, Completes
<1>3. SwitchIs(j)' /\ skillSwitch' \in BOOLEAN /\ gatewayUp' \in BOOLEAN /\ skillsUp' \in BOOLEAN
  BY <1>2 DEF SkillsSound, SkillTyped, SwitchIs
<1>4. j.prev.version \in Versions /\ j.next.version \in Versions /\ 0 \in Versions
  BY PlanIs, CapabilityAssumption DEF Versions
<1>5. ASSUME NEW i \in 1 .. 3, ForwardDisk(j, i)' PROVE SkillTyped' /\ DiskSound' /\ skillJournal' # None
  <2>1. LeftBy(j)' /\ (Dirs(j.next.version, 0, 0)' \/ Dirs(j.next.version, 0, j.prev.version)')
    BY <1>5 DEF ForwardDisk
  <2>2. skillFiles' \in [target : Versions, staging : Versions, backup : Versions]
    BY <1>4, <2>1, DirsTyped
  <2> QED BY <1>3, <2>1, <2>2, LeftTyped DEF SkillTyped
<1>6. CASE ForwardDisk(j, k)' /\ SkillOver
  BY <1>5, <1>6, LeftOver
<1>7. CASE /\ k < 3 /\ ForwardDisk(j, k + 1)'
           /\ SkillOver \/ Stands("recover", Forwards, k + 1, j.next, j.next, j)'
  <2>1. k + 1 \in 1 .. 3
    BY <1>7
  <2>2. SkillTyped' /\ DiskSound' /\ skillJournal' # None
    BY <1>5, <1>7, <2>1
  <2>3. CASE SkillOver
    BY <2>2, <2>3, LeftOver
  <2>4. CASE Stands("recover", Forwards, k + 1, j.next, j.next, j)'
    <3>1. Completing(j, k + 1)'
      BY <1>7, <2>4 DEF Completing
    <3>2. SkillTaskSound'
      BY <1>3, <2>1, <3>1 DEF SkillTaskSound
    <3>3. Forwards' = Forwards
      BY DEF Forwards, Cleared
    <3> QED BY <2>2, <2>4, <3>2, <3>3, StandsGoesOn
  <2> QED BY <1>7, <2>3, <2>4
<1>8. CASE /\ k = 3 /\ skillJournal' = None /\ SkillOver
           /\ Dirs(j.next.version, 0, 0)' /\ skillRecord' = skillRecord
  <2>1. skillRecord' = j.next /\ (j.next = NoRecord \/ skillSwitch' = j.next.enabled)
    BY <1>1, <1>2, <1>8, RemovalIs DEF ForwardDisk
  <2>2. skillFiles' \in [target : Versions, staging : Versions, backup : Versions]
    BY <1>4, <1>8, DirsTyped
  <2>3. SkillTyped' /\ DiskSound'
    BY <1>3, <1>8, <2>2 DEF SkillsSound, SkillTyped, DiskSound
  <2>4. FilesMatchRecord'
    BY <1>8, <2>1 DEF FilesMatchRecord, Dirs, Target, NoRecord
  <2> QED BY <1>8, <2>3, <2>4, LeftOver
<1> QED BY <1>2, <1>6, <1>7, <1>8

(* The plan of a directory that goes back to the version it was: the same one, if both are. *)
LEMMA SameVersion ==
  ASSUME NEW j \in GoodPlans, j.action = "replace", j.prev.version = j.next.version
  PROVE  j.prev = j.next
<1>1. j.prev.version # 0 /\ j.next.enabled = j.prev.enabled
  BY DEF GoodPlans
<1>2. j.prev \in CleanRecords /\ j.next \in CleanRecords
  BY PlanIs
<1>3. j.prev \in Records /\ j.next \in Records
  BY <1>2 DEF CleanRecords
<1> QED BY <1>1, <1>3 DEF Records

(* What a recovery that goes back may find and leave, so that the next one knows. *)
LEMMA BackLeft ==
  ASSUME NEW j \in GoodPlans, j = Phase(j, j.phase), j.phase \in SkillPhases, skillJournal' = j,
         LeftBy(j), skillJournal = j, j.action \in {"replace", "remove"},
         j.phase \in {"prepared", "staged", "backed-up", "replaced", "rolling-back"},
         NEW s \in (IF j.action = "replace" THEN {0, j.next.version} ELSE {0}),
         SwitchIs(j)', RecordIn(j)',
         \/ Dirs(0, s, j.prev.version)' /\ Dirs(0, s, j.prev.version)
         \/ Dirs(0, s, j.prev.version)' /\ (j.prev.version = 0 \/ (j.action = "replace" /\ j.phase \in {"prepared", "rolling-back"}))
         \/ Dirs(j.prev.version, s, 0)' /\ Dirs(0, s, j.prev.version)
         \/ Dirs(j.prev.version, s, 0)' /\ Dirs(j.prev.version, s, 0) /\ (skillRecord' = skillRecord \/ skillRecord' = j.prev)
  PROVE  LeftBy(j)'
<1> DEFINE p == j.prev.version
           n == j.next.version
<1>1. Lies(j, j.phase)
  BY JournalIsPlan
<1>2. CASE j.action = "remove"
  <2>1. RemoveLies(j, j.phase) /\ s = 0 /\ p # 0
    BY <1>1, <1>2, RemovalIs DEF Lies
  <2>2. j.phase \in {"staged", "backed-up", "rolling-back"}
    BY <2>1 DEF RemoveLies
  <2>3. Dirs(p, 0, 0)' \/ Dirs(0, 0, p)'
    BY <1>2, <2>1
  <2>4. Lies(j, j.phase)'
    BY <1>2, <2>2, <2>3 DEF Lies, RemoveLies
  <2> QED BY <2>4, RecoveredLeft
<1>3. CASE j.action = "replace"
  <2>1. ReplaceLies(j, j.phase) /\ s \in {0, n} /\ n # 0
    BY <1>1, <1>3 DEF Lies, GoodPlans
  <2>2. CASE j.phase \in {"prepared", "rolling-back"}
    <3>1. Dirs(p, s, 0)' \/ Dirs(0, s, p)'
      OBVIOUS
    <3>2. ReplaceLies(j, j.phase)'
      BY <2>1, <2>2, <3>1 DEF ReplaceLies
    <3>3. Lies(j, j.phase)'
      BY <1>3, <3>2 DEF Lies
    <3> QED BY <3>3, RecoveredLeft
  <2>3. CASE j.phase \in {"staged", "backed-up", "replaced"}
    <3>1. \/ Dirs(n, 0, p) \/ Dirs(p, n, 0) \/ Dirs(0, n, p)
          \/ Dirs(n, 0, 0) /\ skillRecord = j.next
          \/ Dirs(0, 0, 0) /\ p = 0
      BY <2>1, <2>3 DEF ReplaceLies
    <3>2. \/ Dirs(p, n, 0)' \/ Dirs(0, n, p)'
          \/ Dirs(n, 0, 0)' /\ skillRecord' = j.next
          \/ Dirs(0, 0, 0)' /\ p = 0
      <4>1. CASE s = n
        BY <4>1
      <4>2. CASE s = 0 /\ p = 0
        BY <4>2
      <4>3. CASE s = 0 /\ p # 0
        <5>1. ~Dirs(0, s, p)
          <6>1. SUFFICES ASSUME Dirs(0, 0, p) PROVE FALSE
            BY <4>3
          <6> QED BY <2>1, <3>1, <4>3, <6>1 DEF Dirs
        <5>2. /\ Dirs(p, s, 0)' /\ Dirs(p, s, 0) /\ (skillRecord' = skillRecord \/ skillRecord' = j.prev)
          BY <2>3, <4>3, <5>1
        <5>3. p = n /\ skillRecord = j.next
          BY <2>1, <3>1, <4>3, <5>2 DEF Dirs
        <5>4. j.prev = j.next
          BY <1>3, <5>3, SameVersion
        <5> QED BY <4>3, <5>2, <5>3, <5>4
      <4> QED BY <2>1, <4>1, <4>2, <4>3
    <3>3. ReplaceLies(j, j.phase)'
      BY <2>3, <3>2 DEF ReplaceLies
    <3>4. Lies(j, j.phase)'
      BY <1>3, <3>3 DEF Lies
    <3> QED BY <3>4, RecoveredLeft
  <2> QED BY <2>2, <2>3
<1> QED BY <1>2, <1>3

(* A recovery that goes back takes its next step. *)
LEMMA GoesBack ==
  ASSUME NEW j \in GoodPlans, NEW k \in 1 .. 4, NEW b \in BOOLEAN, NEW x \in BOOLEAN,
         skillTask = Task("recover", Backwards, k, j.prev, j.prev, b, x, j),
         BackDisk(j, k, b, x), SwitchIs(j), SkillWorks, "sync" \notin Troubles, "recovery" \notin Troubles
  PROVE  /\ UNCHANGED <<skillSwitch, gatewayUp, skillsUp>>
         /\ \/ BackDisk(j, k, b, x)' /\ SkillOver
            \/ /\ k < 4 /\ BackDisk(j, k + 1, b, x)'
               /\ \/ SkillOver
                  \/ skillTask' = Task("recover", Backwards, k + 1, j.prev, j.prev, b, x, j)
            \/ /\ k = 4 /\ skillJournal' = None /\ SkillOver
               /\ Dirs(j.prev.version, 0, 0)' /\ skillRecord' = j.prev
<1> DEFINE p == j.prev.version
           n == j.next.version
           S == IF j.action = "replace" THEN {0, n} ELSE {0}
           Is(i) == Task("recover", Backwards, i, j.prev, j.prev, b, x, j)
<1>1. /\ k \in 1 .. Len(Backwards) /\ Backwards \in Seq(StepNames) /\ Len(Backwards) = 4
      /\ "recover" \in {"undo", "recover"} /\ "recover" \in {"go", "undo", "recover"}
  BY RecoveryCourses
<1>2. /\ Head(skillTask.steps) = Backwards[k] /\ skillTask.journal = j /\ skillTask.record = j.prev
      /\ skillTask.backedUp = b /\ skillTask.replaced = x
      /\ Onward => IF k = 4 THEN SkillOver ELSE skillTask' = Is(k + 1)
  <2>1. PICK c : c = Backwards
    OBVIOUS
  <2>2. PICK r : r = j.prev
    OBVIOUS
  <2>3. skillTask = Task("recover", c, k, r, r, b, x, j) /\ k \in 1 .. Len(c) /\ c \in Seq(StepNames)
    BY <1>1, <2>1, <2>2
  <2>4. /\ Head(skillTask.steps) = c[k] /\ skillTask.journal = j /\ skillTask.record = r
        /\ skillTask.backedUp = b /\ skillTask.replaced = x
        /\ Onward => IF k = Len(c) THEN SkillOver ELSE skillTask' = Task("recover", c, k + 1, r, r, b, x, j)
    BY <1>1, <2>3, TaskIs
  <2> QED BY <1>1, <2>1, <2>2, <2>4
<1>3. Error => SkillOver
  <2>1. PICK r : r = j.prev
    OBVIOUS
  <2>2. PICK c : c = Backwards
    OBVIOUS
  <2>3. skillTask = Task("recover", c, k, r, r, b, x, j)
    BY <2>1, <2>2
  <2> QED BY <1>1, <2>3, ErrorIsLeft
<1>4. /\ j = Phase(j, j.phase) /\ j.phase \in SkillPhases /\ skillJournal = j /\ LeftBy(j)
      /\ j.action \in {"replace", "remove"}
      /\ j.phase \in {"prepared", "staged", "backed-up", "replaced", "rolling-back"}
      /\ Lies(j, j.phase) /\ RecordIn(j)
  <2>1. j = Phase(j, j.phase) /\ j.phase \in SkillPhases /\ skillJournal = j /\ LeftBy(j) /\ Lies(j, j.phase)
    BY JournalIsPlan DEF BackDisk
  <2> QED BY <2>1 DEF BackDisk, Lies
<1>5. UNCHANGED <<skillFiles, skillRecord, skillJournal, skillSwitch>> => BackDisk(j, k, b, x)'
  BY LeftStays DEF BackDisk, Dirs
<1>6. PICK s \in S :
        IF b /\ k <= 2
        THEN \/ Dirs(0, s, p)
             \/ k = 1 /\ Dirs(n, s, p) /\ (p = 0 \/ j.phase \in {"prepared", "rolling-back"})
        ELSE Dirs(p, s, 0)
  BY DEF BackDisk
<1>7. (k <= 2 => x = b) /\ (k = 4 => skillRecord = j.prev)
  BY DEF BackDisk
<1>8. CASE k = 1
  <2>1. Head(skillTask.steps) = "withdraw"
    BY <1>2, <1>8, RecoveryCourses
  <2>2. UNCHANGED <<skillRecord, skillJournal, skillSwitch, gatewayUp, skillsUp>>
    BY <2>1, MovesStep
  <2>3. IF b THEN \/ skillFiles' = [skillFiles EXCEPT !.target = 0] /\ (Onward \/ Error)
                  \/ skillFiles' = skillFiles /\ Error
        ELSE skillFiles' = skillFiles /\ Onward
    <3>1. b <=> skillTask.replaced
      BY <1>2, <1>7, <1>8
    <3> QED BY <2>1, <3>1, WithdrawsIs
  <2>4. RecordIn(j)' /\ SwitchIs(j)' /\ skillJournal' = j
    BY <1>4, <2>2 DEF RecordIn, SwitchIs
  <2>5. CASE b /\ skillFiles' = [skillFiles EXCEPT !.target = 0] /\ (Onward \/ Error)
    <3>1. Dirs(0, s, p)'
      <4>1. Dirs(0, s, p) \/ Dirs(n, s, p)
        BY <1>6, <1>8, <2>5
      <4>2. skillFiles' = [skillFiles EXCEPT !.target = 0]
        BY <2>5
      <4> QED BY <4>1, <4>2 DEF Dirs
    <3>2. LeftBy(j)'
      <4>1. CASE Dirs(0, s, p)
        BY <1>4, <2>4, <3>1, <4>1, BackLeft
      <4>2. CASE Dirs(n, s, p) /\ (p = 0 \/ j.phase \in {"prepared", "rolling-back"})
        <5>1. CASE j.action = "replace"
          BY <1>4, <2>4, <3>1, <4>2, <5>1, BackLeft
        <5>2. CASE j.action = "remove"
          <6>1. n = 0
            BY <5>2, RemovalIs DEF NoRecord
          <6> QED BY <1>4, <2>4, <3>1, <4>2, <6>1, BackLeft
        <5> QED BY <1>4, <5>1, <5>2
      <4> QED BY <1>6, <1>8, <2>5, <4>1, <4>2
    <3>3. k < 4 /\ BackDisk(j, k + 1, b, x)'
      BY <1>4, <1>7, <1>8, <2>4, <2>5, <3>1, <3>2 DEF BackDisk
    <3> QED BY <1>2, <1>3, <1>8, <2>2, <2>5, <3>3
  <2>6. CASE skillFiles' = skillFiles /\ Error
    BY <1>3, <1>5, <2>2, <2>6
  <2>7. CASE ~b /\ skillFiles' = skillFiles /\ Onward
    <3>1. Dirs(p, s, 0)'
      BY <1>6, <2>7 DEF Dirs
    <3>2. LeftBy(j)'
      BY <1>4, <2>2, <2>7, LeftStays
    <3>3. k < 4 /\ BackDisk(j, k + 1, b, x)'
      BY <1>4, <1>7, <1>8, <2>4, <2>7, <3>1, <3>2 DEF BackDisk
    <3> QED BY <1>2, <1>8, <2>2, <2>7, <3>3
  <2> QED BY <2>3, <2>5, <2>6, <2>7
<1>9. CASE k = 2
  <2>1. Head(skillTask.steps) = "restore"
    BY <1>2, <1>9, RecoveryCourses
  <2>2. UNCHANGED <<skillRecord, skillJournal, skillSwitch, gatewayUp, skillsUp>>
    BY <2>1, MovesStep
  <2>3. IF b THEN Dirs(0, s, p) ELSE Dirs(p, s, 0)
    BY <1>6, <1>9
  <2>4. RecordIn(j)' /\ SwitchIs(j)' /\ skillJournal' = j
    BY <1>4, <2>2 DEF RecordIn, SwitchIs
  <2>5. ASSUME Dirs(p, s, 0)', LeftBy(j)' PROVE k < 4 /\ k # 4 /\ BackDisk(j, k + 1, b, x)'
    BY <1>4, <1>9, <2>4, <2>5 DEF BackDisk
  <2>6. CASE b /\ p # 0
    <3>1. (skillTask.backedUp \/ skillTask.journal.action = "remove") /\ skillFiles.backup # 0 /\ Target = 0
      <4>1. Dirs(0, s, p)
        BY <2>3, <2>6
      <4>2. skillFiles.backup # 0 /\ Target = 0
        BY <2>6, <4>1 DEF Dirs, Target
      <4> QED BY <1>2, <2>6, <4>2
    <3>2. Moved("backup", "target", "backedUp") \/ (skillFiles' = skillFiles /\ Error)
      BY <2>1, <3>1, RestoresIs
    <3>3. CASE Moved("backup", "target", "backedUp")
      <4>1. Dirs(p, s, 0)'
        <5>1. Dirs(0, s, p)
          BY <2>3, <2>6
        <5>2. skillFiles' = [skillFiles EXCEPT !["target"] = skillFiles["backup"], !["backup"] = 0]
          BY <3>3 DEF Moved
        <5> QED BY <5>1, <5>2 DEF Dirs
      <4>2. LeftBy(j)'
        BY <1>4, <2>3, <2>4, <2>6, <4>1, BackLeft
      <4>3. skillTask' = Is(k + 1)
        <5>1. PICK c : c = Backwards
          OBVIOUS
        <5>2. PICK r : r = j.prev
          OBVIOUS
        <5>3. /\ skillTask = Task("recover", c, k, r, r, b, x, j) /\ k \in 1 .. Len(c) /\ c \in Seq(StepNames)
              /\ k < Len(c)
          <6>1. skillTask = Task("recover", c, k, r, r, b, x, j)
            BY <5>1, <5>2
          <6>2. k \in 1 .. Len(c) /\ c \in Seq(StepNames) /\ Len(c) = 4
            BY <1>1, <5>1
          <6>3. k < 4
            BY <1>9
          <6> QED BY <6>1, <6>2, <6>3
        <5>4. skillTask' = Task("recover", c, k + 1, r, r, TRUE, x, j)
          BY <1>1, <3>3, <5>3, BackedUpOn
        <5>5. b = TRUE
          BY <2>6
        <5> QED BY <5>1, <5>2, <5>4, <5>5
      <4> QED BY <2>2, <2>5, <4>1, <4>2, <4>3
    <3>4. CASE skillFiles' = skillFiles /\ Error
      BY <1>3, <1>5, <2>2, <3>4
    <3> QED BY <3>2, <3>3, <3>4
  <2>7. CASE ~(b /\ p # 0)
    <3>1. Dirs(p, s, 0)
      BY <2>3, <2>7
    <3>2. ~((skillTask.backedUp \/ skillTask.journal.action = "remove") /\ skillFiles.backup # 0 /\ Target = 0)
      BY <3>1, DirsAre
    <3>3. skillFiles' = skillFiles /\ Onward
      BY <2>1, <3>2, RestoresIs
    <3>4. Dirs(p, s, 0)' /\ LeftBy(j)'
      BY <1>4, <2>2, <3>1, <3>3, LeftStays DEF Dirs
    <3> QED BY <1>2, <2>2, <2>5, <3>3, <3>4
  <2> QED BY <2>6, <2>7
<1>10. CASE k = 3
  <2>1. Head(skillTask.steps) = "record"
    BY <1>2, <1>10, RecoveryCourses
  <2>2. /\ UNCHANGED <<skillFiles, skillJournal, skillSwitch, gatewayUp, skillsUp>>
        /\ \/ skillRecord' = j.prev /\ (Onward \/ Error)
           \/ skillRecord' = skillRecord /\ Error
    BY <1>2, <2>1, RecordIsWritten
  <2>3. Dirs(p, s, 0) /\ Dirs(p, s, 0)'
    BY <1>6, <1>10, <2>2 DEF Dirs
  <2>4. CASE skillRecord' = j.prev /\ (Onward \/ Error)
    <3>1. RecordIn(j)' /\ SwitchIs(j)' /\ skillJournal' = j
      BY <1>4, <2>2, <2>4 DEF RecordIn, SwitchIs
    <3>2. LeftBy(j)'
      BY <1>4, <2>3, <2>4, <3>1, BackLeft
    <3>3. k < 4 /\ k # 4 /\ BackDisk(j, k + 1, b, x)'
      BY <1>4, <1>10, <2>3, <2>4, <3>1, <3>2 DEF BackDisk
    <3> QED BY <1>2, <1>3, <2>2, <2>4, <3>3
  <2>5. CASE skillRecord' = skillRecord /\ Error
    BY <1>3, <1>5, <2>2, <2>5
  <2> QED BY <2>2, <2>4, <2>5
<1>11. CASE k = 4
  <2>1. Head(skillTask.steps) = "clear"
    BY <1>2, <1>11, RecoveryCourses
  <2>2. /\ UNCHANGED <<skillRecord, skillSwitch, gatewayUp, skillsUp>>
        /\ \/ /\ skillJournal' = None /\ Onward
              /\ skillFiles' = [skillFiles EXCEPT !.staging = 0]
           \/ UNCHANGED <<skillJournal, skillFiles>> /\ Error
    BY <2>1, FinishesIs
  <2>3. Dirs(p, s, 0)
    BY <1>6, <1>11
  <2>4. skillFiles' = [skillFiles EXCEPT !.staging = 0] => Dirs(p, 0, 0)'
    BY <2>3, DirsChanged
  <2> QED BY <1>2, <1>3, <1>5, <1>7, <1>11, <2>2, <2>4
<1> QED BY <1>8, <1>9, <1>10, <1>11

(* A recovery that goes back, and one that believes OpenClaw, keep the invariant. *)
LEMMA GoingBackKeeps ==
  ASSUME SkillsSound, NEW j \in GoodPlans, SwitchIs(j), NEW k \in 1 .. 4,
         GoingBack(j, k), SkillWorks, "sync" \notin Troubles, "recovery" \notin Troubles
  PROVE  SkillsSound'
<1>1. PICK b \in BOOLEAN, x \in BOOLEAN :
        /\ skillTask = Task("recover", Backwards, k, j.prev, j.prev, b, x, j)
        /\ BackDisk(j, k, b, x)
  BY DEF GoingBack
<1>2. /\ UNCHANGED <<skillSwitch, gatewayUp, skillsUp>>
      /\ \/ BackDisk(j, k, b, x)' /\ SkillOver
         \/ /\ k < 4 /\ BackDisk(j, k + 1, b, x)'
            /\ \/ SkillOver
               \/ skillTask' = Task("recover", Backwards, k + 1, j.prev, j.prev, b, x, j)
         \/ /\ k = 4 /\ skillJournal' = None /\ SkillOver
            /\ Dirs(j.prev.version, 0, 0)' /\ skillRecord' = j.prev
  BY <1>1, GoesBack
<1>3. SwitchIs(j)' /\ skillSwitch' \in BOOLEAN /\ gatewayUp' \in BOOLEAN /\ skillsUp' \in BOOLEAN
  BY <1>2 DEF SkillsSound, SkillTyped, SwitchIs
<1>4. j.prev.version \in Versions /\ j.next.version \in Versions /\ 0 \in Versions /\ j.prev \in CleanRecords
  BY PlanIs, CapabilityAssumption DEF Versions
<1>5. ASSUME NEW i \in 1 .. 4, BackDisk(j, i, b, x)' PROVE SkillTyped' /\ DiskSound' /\ skillJournal' # None
  <2>1. LeftBy(j)'
    BY <1>5 DEF BackDisk
  <2>2. \E s \in {0, j.next.version} :
          \/ Dirs(0, s, j.prev.version)' \/ Dirs(j.next.version, s, j.prev.version)'
          \/ Dirs(j.prev.version, s, 0)'
    BY <1>5 DEF BackDisk
  <2>3. skillFiles' \in [target : Versions, staging : Versions, backup : Versions]
    BY <1>4, <2>2, DirsTyped
  <2> QED BY <1>3, <2>1, <2>3, LeftTyped DEF SkillTyped
<1>6. CASE BackDisk(j, k, b, x)' /\ SkillOver
  BY <1>5, <1>6, LeftOver
<1>7. CASE /\ k < 4 /\ BackDisk(j, k + 1, b, x)'
           /\ \/ SkillOver
              \/ skillTask' = Task("recover", Backwards, k + 1, j.prev, j.prev, b, x, j)
  <2>1. k + 1 \in 1 .. 4
    BY <1>7
  <2>2. SkillTyped' /\ DiskSound' /\ skillJournal' # None
    BY <1>5, <1>7, <2>1
  <2>3. CASE SkillOver
    BY <2>2, <2>3, LeftOver
  <2>4. CASE skillTask' = Task("recover", Backwards, k + 1, j.prev, j.prev, b, x, j)
    <3>1. Backwards' = Backwards
      BY DEF Backwards, Cleared
    <3>2. GoingBack(j, k + 1)'
      BY <1>7, <2>4, <3>1 DEF GoingBack, Task, Rest
    <3>3. SkillTaskSound'
      BY <1>3, <2>1, <3>2 DEF SkillTaskSound
    <3>4. PICK c : c = Backwards
      OBVIOUS
    <3>5. PICK r : r = j.prev
      OBVIOUS
    <3>6. skillTask' = Task("recover", c, k + 1, r, r, b, x, j)
      BY <2>4, <3>4, <3>5
    <3> QED BY <2>2, <3>3, <3>6, GoesOn
  <2> QED BY <1>7, <2>3, <2>4
<1>8. CASE /\ k = 4 /\ skillJournal' = None /\ SkillOver
           /\ Dirs(j.prev.version, 0, 0)' /\ skillRecord' = j.prev
  <2>1. j.action # "toggle"
    BY <1>1 DEF BackDisk
  <2>2. RecordOld(j)'
    BY <1>8 DEF RecordOld
  <2>3. FilesMatchRecord'
    BY <1>3, <1>8, <2>1, <2>2, UndoneMatches
  <2>4. skillFiles' \in [target : Versions, staging : Versions, backup : Versions]
    BY <1>4, <1>8, DirsTyped
  <2>5. SkillTyped' /\ DiskSound'
    BY <1>3, <1>4, <1>8, <2>4 DEF SkillTyped, DiskSound
  <2> QED BY <1>8, <2>3, <2>5, LeftOver
<1> QED BY <1>2, <1>6, <1>7, <1>8

LEMMA SwitchingKeeps ==
  ASSUME SkillsSound, NEW j \in GoodPlans, NEW k \in 1 .. 2,
         Switching(j, k), SkillWorks, "sync" \notin Troubles, "recovery" \notin Troubles
  PROVE  SkillsSound'
<1>1. PICK r \in {j.prev, j.next} :
        /\ j.action = "toggle" /\ r.enabled = skillSwitch
        /\ Stands("recover", <<"record", "finish">>, k, r, r, j)
        /\ skillJournal = j /\ LeftBy(j)
        /\ k = 2 => skillRecord = r
  BY DEF Switching
<1>2. PICK c : c = <<"record", "finish">>
  OBVIOUS
<1>3. /\ c \in Seq(StepNames) /\ Len(c) = 2 /\ c[1] = "record" /\ c[2] = "finish"
      /\ k \in 1 .. Len(c) /\ "recover" \in {"go", "undo", "recover"}
  <2>1. /\ c \in Seq(StepNames) /\ Len(c) = 2 /\ c[1] = "record" /\ c[2] = "finish"
    BY <1>2, RecoveryCourses
  <2> QED BY <2>1
<1>4. /\ Head(skillTask.steps) = c[k] /\ skillTask.record = r
      /\ Onward => IF k = Len(c) THEN SkillOver ELSE Stands("recover", c, k + 1, r, r, j)'
      /\ Error => SkillOver
  <2>1. Stands("recover", c, k, r, r, j)
    BY <1>1, <1>2
  <2>2. /\ Head(skillTask.steps) = c[k] /\ skillTask.record = r
        /\ Onward => IF k = Len(c) THEN SkillOver ELSE Stands("recover", c, k + 1, r, r, j)'
    BY <1>3, <2>1, StandsIs
  <2>3. Error => SkillOver
    BY <1>3, <2>1, StandsIs
  <2> QED BY <2>2, <2>3
<1>5. /\ r \in CleanRecords /\ Dirs(j.prev.version, 0, 0) /\ r.version = j.prev.version
      /\ RecordIn(j) /\ j.prev.version \in Versions /\ 0 \in Versions
  BY <1>1, ToggleIs DEF LeftBy, Lies
<1>6. ASSUME UNCHANGED <<skillFiles, skillJournal, skillSwitch, gatewayUp, skillsUp>>, RecordIn(j)'
      PROVE  LeftBy(j)' /\ SkillTyped' /\ DiskSound' /\ skillJournal' # None
  <2>1. Dirs(j.prev.version, 0, 0)'
    BY <1>5, <1>6 DEF Dirs
  <2>2. LeftBy(j)'
    BY <1>1, <1>6, <2>1, ToggleLeft
  <2>3. skillRecord' \in CleanRecords /\ DiskSound' /\ skillJournal' # None
    BY <2>2, LeftTyped
  <2> QED BY <1>6, <2>2, <2>3 DEF SkillsSound, SkillTyped
<1>7. CASE k = 1
  <2>1. Head(skillTask.steps) = "record"
    BY <1>3, <1>4, <1>7
  <2>2. /\ UNCHANGED <<skillFiles, skillJournal, skillSwitch, gatewayUp, skillsUp>>
        /\ \/ skillRecord' = r /\ (Onward \/ Error)
           \/ skillRecord' = skillRecord /\ Error
    BY <1>4, <2>1, RecordIsWritten
  <2>3. RecordIn(j)'
    BY <1>1, <1>5, <2>2 DEF RecordIn
  <2>4. LeftBy(j)' /\ SkillTyped' /\ DiskSound' /\ skillJournal' # None
    BY <1>6, <2>2, <2>3
  <2>5. CASE Error
    BY <1>4, <2>4, <2>5, LeftOver
  <2>6. CASE skillRecord' = r /\ Onward
    <3>1. Stands("recover", c, k + 1, r, r, j)'
      BY <1>3, <1>4, <1>7, <2>6
    <3>2. skillJournal' = j /\ r.enabled = skillSwitch'
      BY <1>1, <2>2
    <3>3. Stands("recover", <<"record", "finish">>, k + 1, r, r, j)'
      BY <1>2, <3>1 DEF Stands
    <3>4. Switching(j, k + 1)' /\ k + 1 \in 1 .. 2
      BY <1>1, <1>7, <2>4, <2>6, <3>2, <3>3 DEF Switching
    <3>5. SwitchIs(j)'
      BY <1>1 DEF SwitchIs
    <3>6. SkillTaskSound'
      BY <3>4, <3>5 DEF SkillTaskSound
    <3> QED BY <1>3, <2>4, <3>1, <3>6, StandsGoesOn
  <2> QED BY <2>2, <2>5, <2>6
<1>8. CASE k = 2
  <2>1. Head(skillTask.steps) = "finish" /\ k = Len(c)
    BY <1>3, <1>4, <1>8
  <2>2. /\ UNCHANGED <<skillRecord, skillSwitch, gatewayUp, skillsUp>>
        /\ \/ skillJournal' = None /\ Onward /\ skillFiles' = skillFiles
           \/ UNCHANGED <<skillJournal, skillFiles>> /\ Error
    BY <2>1, FinishesIs
  <2>3. CASE UNCHANGED <<skillJournal, skillFiles>> /\ Error
    <3>1. RecordIn(j)'
      BY <1>5, <2>2 DEF RecordIn
    <3>2. SkillTyped' /\ DiskSound' /\ skillJournal' # None
      BY <1>6, <2>2, <2>3, <3>1
    <3> QED BY <1>4, <2>3, <3>2, LeftOver
  <2>4. CASE skillJournal' = None /\ Onward /\ skillFiles' = skillFiles
    <3>1. SkillTyped' /\ DiskSound'
      BY <2>2, <2>4 DEF SkillsSound, SkillTyped, DiskSound
    <3>2. FilesMatchRecord'
      BY <1>1, <1>5, <1>8, <2>2, <2>4 DEF FilesMatchRecord, Dirs, Target
    <3> QED BY <1>4, <2>1, <2>4, <3>1, <3>2, LeftOver
  <2> QED BY <2>2, <2>3, <2>4
<1> QED BY <1>7, <1>8

(* What an operation begins with: the directory that the record says, and no other. *)
LEMMA BeginsWith ==
  ASSUME SkillsSound, SkillIdle, skillJournal = None
  PROVE  /\ Dirs(Target, 0, 0) /\ Target \in Versions
         /\ skillRecord # NoRecord => Target = skillRecord.version /\ skillSwitch = skillRecord.enabled
         /\ Synthesized \in CleanRecords \/ Target = 0
         /\ Known => /\ Synthesized \in CleanRecords /\ Synthesized.version = Target /\ Target # 0
                     /\ Synthesized.enabled = skillSwitch
                     /\ skillRecord \in {NoRecord, Synthesized}
<1>1. /\ skillFiles \in [target : Versions, staging : Versions, backup : Versions]
      /\ skillFiles.staging = 0 /\ skillFiles.backup = 0 /\ skillSwitch \in BOOLEAN
      /\ skillRecord \in CleanRecords
      /\ skillRecord.version # 0 => Target = skillRecord.version /\ skillSwitch = skillRecord.enabled
  BY DEF SkillsSound, SkillTyped, FilesMatchRecord
<1>2. Dirs(Target, 0, 0) /\ Target \in Versions
  BY <1>1 DEF Dirs, Target
<1>3. skillRecord # NoRecord => skillRecord.version # 0
  BY <1>1, RecordIs
<1>4. CASE skillRecord.version # 0
  <2>1. Synthesized = skillRecord
    BY <1>4 DEF Synthesized
  <2> QED BY <1>1, <1>2, <1>4, <2>1
<1>5. CASE skillRecord.version = 0
  <2>1. skillRecord = NoRecord
    BY <1>3, <1>5
  <2>2. Synthesized = [version |-> Target, enabled |-> skillSwitch]
    BY <1>5 DEF Synthesized
  <2>3. Target # 0 => Synthesized \in CleanRecords
    BY <1>1, <1>2, <2>2 DEF CleanRecords, Records, Versions
  <2>4. Known => Target # 0
    BY <1>5 DEF Known
  <2> QED BY <1>2, <2>1, <2>2, <2>3, <2>4
<1> QED BY <1>4, <1>5

(* An operation begins with nothing changed. *)
LEMMA BeginsIs ==
  ASSUME NEW a, NEW p, NEW n, NEW f, BeginsSkill(a, p, n, f)
  PROVE  /\ SkillIdle /\ skillJournal = None
         /\ UNCHANGED <<skillFiles, skillRecord, skillJournal, skillSwitch, gatewayUp, skillsUp>>
         /\ skillTask' = [way |-> "go", steps |-> Course(a), record |-> n, before |-> f,
                          backedUp |-> FALSE, replaced |-> FALSE,
                          journal |-> [action |-> a, phase |-> Unphased, prev |-> p, next |-> n]]
BY Zenon DEF BeginsSkill, skillDisk, Unphased

LEMMA BeginKeeps ==
  ASSUME SkillsSound, NEW j \in GoodPlans, j.phase = Unphased, NEW f \in {NoRecord, j.prev},
         BeginsSkill(j.action, j.prev, j.next, f), j.action = "replace" => f = j.prev,
         Target = j.prev.version, SwitchIs(j), j.action = "toggle" => skillSwitch = j.prev.enabled,
         RecordOld(j)
  PROVE  SkillsSound'
<1>1. j = [action |-> j.action, phase |-> Unphased, prev |-> j.prev, next |-> j.next]
  BY DEF GoodPlans, Plans
<1>2. j.action \in {"replace", "remove", "toggle"}
  BY PlanIs
<1>3. /\ SkillIdle /\ skillJournal = None
      /\ UNCHANGED <<skillFiles, skillRecord, skillJournal, skillSwitch, gatewayUp, skillsUp>>
  BY BeginsIs
<1>4. PICK i \in 1 .. 3 : i = 1
  <2>1. 1 \in 1 .. 3
    OBVIOUS
  <2> QED BY <2>1
<1>5. skillTask' = Task("go", Course(j.action), i, j.next, f, FALSE, FALSE, j)
  <2>1. PICK c : c = Course(j.action)
    OBVIOUS
  <2>2. c \in Seq(StepNames) /\ i \in 1 .. Len(c)
    <3>1. CASE j.action = "replace"
      <4>1. c = Course("replace")
        BY <2>1, <3>1, Zenon
      <4> QED BY <1>4, <4>1, ReplaceCourse
    <3>2. CASE j.action = "remove"
      <4>1. c = Course("remove")
        BY <2>1, <3>2, Zenon
      <4> QED BY <1>4, <4>1, RemoveCourse
    <3>3. CASE j.action = "toggle"
      <4>1. c = Course("toggle")
        BY <2>1, <3>3, Zenon
      <4> QED BY <1>4, <4>1, ToggleCourse
    <3> QED BY <1>2, <3>1, <3>2, <3>3
  <2>3. i = 1
    BY <1>4
  <2>4. Rest(c, 1) = c
    BY <2>2, RestIs
  <2>5. Rest(Course(j.action), i) = Course(j.action)
    BY <2>1, <2>3, <2>4
  <2> QED BY <1>1, <2>5, BeginsIs DEF Task
<1>6. SkillTyped' /\ DiskSound' /\ SwitchIs(j)' /\ RecordOld(j)' /\ Dirs(j.prev.version, 0, 0)'
  <2>1. Dirs(Target, 0, 0)
    BY <1>3, BeginsWith
  <2>2. Dirs(j.prev.version, 0, 0)'
    BY <1>2, <1>3, <2>1 DEF Dirs
  <2>3. SkillTyped' /\ DiskSound'
    BY <1>3 DEF SkillsSound, SkillTyped, DiskSound
  <2>4. SwitchIs(j)' /\ RecordOld(j)'
    BY <1>2, <1>3 DEF SwitchIs, RecordOld
  <2> QED BY <2>2, <2>3, <2>4
<1>7. i = 1 /\ skillJournal' = None /\ "go" \in {"go", "undo", "recover"}
  BY <1>3, <1>4
<1>8. CASE j.action = "replace"
  <2>1. ReplacingDisk(j, i)'
    <3>1. i <= 4 /\ ~(3 <= i /\ i <= 6) /\ ~(5 <= i /\ i <= 11) /\ i <= 8 /\ ~(i >= 10)
      BY <1>7
    <3> QED BY <1>6, <1>7, <3>1, ZenonT(30) DEF ReplacingDisk
  <2>2. skillTask' = Task("go", Course("replace"), i, j.next, j.prev, i >= 5 /\ j.prev.version # 0, i >= 7, j)
    <3>1. ~(i >= 5) /\ ~(i >= 7)
      BY <1>7
    <3>2. (i >= 5 /\ j.prev.version # 0) = FALSE
      BY <3>1, Zenon
    <3>3. (i >= 7) = FALSE
      BY <3>1
    <3> QED BY <1>2, <1>5, <1>8, <3>2, <3>3
  <2>3. Replacing(j, i)' /\ i \in 1 .. 12
    BY <1>7, <2>1, <2>2 DEF Replacing, Task, Rest, Course
  <2>4. SkillTaskSound'
    BY <1>2, <1>6, <1>8, <2>3 DEF SkillTaskSound
  <2> QED BY <1>5, <1>6, <1>7, <2>4, GoesOn
<1>9. CASE j.action = "remove"
  <2>1. RemovingDisk(j, i)'
    <3>1. i <= 2 /\ ~(3 <= i /\ i <= 8) /\ i <= 4
      BY <1>7
    <3> QED BY <1>6, <1>7, <3>1, ZenonT(30) DEF RemovingDisk
  <2>2. j.next = NoRecord /\ f \in {NoRecord, j.prev}
    BY <1>2, <1>9, RemovalIs
  <2>3. Stands("go", Course("remove"), i, NoRecord, f, j)'
    BY <1>5, <1>9, <2>2 DEF Stands
  <2>4. Removing(j, i)' /\ i \in 1 .. 9
    BY <1>7, <2>1, <2>2, <2>3 DEF Removing
  <2>5. SkillTaskSound'
    BY <1>2, <1>6, <1>9, <2>4 DEF SkillTaskSound
  <2> QED BY <1>5, <1>6, <1>7, <2>5, GoesOn
<1>10. CASE j.action = "toggle"
  <2>1. j.prev.version # 0 /\ skillSwitch' = j.prev.enabled
    BY <1>2, <1>3, <1>10, ToggleIs
  <2>2. TogglingDisk(j, i)'
    <3>1. i <= 2 /\ i <= 4
      BY <1>7
    <3> QED BY <1>6, <1>7, <2>1, <3>1, ZenonT(30) DEF TogglingDisk
  <2>4. Stands("go", Course("toggle"), i, j.next, f, j)'
    BY <1>2, <1>5, <1>10 DEF Stands
  <2>5. Toggling(j, i)' /\ i \in 1 .. 6
    BY <1>7, <2>2, <2>4 DEF Toggling
  <2>6. SkillTaskSound'
    BY <1>2, <1>6, <1>10, <2>5 DEF SkillTaskSound
  <2> QED BY <1>5, <1>6, <1>7, <2>6, GoesOn
<1> QED BY <1>2, <1>8, <1>9, <1>10

(* The four operations on a skill begin with a plan. *)
LEMMA AskedKeeps == ASSUME SkillsSound, SkillAsked PROVE SkillsSound'
<1>1. SkillIdle /\ skillJournal = None
  BY BeginsIs DEF SkillAsked, InstallSkill, UpdateSkill, UninstallSkill, SwitchSkill
<1>2. skillRecord \in CleanRecords
  BY DEF SkillsSound, SkillTyped
<1>3. CASE \E version \in 1 .. MaxVersion : InstallSkill(version)
  <2>1. PICK version \in 1 .. MaxVersion : InstallSkill(version)
    BY <1>3
  <2>2. PICK p : p = NoRecord
    OBVIOUS
  <2>3. PICK n : n = [version |-> version, enabled |-> TRUE]
    OBVIOUS
  <2>4. BeginsSkill("replace", p, n, p) /\ skillRecord.version = 0 /\ Target = 0
    BY <2>1, <2>2, <2>3 DEF InstallSkill
  <2>5. n \in CleanRecords /\ n.version # 0 /\ p \in CleanRecords /\ p.version = 0
    BY <2>2, <2>3, NoRecordIsClean, CapabilityAssumption DEF CleanRecords, Records
  <2>6. PICK j : j = [action |-> "replace", phase |-> Unphased, prev |-> p, next |-> n]
    OBVIOUS
  <2>10. j \in GoodPlans /\ j.phase = Unphased /\ j.action = "replace" /\ j.prev = p /\ j.next = n
    BY <2>6, <2>5 DEF GoodPlans, Plans
  <2>7. skillRecord = p
    BY <1>2, <2>2, <2>4, RecordIs
  <2>11. BeginsSkill(j.action, j.prev, j.next, p) /\ p \in {NoRecord, j.prev}
    BY <2>4, <2>10
  <2>12. /\ Target = j.prev.version /\ RecordOld(j) /\ SwitchIs(j)
         /\ j.action = "toggle" => skillSwitch = j.prev.enabled
    BY <2>4, <2>5, <2>7, <2>10 DEF RecordOld, SwitchIs
  <2> QED BY <2>10, <2>11, <2>12, BeginKeeps
<1>4. CASE \E version \in 1 .. MaxVersion : UpdateSkill(version)
  <2>1. PICK version \in 1 .. MaxVersion : UpdateSkill(version)
    BY <1>4
  <2>2. PICK p : p = Synthesized
    OBVIOUS
  <2>3. PICK n : n = [Synthesized EXCEPT !.version = version]
    OBVIOUS
  <2>4. BeginsSkill("replace", p, n, p) /\ Known
    BY <2>1, <2>2, <2>3 DEF UpdateSkill
  <2>5. /\ p \in CleanRecords /\ p.version = Target /\ Target # 0 /\ p.enabled = skillSwitch
        /\ skillRecord \in {NoRecord, p}
    BY <1>1, <2>2, <2>4, BeginsWith
  <2>6. n \in CleanRecords /\ n.version # 0 /\ n.enabled = p.enabled
    BY <2>2, <2>3, <2>5, CapabilityAssumption DEF CleanRecords, Records
  <2>7. PICK j : j = [action |-> "replace", phase |-> Unphased, prev |-> p, next |-> n]
    OBVIOUS
  <2>10. j \in GoodPlans /\ j.phase = Unphased /\ j.action = "replace" /\ j.prev = p /\ j.next = n
    BY <2>7, <2>5, <2>6 DEF GoodPlans, Plans
  <2>11. BeginsSkill(j.action, j.prev, j.next, p) /\ p \in {NoRecord, j.prev}
    BY <2>4, <2>10
  <2>12. /\ Target = j.prev.version /\ RecordOld(j) /\ SwitchIs(j)
         /\ j.action = "toggle" => skillSwitch = j.prev.enabled
    BY <2>5, <2>10 DEF RecordOld, SwitchIs
  <2> QED BY <2>10, <2>11, <2>12, BeginKeeps
<1>5. CASE UninstallSkill
  <2>1. PICK p : p = Synthesized
    OBVIOUS
  <2>2. PICK n : n = NoRecord
    OBVIOUS
  <2>3. BeginsSkill("remove", p, n, skillRecord) /\ Known
    BY <1>5, <2>1, <2>2 DEF UninstallSkill
  <2>4. /\ p \in CleanRecords /\ p.version = Target /\ Target # 0 /\ p.enabled = skillSwitch
        /\ skillRecord \in {NoRecord, p}
    BY <1>1, <2>1, <2>3, BeginsWith
  <2>5. PICK j : j = [action |-> "remove", phase |-> Unphased, prev |-> p, next |-> n]
    OBVIOUS
  <2>10. j \in GoodPlans /\ j.phase = Unphased /\ j.action = "remove" /\ j.prev = p /\ j.next = n
    BY <2>5, <2>2, <2>4, NoRecordIsClean DEF GoodPlans, Plans
  <2>11. BeginsSkill(j.action, j.prev, j.next, skillRecord) /\ skillRecord \in {NoRecord, j.prev}
    BY <2>3, <2>4, <2>10
  <2>12. /\ Target = j.prev.version /\ RecordOld(j) /\ SwitchIs(j)
         /\ j.action = "toggle" => skillSwitch = j.prev.enabled
    BY <2>4, <2>10 DEF RecordOld, SwitchIs
  <2> QED BY <2>10, <2>11, <2>12, BeginKeeps
<1>6. CASE \E on \in BOOLEAN : SwitchSkill(on)
  <2>1. PICK on \in BOOLEAN : SwitchSkill(on)
    BY <1>6
  <2>2. PICK p : p = Synthesized
    OBVIOUS
  <2>3. PICK n : n = [Synthesized EXCEPT !.enabled = on]
    OBVIOUS
  <2>4. BeginsSkill("toggle", p, n, skillRecord) /\ Known
    BY <2>1, <2>2, <2>3 DEF SwitchSkill, Known
  <2>5. /\ p \in CleanRecords /\ p.version = Target /\ Target # 0 /\ p.enabled = skillSwitch
        /\ skillRecord \in {NoRecord, p}
    BY <1>1, <2>2, <2>4, BeginsWith
  <2>6. n \in CleanRecords /\ n.version = p.version
    BY <2>2, <2>3, <2>5, CapabilityAssumption DEF CleanRecords, Records
  <2>7. PICK j : j = [action |-> "toggle", phase |-> Unphased, prev |-> p, next |-> n]
    OBVIOUS
  <2>10. j \in GoodPlans /\ j.phase = Unphased /\ j.action = "toggle" /\ j.prev = p /\ j.next = n
    BY <2>7, <2>5, <2>6 DEF GoodPlans, Plans
  <2>11. BeginsSkill(j.action, j.prev, j.next, skillRecord) /\ skillRecord \in {NoRecord, j.prev}
    BY <2>4, <2>5, <2>10
  <2>12. /\ Target = j.prev.version /\ RecordOld(j) /\ SwitchIs(j)
         /\ j.action = "toggle" => skillSwitch = j.prev.enabled
    BY <2>5, <2>10 DEF RecordOld, SwitchIs
  <2> QED BY <2>10, <2>11, <2>12, BeginKeeps
<1> QED BY <1>3, <1>4, <1>5, <1>6 DEF SkillAsked

(* A recovery that goes on has found the new version, and enabled as it should be. *)
LEMMA ForwardBegins ==
  ASSUME NEW j \in GoodPlans, skillJournal = j, LeftBy(j), j.action # "toggle",
         OnDisk(j), Asks(j) => Shows(j.next), NEW k \in 1 .. 3, k = 1
  PROVE  ForwardDisk(j, k)
<1> DEFINE p == j.prev.version
           n == j.next.version
<1>1. Lies(j, j.phase)
  BY JournalIsPlan
<1>2. k < 3 /\ ~(k >= 2)
  OBVIOUS
<1>3. CASE j.action = "replace"
  <2>1. /\ ReplaceLies(j, j.phase) /\ n # 0 /\ (p # 0 => j.next.enabled = j.prev.enabled)
        /\ p # 0 => skillSwitch = j.prev.enabled
    BY <1>1, <1>3 DEF Lies, GoodPlans, SwitchIs
  <2>2. CASE j.phase = "verified"
    <3>1. (Dirs(n, 0, p) \/ Dirs(n, 0, 0)) /\ skillSwitch = j.next.enabled
      BY <2>1, <2>2 DEF ReplaceLies
    <3> QED BY <1>2, <1>3, <2>2, <3>1 DEF ForwardDisk
  <2>3. CASE j.phase # "verified"
    <3>1. ~Sealed(j) \/ j.phase = "committed-final"
      BY <2>3 DEF Sealed
    <3>2. /\ j.phase \in {"staged", "backed-up", "replaced"} /\ ~Sealed(j)
          /\ skillFiles.target # 0 /\ skillFiles.staging = 0
      BY <1>3, <2>1, <2>3 DEF OnDisk, Sealed, ReplaceLies, Target
    <3>3. \/ Dirs(n, 0, p) \/ Dirs(p, n, 0) \/ Dirs(0, n, p)
          \/ Dirs(n, 0, 0)
          \/ Dirs(0, 0, 0)
      BY <2>1, <3>2 DEF ReplaceLies
    <3>4. Dirs(n, 0, p) \/ Dirs(n, 0, 0)
      BY <2>1, <3>2, <3>3 DEF Dirs
    <3>5. skillSwitch = j.next.enabled
      <4>1. CASE Asks(j)
        BY <2>1, <4>1 DEF Shows
      <4>2. CASE ~Asks(j)
        <5>1. Irreversible(j)
          BY <3>2, <4>2 DEF Asks
        <5> QED BY <2>1, <5>1 DEF Irreversible
      <4> QED BY <4>1, <4>2
    <3> QED BY <1>2, <1>3, <3>2, <3>4, <3>5 DEF ForwardDisk
  <2> QED BY <2>2, <2>3
<1>4. CASE j.action = "remove"
  <2>1. RemoveLies(j, j.phase) /\ n = 0
    BY <1>1, <1>4, RemovalIs DEF Lies, NoRecord
  <2>2. j.phase \in {"committed", "committed-final"}
    BY <1>4, <2>1 DEF OnDisk, Sealed, RemoveLies
  <2>3. Dirs(0, 0, p) \/ Dirs(0, 0, 0)
    BY <2>1, <2>2 DEF RemoveLies
  <2> QED BY <1>2, <1>4, <2>1, <2>2, <2>3 DEF ForwardDisk
<1> QED BY <1>3, <1>4, PlanIs

(* One that goes back has an old version to put back, or none that there was. *)
LEMMA BackBegins ==
  ASSUME NEW j \in GoodPlans, skillJournal = j, LeftBy(j), j.action # "toggle",
         ~(OnDisk(j) /\ (Asks(j) => Shows(j.next))), NEW k \in 1 .. 4, k = 1, NEW b \in BOOLEAN,
         b <=> IF j.action = "replace" THEN skillFiles.backup # 0 \/ j.prev.version = 0
               ELSE skillFiles.backup # 0 /\ Target = 0
  PROVE  BackDisk(j, k, b, b)
<1> DEFINE p == j.prev.version
           n == j.next.version
<1>1. Lies(j, j.phase)
  BY JournalIsPlan
<1>2. k <= 2 /\ k # 4
  OBVIOUS
<1>3. CASE j.action = "replace"
  <2>1. /\ ReplaceLies(j, j.phase) /\ n # 0 /\ (p # 0 => j.next.enabled = j.prev.enabled)
        /\ p # 0 => skillSwitch = j.prev.enabled
    BY <1>1, <1>3 DEF Lies, GoodPlans, SwitchIs
  <2>2. b <=> (skillFiles.backup # 0 \/ p = 0)
    BY <1>3
  <2>3. /\ j.phase \in {"prepared", "staged", "backed-up", "replaced", "rolling-back"}
        /\ \E s \in {0, n} :
             IF b THEN \/ Dirs(0, s, p)
                       \/ Dirs(n, s, p) /\ (p = 0 \/ j.phase \in {"prepared", "rolling-back"})
             ELSE Dirs(p, s, 0)
    <3>1. CASE j.phase \in {"prepared", "rolling-back"}
      <4>1. PICK s \in {0, n} : Dirs(p, s, 0) \/ Dirs(0, s, p) \/ Dirs(n, s, p)
        BY <2>1, <3>1 DEF ReplaceLies
      <4>2. CASE Dirs(p, s, 0)
        <5>1. b <=> p = 0
          BY <2>2, <4>2 DEF Dirs
        <5> QED BY <3>1, <4>1, <4>2, <5>1
      <4>3. CASE Dirs(0, s, p) \/ Dirs(n, s, p)
        <5>1. b
          BY <2>2, <4>3 DEF Dirs
        <5> QED BY <3>1, <4>1, <4>3, <5>1
      <4> QED BY <4>1, <4>2, <4>3
    <3>2. CASE j.phase \in {"staged", "backed-up", "replaced"}
      <4>1. \/ Dirs(n, 0, p) \/ Dirs(p, n, 0) \/ Dirs(0, n, p)
            \/ Dirs(n, 0, 0)
            \/ Dirs(0, 0, 0) /\ p = 0
        BY <2>1, <3>2 DEF ReplaceLies
      <4>2. CASE p = 0
        <5>1. b
          BY <2>2, <4>2
        <5>2. \E s \in {0, n} : Dirs(0, s, p) \/ Dirs(n, s, p)
          BY <4>1, <4>2
        <5> QED BY <3>2, <4>2, <5>1, <5>2
      <4>3. CASE p # 0
        <5>1. ~Dirs(n, 0, p)
          <6>1. SUFFICES ASSUME Dirs(n, 0, p) PROVE OnDisk(j) /\ Shows(j.next)
            OBVIOUS
          <6>2. Target # 0 /\ skillFiles.staging = 0
            BY <2>1, <6>1 DEF Dirs, Target
          <6> QED BY <1>3, <2>1, <3>2, <4>3, <6>2 DEF OnDisk, Shows
        <5>2. ~Dirs(n, 0, 0)
          <6>1. SUFFICES ASSUME Dirs(n, 0, 0) PROVE OnDisk(j) /\ Shows(j.next)
            OBVIOUS
          <6>2. Target # 0 /\ skillFiles.staging = 0
            BY <2>1, <6>1 DEF Dirs, Target
          <6> QED BY <1>3, <2>1, <3>2, <4>3, <6>2 DEF OnDisk, Shows
        <5>3. CASE Dirs(p, n, 0)
          <6>1. ~b
            BY <2>2, <4>3, <5>3 DEF Dirs
          <6> QED BY <3>2, <5>3, <6>1
        <5>4. CASE Dirs(0, n, p)
          <6>1. b
            BY <2>2, <4>3, <5>4 DEF Dirs
          <6> QED BY <3>2, <5>4, <6>1
        <5> QED BY <4>1, <4>3, <5>1, <5>2, <5>3, <5>4
      <4> QED BY <4>2, <4>3
    <3>3. j.phase # "verified"
      BY DEF OnDisk, Sealed, Asks
    <3> QED BY <2>1, <3>1, <3>2, <3>3 DEF ReplaceLies
  <2> QED BY <1>2, <1>3, <2>3 DEF BackDisk
<1>4. CASE j.action = "remove"
  <2>1. RemoveLies(j, j.phase) /\ p # 0 /\ n = 0
    BY <1>1, <1>4, RemovalIs DEF Lies, NoRecord
  <2>2. b <=> (skillFiles.backup # 0 /\ Target = 0)
    BY <1>4
  <2>3. j.phase # "committed-final"
    BY DEF OnDisk, Sealed, Asks
  <2>4. j.phase # "committed"
    <3>1. SUFFICES ASSUME j.phase = "committed" PROVE OnDisk(j) /\ Shows(j.next)
      OBVIOUS
    <3>2. Target = 0
      BY <2>1, <3>1 DEF RemoveLies, Dirs, Target
    <3> QED BY <1>4, <2>1, <3>1, <3>2 DEF OnDisk, Shows
  <2>5. j.phase \in {"staged", "backed-up", "rolling-back"} /\ (Dirs(p, 0, 0) \/ Dirs(0, 0, p))
    BY <2>1, <2>3, <2>4 DEF RemoveLies
  <2>6. IF b THEN Dirs(0, 0, p) ELSE Dirs(p, 0, 0)
    BY <2>1, <2>2, <2>5 DEF Dirs, Target
  <2> QED BY <1>2, <1>4, <2>5, <2>6 DEF BackDisk
<1> QED BY <1>3, <1>4, PlanIs

(* A journal that is left is one of a plan, in the phase it says. *)
LEMMA LeftPlan ==
  ASSUME SkillsSound, skillJournal # None, NEW j, j = skillJournal
  PROVE  j \in GoodPlans /\ LeftBy(j) /\ SwitchIs(j)
<1>1. PICK i \in GoodPlans : LeftBy(i)
  BY DEF SkillsSound, DiskSound
<1>2. PICK phase \in SkillPhases : skillJournal = Phase(i, phase) /\ Lies(i, phase)
  BY <1>1 DEF LeftBy
<1>3. j \in GoodPlans /\ Phase(j, phase) = j /\ Lies(j, phase)
  BY <1>2, SamePlan
<1> QED BY <1>3 DEF LeftBy, Lies

(* A recovery begins with the first step of its course. *)
LEMMA RecoveryIs ==
  ASSUME NEW c \in Seq(StepNames), 1 \in 1 .. Len(c), NEW r, NEW b, NEW i, i = 1, Recovery(c, r, b)
  PROVE  skillTask' = Task("recover", c, i, r, r, b, b, skillJournal)
<1>1. Rest(c, 1) = c
  BY RestIs
<1> QED BY <1>1 DEF Recovery, Task

(* A recovery begins from whatever a stop or a failure has left. *)
LEMMA RecoversSkillKeeps ==
  ASSUME SkillsSound, RecoversSkill, "recovery" \notin Troubles
  PROVE  SkillsSound'
<1>1. /\ SkillIdle /\ skillJournal # None
      /\ UNCHANGED <<skillFiles, skillRecord, skillJournal, skillSwitch, gatewayUp, skillsUp>>
  BY DEF RecoversSkill, skillDisk
<1>2. PICK j : j = skillJournal
  OBVIOUS
<1>3. j \in GoodPlans /\ LeftBy(j) /\ SwitchIs(j)
  BY <1>1, <1>2, LeftPlan
<1>4. LeftBy(j)' /\ SwitchIs(j)' /\ skillJournal' = j
  BY <1>1, <1>2, <1>3, LeftStays DEF SwitchIs
<1>5. SkillTyped' /\ DiskSound'
  BY <1>1, <1>3, <1>4, LeftTyped DEF SkillsSound, SkillTyped
<1>6. PICK i \in 1 .. 2 : i = 1
  <2>1. 1 \in 1 .. 2
    OBVIOUS
  <2> QED BY <2>1
<1>7. i \in 1 .. 3 /\ i \in 1 .. 4 /\ i = 1 /\ "recover" \in {"go", "undo", "recover"}
  BY <1>6
<1>8. CASE j.action = "toggle"
  <2>1. RecoversSwitch(j)
    BY <1>2, <1>8 DEF RecoversSkill
  <2>2. Target # 0
    BY <1>3, <1>8, ToggleIs DEF LeftBy, Lies, Dirs, Target
  <2>3. PICK r \in {j.prev, j.next} : r.enabled = skillSwitch /\ Recovery(<<"record", "finish">>, r, FALSE)
    BY <2>1, <2>2 DEF RecoversSwitch
  <2>4. PICK c : c = <<"record", "finish">>
    OBVIOUS
  <2>5. PICK b \in BOOLEAN : b = FALSE
    OBVIOUS
  <2>6. c \in Seq(StepNames) /\ 1 \in 1 .. Len(c) /\ Recovery(c, r, b)
    <3>1. Recovery(c, r, b)
      BY <2>3, <2>4, <2>5
    <3>2. c \in Seq(StepNames) /\ Len(c) = 2
      BY <2>4, RecoveryCourses
    <3> QED BY <3>1, <3>2
  <2>7. skillTask' = Task("recover", c, i, r, r, b, b, j)
    BY <1>2, <1>7, <2>6, RecoveryIs
  <2>8. Stands("recover", <<"record", "finish">>, i, r, r, j)'
    BY <2>4, <2>7 DEF Stands
  <2>9. r.enabled = skillSwitch' /\ i # 2
    BY <1>1, <1>7, <2>3
  <2>10. Switching(j, i)'
    BY <1>4, <1>8, <2>3, <2>8, <2>9 DEF Switching
  <2>11. SkillTaskSound'
    BY <1>3, <1>4, <1>6, <2>10 DEF SkillTaskSound
  <2> QED BY <1>5, <1>7, <2>7, <2>11, GoesOn
<1>9. CASE j.action # "toggle"
  <2>1. RecoversFiles(j)
    BY <1>2, <1>9 DEF RecoversSkill
  <2>2. CASE OnDisk(j) /\ (Asks(j) => Shows(j.next))
    <3>1. Recovery(Forwards, j.next, FALSE)
      BY <2>1, <2>2 DEF RecoversFiles
    <3>2. PICK c : c = Forwards
      OBVIOUS
    <3>3. PICK r : r = j.next
      OBVIOUS
    <3>4. PICK b \in BOOLEAN : b = FALSE
      OBVIOUS
    <3>5. c \in Seq(StepNames) /\ Len(c) = 3
      BY <3>2, RecoveryCourses
    <3>6. Recovery(c, r, b) /\ 1 \in 1 .. Len(c)
      <4>1. Recovery(c, r, b)
        BY <3>1, <3>2, <3>3, <3>4, Zenon
      <4>2. 1 \in 1 .. Len(c)
        BY <3>5
      <4> QED BY <4>1, <4>2
    <3>7. skillTask' = Task("recover", c, i, r, r, b, b, j)
      BY <1>2, <1>7, <3>5, <3>6, RecoveryIs
    <3>8. Forwards' = Forwards
      BY DEF Forwards, Cleared
    <3>9. Stands("recover", Forwards, i, j.next, j.next, j)'
      BY <3>2, <3>3, <3>7, <3>8 DEF Stands
    <3>10. ForwardDisk(j, i)
      BY <1>2, <1>3, <1>7, <1>9, <2>2, ForwardBegins
    <3>11. ForwardDisk(j, i)'
      BY <1>1, <1>4, <3>10 DEF ForwardDisk, Dirs
    <3>12. Completing(j, i)'
      BY <3>9, <3>11 DEF Completing
    <3>13. SkillTaskSound'
      BY <1>3, <1>4, <1>7, <3>12 DEF SkillTaskSound
    <3> QED BY <1>5, <1>7, <3>7, <3>13, GoesOn
  <2>3. CASE ~(OnDisk(j) /\ (Asks(j) => Shows(j.next)))
    <3> DEFINE back == IF j.action = "replace" THEN skillFiles.backup # 0 \/ j.prev.version = 0
                       ELSE skillFiles.backup # 0 /\ Target = 0
    <3>1. back \in BOOLEAN
      OBVIOUS
    <3>2. Recovery(Backwards, j.prev, back)
      BY <2>1, <2>3 DEF RecoversFiles
    <3>3. PICK b \in BOOLEAN : b = back
      BY <3>1
    <3>4. PICK c : c = Backwards
      OBVIOUS
    <3>5. PICK r : r = j.prev
      OBVIOUS
    <3>6. c \in Seq(StepNames) /\ Len(c) = 4
      BY <3>4, RecoveryCourses
    <3>7. Recovery(c, r, b)
      BY <3>2, <3>3, <3>4, <3>5, Zenon
    <3>8. 1 \in 1 .. Len(c)
      BY <3>6
    <3>9. skillTask' = Task("recover", c, i, r, r, b, b, j)
      BY <1>2, <1>7, <3>6, <3>7, <3>8, RecoveryIs
    <3>10. Backwards' = Backwards
      BY DEF Backwards, Cleared
    <3>11. skillTask' = Task("recover", Backwards, i, j.prev, j.prev, b, b, j)
      BY <3>4, <3>5, <3>9
    <3>12. b <=> back
      BY <3>3
    <3>13. BackDisk(j, i, b, b)
      BY <1>2, <1>3, <1>7, <1>9, <2>3, <3>12, BackBegins
    <3>14. BackDisk(j, i, b, b)'
      BY <1>1, <1>4, <3>13 DEF BackDisk, Dirs
    <3>15. GoingBack(j, i)'
      BY <3>10, <3>11, <3>14 DEF GoingBack, Task, Rest
    <3>16. SkillTaskSound'
      BY <1>3, <1>4, <1>7, <3>15 DEF SkillTaskSound
    <3> QED BY <1>5, <1>7, <3>9, <3>16, GoesOn
  <2> QED BY <2>2, <2>3
<1> QED BY <1>8, <1>9

(* The invariant of the skills holds at first and is kept by every step. *)
LEMMA SkillsBeginSound == ASSUME SkillInit PROVE SkillsSound
<1>1. 0 \in Versions
  BY CapabilityAssumption DEF Versions
<1>2. SkillTyped
  <2>1. PICK version \in Versions : skillFiles = [target |-> version, staging |-> 0, backup |-> 0]
    BY DEF SkillInit
  <2>2. skillFiles \in [target : Versions, staging : Versions, backup : Versions]
    BY <1>1, <2>1
  <2> QED BY <2>2, NoRecordIsClean DEF SkillInit, SkillTyped
<1>3. FilesMatchRecord /\ DiskSound /\ SkillTaskSound
  BY DEF SkillInit, FilesMatchRecord, DiskSound, SkillTaskSound, SkillIdle, NoRecord
<1> QED BY <1>2, <1>3 DEF SkillsSound

(* A step that leaves the directories, the record, the journal, the switch and the task alone. *)
LEMMA DiskStaysSound ==
  ASSUME SkillsSound, UNCHANGED skillDisk,
         gatewayUp' \in BOOLEAN, skillsUp' \in BOOLEAN
  PROVE  SkillTyped' /\ DiskSound'
<1>1. UNCHANGED <<skillFiles, skillRecord, skillJournal, skillSwitch>>
  BY DEF skillDisk
<1>2. SkillTyped'
  BY <1>1 DEF SkillsSound, SkillTyped
<1>3. DiskSound'
  BY <1>1, LeftStays DEF SkillsSound, DiskSound
<1> QED BY <1>2, <1>3

LEMMA TaskStaysSound ==
  ASSUME SkillsSound, UNCHANGED <<skillDisk, skillTask>>,
         gatewayUp' \in BOOLEAN, skillsUp' \in BOOLEAN
  PROVE  SkillsSound'
<1>1. UNCHANGED <<skillFiles, skillRecord, skillJournal, skillSwitch, skillTask>>
  BY DEF skillDisk
<1>2. SkillTyped' /\ DiskSound'
  BY DiskStaysSound
<1>3. FilesMatchRecord'
  BY <1>1 DEF SkillsSound, FilesMatchRecord, SkillIdle, Target
<1>4. CASE SkillIdle
  BY <1>1, <1>2, <1>3, <1>4 DEF SkillsSound, SkillTaskSound, SkillIdle
<1>5. CASE ~SkillIdle
  <2>1. PICK j \in GoodPlans :
          /\ SwitchIs(j)
          /\ \/ j.action = "replace" /\ \E k \in 1 .. 12 : Replacing(j, k)
             \/ j.action = "replace" /\ \E k \in 1 .. 7 : PuttingBack(j, k)
             \/ j.action = "remove" /\ \E k \in 1 .. 9 : Removing(j, k)
             \/ j.action = "remove" /\ \E k \in 1 .. 4 : BringingBack(j, k)
             \/ j.action = "toggle" /\ \E k \in 1 .. 6 : Toggling(j, k)
             \/ j.action = "toggle" /\ \E k \in 1 .. 3 : TurningBack(j, k)
             \/ \E k \in 1 .. 3 : Completing(j, k)
             \/ \E k \in 1 .. 4 : GoingBack(j, k)
             \/ \E k \in 1 .. 2 : Switching(j, k)
    BY <1>5 DEF SkillsSound, SkillTaskSound
  <2>2. SwitchIs(j)'
    BY <1>1, <2>1 DEF SwitchIs
  <2>3. LeftBy(j) => LeftBy(j)'
    BY <1>1, LeftStays
  <2>4. \A k \in 1 .. 12 : Replacing(j, k) => Replacing(j, k)'
    BY <1>1 DEF Replacing, ReplacingDisk, Dirs, RecordOld, Task, Rest, Course
  <2>5. ASSUME NEW k \in 1 .. 7, PuttingBack(j, k) PROVE PuttingBack(j, k)'
    <3>1. PICK b \in BOOLEAN, x \in BOOLEAN :
            /\ skillTask = Task("undo", Catch("replace"), k, j.prev, j.prev, b, x, j)
            /\ ReplacedDisk(j, k, b, x)
      BY <2>5 DEF PuttingBack
    <3>2. ReplacedDisk(j, k, b, x)'
      BY <1>1, <2>3, <3>1 DEF ReplacedDisk, Dirs, RecordOld, RecordIn
    <3>3. skillTask' = Task("undo", Catch("replace"), k, j.prev, j.prev, b, x, j)
      BY <1>1, <3>1
    <3> QED BY <3>2, <3>3 DEF PuttingBack
  <2>6. ASSUME NEW k \in 1 .. 9, Removing(j, k) PROVE Removing(j, k)'
    <3>1. PICK f \in {NoRecord, j.prev} :
            Stands("go", Course("remove"), k, NoRecord, f, j) /\ RemovingDisk(j, k)
      BY <2>6 DEF Removing
    <3>2. RemovingDisk(j, k)'
      BY <1>1, <3>1 DEF RemovingDisk, Dirs, RecordOld
    <3>3. Stands("go", Course("remove"), k, NoRecord, f, j)'
      BY <1>1, <3>1 DEF Stands
    <3> QED BY <3>2, <3>3 DEF Removing
  <2>7. ASSUME NEW k \in 1 .. 4, BringingBack(j, k) PROVE BringingBack(j, k)'
    <3>1. PICK f \in {NoRecord, j.prev} :
            Stands("undo", Catch("remove"), k, f, f, j) /\ RemovedDisk(j, k, f)
      BY <2>7 DEF BringingBack
    <3>2. RemovedDisk(j, k, f)'
      BY <1>1, <2>3, <3>1 DEF RemovedDisk, Dirs, RecordOld
    <3>3. Stands("undo", Catch("remove"), k, f, f, j)'
      BY <1>1, <3>1 DEF Stands
    <3> QED BY <3>2, <3>3 DEF BringingBack
  <2>8. ASSUME NEW k \in 1 .. 6, Toggling(j, k) PROVE Toggling(j, k)'
    <3>1. PICK f \in {NoRecord, j.prev} :
            Stands("go", Course("toggle"), k, j.next, f, j) /\ TogglingDisk(j, k)
      BY <2>8 DEF Toggling
    <3>2. TogglingDisk(j, k)'
      BY <1>1, <2>3, <3>1 DEF TogglingDisk, Dirs, RecordOld
    <3>3. Stands("go", Course("toggle"), k, j.next, f, j)'
      BY <1>1, <3>1 DEF Stands
    <3> QED BY <3>2, <3>3 DEF Toggling
  <2>9. ASSUME NEW k \in 1 .. 3, TurningBack(j, k) PROVE TurningBack(j, k)'
    <3>1. PICK f \in {NoRecord, j.prev} :
            Stands("undo", Catch("toggle"), k, f, f, j) /\ ToggledDisk(j, k, f)
      BY <2>9 DEF TurningBack
    <3>2. ToggledDisk(j, k, f)'
      BY <1>1, <2>3, <3>1 DEF ToggledDisk, Dirs
    <3>3. Stands("undo", Catch("toggle"), k, f, f, j)'
      BY <1>1, <3>1 DEF Stands
    <3> QED BY <3>2, <3>3 DEF TurningBack
  <2>10. \A k \in 1 .. 3 : Completing(j, k) => Completing(j, k)'
    BY <1>1, <2>3 DEF Completing, ForwardDisk, Dirs, Stands, Task, Rest, Forwards, Cleared
  <2>11. ASSUME NEW k \in 1 .. 4, GoingBack(j, k) PROVE GoingBack(j, k)'
    <3>1. PICK b \in BOOLEAN, x \in BOOLEAN :
            /\ skillTask = Task("recover", Backwards, k, j.prev, j.prev, b, x, j)
            /\ BackDisk(j, k, b, x)
      BY <2>11 DEF GoingBack
    <3>2. BackDisk(j, k, b, x)'
      BY <1>1, <2>3, <3>1 DEF BackDisk, Dirs
    <3>3. skillTask' = Task("recover", Backwards, k, j.prev, j.prev, b, x, j)
      BY <1>1, <3>1
    <3>4. Backwards' = Backwards
      BY DEF Backwards, Cleared
    <3> QED BY <3>2, <3>3, <3>4 DEF GoingBack, Task, Rest
  <2>12. \A k \in 1 .. 2 : Switching(j, k) => Switching(j, k)'
    BY <1>1, <2>3 DEF Switching, Stands, Task, Rest
  <2>13. SkillTaskSound'
    <3>1. \/ j.action = "replace" /\ \E k \in 1 .. 12 : Replacing(j, k)'
          \/ j.action = "replace" /\ \E k \in 1 .. 7 : PuttingBack(j, k)'
          \/ j.action = "remove" /\ \E k \in 1 .. 9 : Removing(j, k)'
          \/ j.action = "remove" /\ \E k \in 1 .. 4 : BringingBack(j, k)'
          \/ j.action = "toggle" /\ \E k \in 1 .. 6 : Toggling(j, k)'
          \/ j.action = "toggle" /\ \E k \in 1 .. 3 : TurningBack(j, k)'
          \/ \E k \in 1 .. 3 : Completing(j, k)'
          \/ \E k \in 1 .. 4 : GoingBack(j, k)'
          \/ \E k \in 1 .. 2 : Switching(j, k)'
      BY <2>1, <2>4, <2>5, <2>6, <2>7, <2>8, <2>9, <2>10, <2>11, <2>12, ZenonT(60)
    <3> QED BY <2>1, <2>2, <3>1 DEF SkillTaskSound
  <2> QED BY <1>2, <1>3, <2>13 DEF SkillsSound
<1> QED BY <1>4, <1>5

(* Every step of every operation and recovery keeps the invariant. *)
LEMMA SkillWorksKeeps ==
  ASSUME SkillsSound, SkillWorks, "sync" \notin Troubles, "recovery" \notin Troubles
  PROVE  SkillsSound'
<1>1. ~SkillIdle
  BY DEF SkillWorks, SavesPhase, MovesFiles, WritesRecord, Verifies, TurnsSwitch, FinishesSkill, Step
<1>2. PICK j \in GoodPlans :
        /\ SwitchIs(j)
        /\ \/ j.action = "replace" /\ \E k \in 1 .. 12 : Replacing(j, k)
           \/ j.action = "replace" /\ \E k \in 1 .. 7 : PuttingBack(j, k)
           \/ j.action = "remove" /\ \E k \in 1 .. 9 : Removing(j, k)
           \/ j.action = "remove" /\ \E k \in 1 .. 4 : BringingBack(j, k)
           \/ j.action = "toggle" /\ \E k \in 1 .. 6 : Toggling(j, k)
           \/ j.action = "toggle" /\ \E k \in 1 .. 3 : TurningBack(j, k)
           \/ \E k \in 1 .. 3 : Completing(j, k)
           \/ \E k \in 1 .. 4 : GoingBack(j, k)
           \/ \E k \in 1 .. 2 : Switching(j, k)
  BY <1>1 DEF SkillsSound, SkillTaskSound
<1>3. CASE j.action = "replace" /\ \E k \in 1 .. 12 : Replacing(j, k)
  BY <1>2, <1>3, ReplacingKeeps
<1>4. CASE j.action = "replace" /\ \E k \in 1 .. 7 : PuttingBack(j, k)
  BY <1>2, <1>4, PuttingBackKeeps
<1>5. CASE j.action = "remove" /\ \E k \in 1 .. 9 : Removing(j, k)
  BY <1>2, <1>5, RemovingKeeps
<1>6. CASE j.action = "remove" /\ \E k \in 1 .. 4 : BringingBack(j, k)
  BY <1>2, <1>6, BringingBackKeeps
<1>7. CASE j.action = "toggle" /\ \E k \in 1 .. 6 : Toggling(j, k)
  BY <1>2, <1>7, TogglingKeeps
<1>8. CASE j.action = "toggle" /\ \E k \in 1 .. 3 : TurningBack(j, k)
  BY <1>2, <1>8, TurningBackKeeps
<1>9. CASE \E k \in 1 .. 3 : Completing(j, k)
  BY <1>2, <1>9, CompletingKeeps
<1>10. CASE \E k \in 1 .. 4 : GoingBack(j, k)
  BY <1>2, <1>10, GoingBackKeeps
<1>11. CASE \E k \in 1 .. 2 : Switching(j, k)
  BY <1>2, <1>11, SwitchingKeeps
<1> QED BY <1>2, <1>3, <1>4, <1>5, <1>6, <1>7, <1>8, <1>9, <1>10, <1>11

(* Before its first journal is written an operation has changed nothing. *)
LEMMA NothingChanged ==
  ASSUME SkillsSound, skillJournal = None
  PROVE  /\ skillRecord.version # 0 => Target = skillRecord.version /\ skillSwitch = skillRecord.enabled
         /\ skillFiles.staging = 0 /\ skillFiles.backup = 0
<1>1. CASE SkillIdle
  BY <1>1 DEF SkillsSound, FilesMatchRecord
<1>2. CASE ~SkillIdle
  <2>1. PICK j \in GoodPlans :
          /\ SwitchIs(j)
          /\ \/ j.action = "replace" /\ \E k \in 1 .. 12 : Replacing(j, k)
             \/ j.action = "replace" /\ \E k \in 1 .. 7 : PuttingBack(j, k)
             \/ j.action = "remove" /\ \E k \in 1 .. 9 : Removing(j, k)
             \/ j.action = "remove" /\ \E k \in 1 .. 4 : BringingBack(j, k)
             \/ j.action = "toggle" /\ \E k \in 1 .. 6 : Toggling(j, k)
             \/ j.action = "toggle" /\ \E k \in 1 .. 3 : TurningBack(j, k)
             \/ \E k \in 1 .. 3 : Completing(j, k)
             \/ \E k \in 1 .. 4 : GoingBack(j, k)
             \/ \E k \in 1 .. 2 : Switching(j, k)
    BY <1>2 DEF SkillsSound, SkillTaskSound
  <2>2. ~LeftBy(j) /\ \A phase \in SkillPhases : skillJournal # Phase(j, phase)
    BY PlanPhase DEF LeftBy
  <2>3. {"prepared", "staged", "backed-up", "replaced", "verified", "committed", "committed-final",
         "rolling-back"} \subseteq SkillPhases
    BY DEF SkillPhases
  <2>4. Dirs(j.prev.version, 0, 0) /\ RecordOld(j) /\ (j.action = "toggle" => skillSwitch = j.prev.enabled)
    <3>1. ASSUME NEW k \in 1 .. 12, Replacing(j, k) PROVE Dirs(j.prev.version, 0, 0) /\ RecordOld(j)
      <4>1. k = 1
        BY <2>2, <2>3, <3>1 DEF Replacing, ReplacingDisk
      <4> QED BY <3>1, <4>1 DEF Replacing, ReplacingDisk
    <3>2. ASSUME NEW k \in 1 .. 7, PuttingBack(j, k) PROVE Dirs(j.prev.version, 0, 0) /\ RecordOld(j)
      BY <2>2, <2>3, <3>2 DEF PuttingBack, ReplacedDisk
    <3>3. ASSUME NEW k \in 1 .. 9, Removing(j, k) PROVE Dirs(j.prev.version, 0, 0) /\ RecordOld(j)
      <4>1. k = 1
        BY <2>2, <2>3, <3>3 DEF Removing, RemovingDisk
      <4> QED BY <3>3, <4>1 DEF Removing, RemovingDisk
    <3>4. \A k \in 1 .. 4 : ~BringingBack(j, k)
      BY <2>2, <2>3 DEF BringingBack, RemovedDisk
    <3>5. ASSUME NEW k \in 1 .. 6, Toggling(j, k)
          PROVE  Dirs(j.prev.version, 0, 0) /\ RecordOld(j) /\ skillSwitch = j.prev.enabled
      BY <2>2, <3>5 DEF Toggling, TogglingDisk
    <3>6. /\ \A k \in 1 .. 3 : ~TurningBack(j, k) /\ ~Completing(j, k)
          /\ \A k \in 1 .. 4 : ~GoingBack(j, k)
          /\ \A k \in 1 .. 2 : ~Switching(j, k)
      BY <2>2 DEF TurningBack, ToggledDisk, Completing, ForwardDisk, GoingBack, BackDisk, Switching
    <3>7. CASE j.action = "replace"
      <4>1. (\E k \in 1 .. 12 : Replacing(j, k)) \/ \E k \in 1 .. 7 : PuttingBack(j, k)
        BY <2>1, <3>6, <3>7
      <4> QED BY <3>1, <3>2, <3>7, <4>1
    <3>8. CASE j.action = "remove"
      <4>1. \E k \in 1 .. 9 : Removing(j, k)
        BY <2>1, <3>4, <3>6, <3>8
      <4> QED BY <3>3, <3>8, <4>1
    <3>9. CASE j.action = "toggle"
      <4>1. \E k \in 1 .. 6 : Toggling(j, k)
        BY <2>1, <3>6, <3>9
      <4> QED BY <3>5, <4>1
    <3> QED BY <3>7, <3>8, <3>9, PlanIs
  <2> QED BY <2>1, <2>4 DEF SwitchIs, RecordOld, NoRecord, Dirs, Target
<1> QED BY <1>1, <1>2

LEMMA SkillStepKeeps ==
  ASSUME SkillsSound, "sync" \notin Troubles, "recovery" \notin Troubles, [Next]_vars
  PROVE  SkillsSound'
<1>1. gatewayUp \in BOOLEAN /\ skillsUp \in BOOLEAN
  BY DEF SkillsSound, SkillTyped
<1>2. CASE UNCHANGED skillVars
  BY <1>1, <1>2, TaskStaysSound DEF skillVars, skillDisk
<1>3. CASE SkillWorks
  BY <1>3, SkillWorksKeeps
<1>4. CASE RecoversSkill
  BY <1>4, RecoversSkillKeeps
<1>5. CASE SkillsStart
  BY <1>1, <1>5, TaskStaysSound DEF SkillsStart
<1>6. CASE \E up \in BOOLEAN : GatewayTurns(up)
  BY <1>1, <1>6, TaskStaysSound DEF GatewayTurns
<1>7. CASE SkillAsked
  BY <1>7, AskedKeeps
<1>8. CASE SkillsCrash
  <2>1. SkillTyped' /\ DiskSound' /\ SkillTaskSound'
    BY <1>8, DiskStaysSound DEF SkillsCrash, SkillTaskSound, SkillIdle
  <2>2. FilesMatchRecord'
    <3>1. UNCHANGED <<skillFiles, skillRecord, skillJournal, skillSwitch>>
      BY <1>8 DEF SkillsCrash, skillDisk
    <3> QED BY <3>1, NothingChanged DEF FilesMatchRecord, Target
  <2> QED BY <2>1, <2>2 DEF SkillsSound
<1> QED BY <1>2, <1>3, <1>4, <1>5, <1>6, <1>7, <1>8 DEF Next, SkillStep, PluginStep, Ask, Crash, vars

LEMMA SkillsStaySound ==
  ASSUME "sync" \notin Troubles, "recovery" \notin Troubles
  PROVE  Spec => []SkillsSound
<1>1. Init => SkillsSound
  BY SkillsBeginSound DEF Init
<1>2. SkillsSound /\ [Next]_vars => SkillsSound'
  BY SkillStepKeeps
<1> QED BY <1>1, <1>2, PTL DEF Spec

(* What the invariant says of the directories is that they are whole. *)
LEMMA SoundMeansWhole == ASSUME SkillsSound PROVE SkillsAreWhole
<1>1. ASSUME skillJournal # None, skillJournal.prev.version # 0, ~Sealed(skillJournal),
             skillRecord # skillJournal.next
      PROVE  skillJournal.prev.version \in {Target, skillFiles.backup}
  <2>1. PICK j : j = skillJournal
    OBVIOUS
  <2>2. j \in GoodPlans /\ LeftBy(j)
    BY <1>1, <2>1, LeftPlan
  <2>3. Lies(j, j.phase)
    BY <2>1, <2>2, JournalIsPlan
  <2>4. CASE j.action = "replace"
    <3>1. /\ ReplaceLies(j, j.phase) /\ j.phase # "verified" /\ skillRecord # j.next /\ j.prev.version # 0
      BY <1>1, <2>1, <2>3, <2>4 DEF Lies, Sealed
    <3> QED BY <2>1, <3>1 DEF ReplaceLies, Dirs, Target
  <2>5. CASE j.action = "remove"
    <3>1. /\ RemoveLies(j, j.phase) /\ j.phase # "committed-final" /\ skillRecord # NoRecord
      BY <1>1, <2>1, <2>2, <2>3, <2>5, RemovalIs DEF Lies, Sealed
    <3> QED BY <2>1, <3>1 DEF RemoveLies, Dirs, Target
  <2>6. CASE j.action = "toggle"
    BY <2>1, <2>3, <2>6 DEF Lies, Dirs, Target
  <2> QED BY <2>2, <2>4, <2>5, <2>6, PlanIs
<1> QED BY <1>1 DEF SkillsSound, SkillsAreWhole, OldSurvives

(* With no journal left the directory of a skill is the one its record names and no other is
   left behind, and the version that an operation replaces is somewhere until the operation is
   final: through every failure and crash between two steps, for any number of versions.
   Assumed is that a change of a directory whose sync fails has not been made, and that a
   recovery clears its directory and its journal in one step; TLC finds the property violated
   without either. *)
THEOREM SkillsAreAlwaysWhole ==
  ASSUME "sync" \notin Troubles, "recovery" \notin Troubles
  PROVE  Spec => []SkillsAreWhole
BY SkillsStaySound, SoundMeansWhole, PTL
=================================================================================
