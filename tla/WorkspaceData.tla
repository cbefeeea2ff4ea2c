---------------------------- MODULE WorkspaceData ----------------------------
(* The versioned mutations of createDataService (desktop/src/data/data-service.ts):
   memory.write, memory.delete and workspace.delete move their target into a staging
   transaction, check its version there, and then create, delete or give back;
   workspace.rename and move check before and after.  OpenClaw writes the same files
   whenever its gateway is up.  The tracked write around a mutation is DesktopData's. *)
EXTENDS Maintenance

CONSTANT Mutators   \* mutations under way, one slot each

Transactions == [file : Files, payload : 0 .. MaxVersion, journal : BOOLEAN]
ASSUME NoneIsNoTransaction == None \notin Transactions

VARIABLES
  mutation,  \* progress of a mutation: [at, file, version]; version: the one
             \* the caller expects, then the one it has written
  staged     \* .uclaw-data-staging/<id>: [file, payload, journal], or None

workspaceVars == <<mutation, staged>>

NoMutation == [at |-> "idle", file |-> None, version |-> 0]
MutationStages == {"idle", "root", "stage", "verify", "giveback", "unjournal", "create",
                   "check", "drop", "delete", "forget", "restore", "rename", "move", "identify", "leave"}

WorkspaceTypeOK ==
  \A w \in Mutators :
    /\ mutation[w].at \in MutationStages
    /\ mutation[w].file \in Files \cup {None} /\ mutation[w].version \in 0 .. MaxVersion
    /\ staged[w] \in Transactions \cup {None}

WorkspaceInit ==
  /\ mutation = [w \in Mutators |-> NoMutation]
  /\ staged = [w \in Mutators |-> None]

In(w, stage) == mutation[w].at = stage
File(w) == mutation[w].file
Goto(w, stage) == mutation' = [mutation EXCEPT ![w].at = stage]
MutationOver(w) == mutation' = [mutation EXCEPT ![w] = NoMutation]
RestOfDisk == UNCHANGED <<diskVars, op>>
NoFile == UNCHANGED <<live, newest, clock, diskVars, op>>

(* A mutation enters its tracked write.  Its caller names a file and the version it once
   read of it: the one it has, one that is staged, or one it has no longer, for which 0
   stands.  What is to be done with the file is settled where the operations part.  Two
   mutations of one file at the same time are a trouble of their own: the tracked writes
   of the product exclude each other no more than any others. *)
Staged == {v \in Mutators : staged[v] # None}
Begins(w, f) ==
  /\ Trouble("together") \/ \A v \in Mutators \ {w} : File(v) # f
  /\ \E version \in {0, live[f]} \cup {staged[v].payload : v \in Staged} :
       mutation' = [mutation EXCEPT ![w] = [at |-> "root", file |-> f, version |-> version]]

(* getRoot: recoverStagedTargets on the transactions nobody is working on, in the order
   of their random names: the first one of a file comes back, if the file is not there. *)
Stale(w) == w \in Staged /\ mutation[w].at \in {"idle", "root", "leave"}
Broken == \E w \in Mutators : Stale(w) /\ ~staged[w].journal /\ staged[w].payload # 0
Back(f) == {w \in Mutators : Stale(w) /\ staged[w].file = f /\ staged[w].payload # 0}
Recovered ==
  {[f \in Files |-> IF live[f] = 0 /\ Back(f) # {} THEN staged[first[f]].payload ELSE live[f]] :
     first \in {g \in [Files -> Mutators] : \A f \in Files : Back(f) # {} => g[f] \in Back(f)}}
RecoverStaged ==
  /\ ~Broken
  /\ live' \in Recovered
  /\ staged' = [w \in Mutators |-> IF Stale(w) THEN None ELSE staged[w]]

(* Any read of the workspace or the memory opens the root too, with no tracked write. *)
ReadOpensRoot ==
  /\ \E w \in Mutators : Stale(w)
  /\ RecoverStaged
  /\ UNCHANGED <<newest, clock, mutation>> /\ RestOfDisk

RootOpens(w) ==
  /\ In(w, "root")
  /\ \/ RecoverStaged /\ (Goto(w, "stage") \/ (Trouble("rename") /\ Goto(w, "rename")))
     \/ Broken /\ Goto(w, "leave") /\ UNCHANGED <<live, staged>>
  /\ UNCHANGED <<newest, clock>> /\ RestOfDisk

-----------------------------------------------------------------------------
(* stageVersionedTarget: directory and journal, move, version check; its catch moves the
   target back unless somebody made it anew, and removes the journal. *)
StagesTarget(w) ==
  /\ In(w, "stage")
  /\ live' = [live EXCEPT ![File(w)] = 0]
  /\ staged' = [staged EXCEPT ![w] = [file |-> File(w), payload |-> live[File(w)], journal |-> TRUE]]
  /\ Goto(w, IF live[File(w)] = 0 THEN "unjournal" ELSE "verify")
  /\ UNCHANGED <<newest, clock>> /\ RestOfDisk

Verifies(w) ==
  /\ In(w, "verify")
  /\ IF staged[w].payload # mutation[w].version THEN Goto(w, "giveback")
     ELSE Goto(w, "create") \/ (Trouble("delete") /\ Goto(w, "delete"))
  /\ NoFile /\ UNCHANGED staged

\* Mistake: moving back overwrites what is there.
MovesBack_Over(w) ==
  /\ live' = [live EXCEPT ![File(w)] = staged[w].payload]
  /\ staged' = [staged EXCEPT ![w].payload = 0]

(* A move that does not overwrite: the staged target is back, or stays staged. *)
MovesBack(w) ==
  IF live[File(w)] = 0
  THEN /\ live' = [live EXCEPT ![File(w)] = staged[w].payload]
       /\ staged' = [staged EXCEPT ![w].payload = 0]
  ELSE UNCHANGED <<live, staged>>

GivesBack(w) ==
  /\ In(w, "giveback")
  /\ MovesBack(w)
  /\ Goto(w, "unjournal")
  /\ UNCHANGED <<newest, clock>> /\ RestOfDisk

(* removeStagingTransaction: the journal, then the directory if it is empty. *)
Unjournals(w) ==
  /\ In(w, "unjournal")
  /\ staged' = [staged EXCEPT ![w] = IF @.payload = 0 THEN None ELSE [@ EXCEPT !.journal = FALSE]]
  /\ Goto(w, "leave")
  /\ NoFile

(* memory.write: the new content under the old name, unless somebody wrote first. *)
Creates(w) ==
  /\ In(w, "create")
  /\ \/ /\ live[File(w)] = 0 /\ NextVersion
        /\ live' = [live EXCEPT ![File(w)] = clock + 1]
        /\ newest' = [newest EXCEPT ![File(w)] = clock + 1]
        /\ mutation' = [mutation EXCEPT ![w] = [@ EXCEPT !.at = "check", !.version = clock + 1]]
     \/ /\ live[File(w)] # 0 \/ Trouble("io") \/ clock = MaxVersion
        /\ Goto(w, "restore") /\ UNCHANGED <<live, newest, clock>>
  /\ RestOfDisk /\ UNCHANGED staged

Checks(w) ==
  /\ In(w, "check")
  /\ Goto(w, IF live[File(w)] = mutation[w].version THEN "drop" ELSE "restore")
  /\ NoFile /\ UNCHANGED staged

(* The staged target is deleted: the old version of a write, or what a delete asked for. *)
Drops(w) ==
  /\ In(w, "drop") \/ In(w, "delete")
  /\ staged' = [staged EXCEPT ![w].payload = 0]
  /\ newest' = IF In(w, "delete") /\ newest[File(w)] = staged[w].payload
               THEN [newest EXCEPT ![File(w)] = 0] ELSE newest
  /\ Goto(w, "forget")
  /\ UNCHANGED <<live, clock>> /\ RestOfDisk

Forgets(w) ==
  /\ In(w, "forget")
  /\ staged' = [staged EXCEPT ![w] = None]
  /\ Goto(w, "leave")
  /\ NoFile

(* restoreStagedTarget: the staged target loses to a file that is there. *)
Restores(w) ==
  /\ In(w, "restore")
  /\ IF live[File(w)] = 0 THEN MovesBack(w)
     ELSE UNCHANGED live /\ staged' = [staged EXCEPT ![w].payload = 0]
  /\ Goto(w, "forget")
  /\ UNCHANGED <<newest, clock>> /\ RestOfDisk

-----------------------------------------------------------------------------
(* workspace.rename and move: the version is checked, the file moved to a free name, its
   identity checked there; a file of another version is moved back. *)
ChecksBeforeRename(w) ==
  /\ In(w, "rename")
  /\ Goto(w, IF live[File(w)] = mutation[w].version THEN "move" ELSE "leave")
  /\ NoFile /\ UNCHANGED staged

MovesFile(from, to) ==
  /\ live' = [live EXCEPT ![to] = live[from], ![from] = 0]
  /\ newest' = [newest EXCEPT ![to] = live[from], ![from] = 0]

Renames(w, g) ==
  /\ In(w, "move") /\ g # File(w)
  /\ IF live[File(w)] = 0 \/ live[g] # 0
     THEN Goto(w, "leave") /\ UNCHANGED <<live, newest>>
     ELSE Goto(w, "identify") /\ MovesFile(File(w), g)
  /\ UNCHANGED <<clock, staged>> /\ RestOfDisk

ChecksAfterRename(w, g) ==
  /\ In(w, "identify") /\ g # File(w)
  /\ Goto(w, "leave")
  /\ IF live[g] # mutation[w].version /\ live[g] # 0 /\ live[File(w)] = 0
     THEN MovesFile(g, File(w)) ELSE UNCHANGED <<live, newest>>
  /\ UNCHANGED <<clock, staged>> /\ RestOfDisk

MutationStep(w) ==
  \/ RootOpens(w) \/ StagesTarget(w) \/ Verifies(w) \/ GivesBack(w) \/ Unjournals(w)
  \/ Creates(w) \/ Checks(w) \/ Drops(w) \/ Forgets(w) \/ Restores(w)
  \/ ChecksBeforeRename(w)
  \/ \E g \in Files : Renames(w, g) \/ ChecksAfterRename(w, g)

(* OpenClaw writes a file of the data root. *)
GatewayWrites(f) ==
  /\ NextVersion
  /\ live' = [live EXCEPT ![f] = clock + 1]
  /\ newest' = [newest EXCEPT ![f] = clock + 1]
  /\ RestOfDisk /\ UNCHANGED workspaceVars

-----------------------------------------------------------------------------
(* The newest content of a file is on the disk, in its place or where the code can still
   find it: in a staging transaction with its journal, or in a rollback copy with its
   journal, through every interleaving of mutations, OpenClaw's own writes, restores,
   their rollbacks and a process that stops between two of their steps. *)
NothingLost ==
  \A f \in Files :
    \/ newest[f] = 0
    \/ live[f] = newest[f]
    \/ \E w \in Mutators : /\ staged[w] # None /\ staged[w].journal
                           /\ staged[w].file = f /\ staged[w].payload = newest[f]
    \/ journal /\ rollback # None /\ rollback[f] = newest[f]
=============================================================================
