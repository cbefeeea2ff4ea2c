------------------------------ MODULE Capabilities ------------------------------
(* startElectronMain (desktop/src/main.ts): the skill service recovers and starts, then the
   plugin service, then the gateway and the windows.  The services share the process: a
   crash takes both, and a recovery that fails keeps all that comes after it from starting.
   One that failed is tried again with the application. *)
EXTENDS PluginService, SkillService

CONSTANTS
  MaxCrashes,   \* bound: crashes
  MaxAsked      \* bound: operations begun

ASSUME CapabilitiesAssumption == MaxCrashes \in Nat /\ MaxAsked \in Nat

VARIABLES crashes, asked

vars == <<pluginVars, skillVars, faults, crashes, asked>>

Up == skillsUp /\ pluginsUp

Init ==
  /\ PluginInit /\ SkillInit
  /\ faults = 0 /\ crashes = 0 /\ asked = 0

SkillStep ==
  /\ SkillWorks \/ RecoversSkill \/ SkillsStart \/ (Up /\ \E up \in BOOLEAN : GatewayTurns(up))
  /\ UNCHANGED <<pluginVars, crashes, asked>>

PluginStep ==
  /\ PluginWorks \/ (skillsUp /\ PluginsRecover)
  /\ UNCHANGED <<skillVars, crashes, asked>>

Ask ==
  /\ Up /\ asked < MaxAsked /\ asked' = asked + 1
  /\ (SkillAsked /\ UNCHANGED pluginVars) \/ (PluginAsked /\ UNCHANGED skillVars)
  /\ UNCHANGED crashes

Crash ==
  /\ crashes < MaxCrashes /\ crashes' = crashes + 1
  /\ SkillsCrash /\ PluginsCrash
  /\ UNCHANGED asked

Next == SkillStep \/ PluginStep \/ Ask \/ Crash
Spec == Init /\ [][Next]_vars

(* What has begun goes on, and the application is started again until it is there. *)
Starting ==
  \/ (SkillWorks \/ RecoversSkill \/ SkillsStart) /\ UNCHANGED <<pluginVars, crashes, asked>>
  \/ PluginStep
FairSpec == Spec /\ WF_vars(Starting)

TypeOK == PluginTypeOK /\ SkillTypeOK /\ faults \in 0 .. MaxFaults

(* Whatever was under way when it stopped, the application comes up again: no journal makes
   a recovery fail for good, which would keep the desktop from starting. *)
ComesUp == ~Up ~> Up
=============================================================================
