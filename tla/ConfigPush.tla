------------------------------ MODULE ConfigPush ------------------------------
(***************************************************************************)
(* What becomes of a configuration the controller pushes: the setparam      *)
(* branch of run_adopted_loop (the version is saved first, then the settings *)
(* are applied), apply_pushed_config with every failure it swallows, and the *)
(* switch with its running and its startup configuration.                   *)
(*                                                                         *)
(* The key exchange is in Bridge.  The switch is the one of Switch: what the *)
(* adapters promise of their calls, NetgearAdapter and DLinkAdapter keep, and *)
(* all that is used of them here are the steps of that contract.            *)
(*                                                                         *)
(* As in Bridge, the thread is down with its process, or dead in a process  *)
(* that lives on; saved and bare are before the save of a version that came *)
(* with settings, or without.                                               *)
(***************************************************************************)
EXTENDS Naturals, FiniteSets

CONSTANTS
  Vlans,        \* the VLANs the controller may want
  Ports,        \* the ports it may enable or disable
  Plans,        \* the configurations a human may ask for
  MaxVersion,   \* bound: how often the configuration is edited
  MaxOthers,    \* bound: how often others log into the switch
  MaxTears,     \* bound: how often the process dies inside a save
  SavesItself,  \* does the switch keep changes without save_config? (Netgear)
  Reboots       \* may the switch reboot?

ASSUME BoundAssumption == MaxVersion \in Nat \ {0} /\ MaxOthers \in Nat /\ MaxTears \in Nat
ASSUME SetsAssumption == IsFiniteSet(Vlans) /\ IsFiniteSet(Ports) /\ Vlans \cap Ports = {}
\* A configuration: VLANs that are to exist, ports that are to be up (TRUE)
\* or down (FALSE).
Configurations == [vlans : SUBSET Vlans, ports : [Ports -> BOOLEAN]]

ASSUME PlansAssumption == Plans \subseteq Configurations
ASSUME SwitchAssumption == SavesItself \in BOOLEAN /\ Reboots \in BOOLEAN

VARIABLES
  pc,          \* down, dead, report, saved, bare, vlans, ensuring, ports,
               \* setting, done
  cfgversion,  \* the local of run_adopted_loop, and the one in the state file
  disk,
  torn,        \* is there none, or is it cut off? (load_state then returns {})
  pushed,      \* system_cfg of the setparam in hand
  todo,        \* the ports of portsToDeploy still to come
  goal,        \* the version the controller wants, and what it is
  wanted,
  holds,       \* the switch: its VLANs and enabled ports; the adapter's last
  on, off,     \* call, and whether it returned with all as asked; how often
  ensured,     \* others logged in
  others,
  startup,     \* the startup configuration
  logged,      \* the settings whose failure was logged, for this version
  cut,         \* was the version in hand cut short by a crash, or did it
               \* come without settings, or with an adoption, which drops them?
  meddled,     \* did others log into the switch since it was pushed?
  tears,       \* how often the state file was lost to a crash
  passes       \* how often each version was taken to the switch

bridge     == <<pc, cfgversion, pushed, todo>>
controller == <<goal, wanted>>
adapter    == <<on, off, ensured>>
switch     == <<holds, startup>>
file       == <<disk, torn>>
history    == <<logged, cut, meddled, tears, passes>>
vars       == <<bridge, file, controller, adapter, others, switch, history>>

Versions == 0..MaxVersion
Settings == Vlans \cup Ports

Device == INSTANCE Switch

\* What is missing of configuration c on the switch.
Missing(c) == (c.vlans \ holds) \cup {p \in Ports : c.ports[p] # (p \in holds)}

Factory == [vlans |-> {}, ports |-> [p \in Ports |-> TRUE]]

Init ==
  /\ pc = "down"
  /\ cfgversion = 0 /\ disk = 0 /\ torn \in BOOLEAN
  /\ pushed = Factory /\ todo = {}
  /\ goal = 1 /\ wanted \in Plans
  /\ Device!Init /\ startup = holds
  /\ logged = {} /\ cut = FALSE /\ meddled = FALSE
  /\ tears = 0 /\ passes = [v \in Versions |-> 0]

\* Plausible bugs, for the mutation runs: one exception ends the whole
\* translation; a failure is not logged; the version is not saved.
StopAtFailure     == "done"
SwallowFailure(s) == logged
UnsavedVersion    == disk

\* run_bridge resumes from the state file.
Resume ==
  /\ ~torn
  /\ cfgversion' = disk
  /\ pc' = "report"
  /\ UNCHANGED <<file, pushed, todo, controller, adapter, others, switch, history>>

\* It finds nothing in the file; a human adopts the device, and that is saved.
\* The answer may hold the controller's version (else there is still none); of its
\* settings nothing is kept.
Readopt ==
  /\ torn
  /\ \E v \in {disk, goal} : disk' = v /\ cut' = (cut \/ v = goal)
  /\ cfgversion' = disk' /\ torn' = FALSE
  /\ pc' = "report"
  /\ UNCHANGED <<pushed, todo, controller, adapter, others, switch, logged, meddled, tears, passes>>

\* The process is (re)started, and resumes, or the device is adopted again.
Start == pc = "down" /\ Resume
Adopt == pc = "down" /\ Readopt

\* A visit to the page finds the thread dead and starts another.
Visit == pc = "dead" /\ (Resume \/ Readopt)

\* A report; the controller pushes its configuration when the version in the
\* report is not the one it wants: with the settings that belong to it, or the
\* version alone.
Push ==
  /\ pc = "report" /\ cfgversion # goal
  /\ cfgversion' = goal
  /\ pushed' = wanted
  /\ \/ pc' = "saved" /\ cut' = FALSE
     \/ pc' = "bare" /\ cut' = TRUE
  /\ logged' = {} /\ meddled' = FALSE
  /\ UNCHANGED <<file, todo, controller, adapter, others, switch, tears, passes>>

\* The same with settings and no version: nothing is saved, and the controller
\* will push again.
PushSettings ==
  /\ pc = "report" /\ cfgversion # goal
  /\ pushed' = wanted
  /\ pc' = "vlans" /\ todo' = Ports
  /\ logged' = {} /\ cut' = FALSE /\ meddled' = FALSE
  /\ UNCHANGED <<cfgversion, file, controller, adapter, others, switch, tears, passes>>

\* What the state file holds after save_state.
SavedVersion == cfgversion

\* The version is saved before the settings are looked at, if there are any.
SaveVersion ==
  /\ pc \in {"saved", "bare"}
  /\ disk' = SavedVersion
  /\ passes' = [passes EXCEPT ![cfgversion] = IF @ > MaxTears + 1 THEN @ ELSE @ + 1]
  /\ \/ pc = "saved" /\ pc' = "vlans" /\ todo' = Ports
     \/ pc = "bare" /\ pc' = "done" /\ UNCHANGED todo
  /\ UNCHANGED <<cfgversion, torn, pushed, controller, adapter, others, switch, logged, cut,
                 meddled, tears>>

\* The startup configuration after a change.
Kept == IF SavesItself THEN holds' ELSE startup

\* What has been logged once settings s failed.
LogFailure(s) == logged \cup s

\* Where an exception of ensure_vlans leads.
AfterFailure == "ports"

\* A call of the adapter begins.
Ask(more, less) == on' = more /\ off' = less /\ Device!Call /\ UNCHANGED startup

\* vlansToDeploy: with any, ensure_vlans is called.
ApplyVlans ==
  /\ pc = "vlans"
  /\ IF pushed.vlans = {}
       THEN pc' = "ports" /\ UNCHANGED <<adapter, others, switch>>
       ELSE pc' = "ensuring" /\ Ask(pushed.vlans, {})
  /\ UNCHANGED <<cfgversion, file, pushed, todo, controller, history>>

\* portsToDeploy: one set_port_enabled each.
ApplyPort ==
  /\ pc = "ports"
  /\ \E p \in todo :
       /\ todo' = todo \ {p}
       /\ IF pushed.ports[p] THEN Ask({p}, {}) ELSE Ask({}, {p})
  /\ pc' = "setting"
  /\ UNCHANGED <<cfgversion, file, pushed, controller, history>>

\* The adapter and the switch do some of what the call in progress, or one that
\* was given up, is for.
Work ==
  /\ \E after \in SUBSET (holds \cup on) : holds' = after /\ Device!Work
  /\ startup' = Kept
  /\ UNCHANGED <<bridge, file, controller, history>>

\* The call returns: with all as asked, or when others got into it.
Returned ==
  /\ pc \in {"ensuring", "setting"} /\ (ensured \/ meddled)
  /\ pc' = "ports"
  /\ UNCHANGED <<cfgversion, file, pushed, todo, controller, adapter, others, switch, history>>

\* It raises, with any part of it done, and perhaps more to come.
Raised ==
  /\ pc \in {"ensuring", "setting"} /\ ~ensured
  /\ logged' = LogFailure(on \cup off)
  /\ pc' = IF pc = "ensuring" THEN AfterFailure ELSE "ports"
  /\ UNCHANGED <<cfgversion, file, pushed, todo, controller, adapter, others, switch, cut,
                 meddled, tears, passes>>

\* A system_cfg that is no JSON, or whose VLANs or ports are no lists: what is
\* left of it is logged as a whole and not applied.
Malformed ==
  /\ pc \in {"vlans", "ports"}
  /\ logged' = LogFailure(IF pc = "vlans" THEN pushed.vlans \cup Ports ELSE todo)
  /\ todo' = {}
  /\ pc' = "done"
  /\ UNCHANGED <<cfgversion, file, pushed, controller, adapter, others, switch, cut, meddled,
                 tears, passes>>

\* "applied setparam (cfgversion=...)".
Applied ==
  /\ (pc = "ports" /\ todo = {}) \/ pc = "done"
  /\ pc' = "report"
  /\ UNCHANGED <<cfgversion, file, pushed, todo, controller, adapter, others, switch, history>>

\* The thread is over, at any point of a version's application.
Over(left) ==
  /\ pc' = left
  /\ cut' = (cut \/ pc \notin {"dead", "report", "saved"})
  /\ cfgversion' = 0 /\ todo' = {}
  /\ UNCHANGED <<file, pushed, controller, adapter, others, switch, logged, meddled, tears, passes>>

\* The process is killed.
Stop == pc # "down" /\ Over("down")

\* An exception nothing catches ends the thread: at a report that cannot read
\* the switch or decode the answer, at a save, at a key that is no hex.  What is
\* raised while settings are applied is caught.
Fails == pc \in {"report", "saved", "bare", "vlans"} /\ Over("dead")

\* It dies inside write_text, killed or by the disk: at the save of a version, of
\* a key that came with it or in a setparam of its own, or of an adoption.
Tear ==
  /\ pc \in {"report", "saved", "bare", "vlans"} /\ tears < MaxTears
  /\ torn' = TRUE /\ disk' = 0 /\ tears' = tears + 1
  /\ pc' \in {"down", "dead"} /\ cfgversion' = 0 /\ todo' = {}
  /\ cut' = (cut \/ pc = "vlans")
  /\ UNCHANGED <<pushed, controller, adapter, others, switch, logged, meddled, passes>>

\* A human edits the configuration in the controller.
EditConfig ==
  /\ goal < MaxVersion
  /\ goal' = goal + 1
  /\ wanted' \in Plans
  /\ UNCHANGED <<bridge, file, adapter, others, switch, history>>

\* Others log into the switch, and may change it.
Meddle ==
  /\ others < MaxOthers
  /\ Device!Others
  /\ startup' = Kept /\ meddled' = TRUE
  /\ UNCHANGED <<bridge, file, controller, logged, cut, tears, passes>>

\* The switch reboots, and comes up with its startup configuration.  A call in
\* progress finds it gone.
Reboot ==
  /\ Reboots
  /\ holds' = startup /\ ensured' = FALSE
  /\ UNCHANGED <<bridge, file, controller, on, off, others, startup, history>>

\* What the thread does once the version is saved.
Onward == ApplyVlans \/ ApplyPort \/ Returned \/ Raised \/ Applied

Next ==
  \/ Start \/ Adopt \/ Visit \/ Push \/ PushSettings \/ SaveVersion \/ Onward \/ Malformed
  \/ Stop \/ Fails \/ Tear
  \/ Work \/ Meddle \/ Reboot \/ EditConfig

Spec == Init /\ [][Next]_vars

\* Docker restarts a process that was killed; the controller does not leave the
\* version out of every setparam; the thread gets from the report to the save in
\* the end, and as long as it lives it runs on and its calls end.
FairSpec ==
  Spec /\ SF_vars(Start) /\ SF_vars(Push) /\ SF_vars(SaveVersion) /\ WF_vars(Onward)

-----------------------------------------------------------------------------
TypeOK ==
  /\ pc \in {"down", "dead", "report", "saved", "bare", "vlans", "ensuring", "ports", "setting",
            "done"}
  /\ cfgversion \in Versions /\ disk \in Versions /\ torn \in BOOLEAN
  /\ goal \in Versions \ {0}
  /\ pushed \in Configurations /\ wanted \in Configurations
  /\ holds \subseteq Settings /\ startup \subseteq Settings
  /\ on \subseteq Settings /\ off \subseteq Ports
  /\ ensured \in BOOLEAN /\ others \in 0..MaxOthers
  /\ todo \subseteq Ports
  /\ pc \in {"down", "dead", "report", "saved", "bare", "done"} => todo = {}
  /\ logged \subseteq Settings
  /\ cut \in BOOLEAN /\ meddled \in BOOLEAN
  /\ tears \in 0..MaxTears /\ passes \in [Versions -> 0..(MaxTears + 2)]

\* Between pushes, once the bridge reports the controller's version, everything
\* the controller wants is on the switch or its failure is in the log, unless a
\* crash cut the application short, the version came without settings or with the
\* adoption, or others used the switch meanwhile.
GapsAreLogged ==
  pc = "report" /\ cfgversion = goal /\ ~cut /\ ~meddled => Missing(wanted) \subseteq logged

\* The version is on disk before the switch is touched: a restart takes no
\* configuration to the switch a second time, unless a crash tore the state
\* file, and then each version once more at most.
RepeatsNeedTears == \A v \in Versions : passes[v] <= 1 + tears

\* The controller's last version is taken over in the end, however often the
\* process dies, unless nobody adopts the device, or adopts it again after it
\* died inside a save, or nobody looks after a thread that an exception ended.
LookedAfter == []<>(pc # "dead")
GoalIsTaken == LookedAfter => <>[](torn \/ disk = goal)
=============================================================================
