--------------------------- MODULE ConfigPush_proofs ---------------------------
(* Pushed configurations, for every set of VLANs and ports, any number of     *)
(* versions, and every way in which adapter calls and the process may end.    *)
EXTENDS ConfigPush, TLAPS

\* What a step of the contract of Switch means here.
LEMMA AskIs ==
  ASSUME NEW more, NEW less, Ask(more, less)
  PROVE  /\ on' = more /\ off' = less /\ UNCHANGED <<holds, startup, others>>
         /\ ensured' \in BOOLEAN
         /\ ensured' => more \subseteq holds' /\ less \cap holds' = {}
BY DEF Ask, Device!Call, Device!Return, Device!Achieved

LEMMA WorkIs ==
  ASSUME Work
  PROVE  /\ ~ensured /\ holds \ off \subseteq holds' /\ holds' \subseteq holds \cup on
         /\ UNCHANGED <<on, off, others, bridge, file, controller, history>>
         /\ startup' = Kept
         /\ ensured' \in BOOLEAN
         /\ ensured' => on' \subseteq holds' /\ off' \cap holds' = {}
BY DEF Work, Device!Work, Device!Return, Device!Achieved

LEMMA MeddleIs ==
  ASSUME Meddle
  PROVE  /\ others < MaxOthers /\ others' = others + 1
         /\ holds' \subseteq Settings /\ startup' = Kept
         /\ ensured' = FALSE /\ meddled' = TRUE
         /\ UNCHANGED <<on, off, bridge, file, controller, logged, cut, tears, passes>>
BY DEF Meddle, Device!Others

\* The versions' part of TypeOK, with their order: the version is saved before
\* it is applied, and none newer than the saved one was applied since the file
\* was torn last.
VersionInv ==
  /\ pc \in {"down", "dead", "report", "saved", "bare", "vlans", "ensuring", "ports", "setting",
            "done"}
  /\ cfgversion \in Versions /\ disk \in Versions /\ goal \in Versions \ {0}
  /\ disk <= goal /\ cfgversion <= goal
  /\ pc \in {"saved", "bare"} => disk < cfgversion
  /\ pc \notin {"down", "dead", "saved", "bare"} => cfgversion = disk
  /\ tears \in 0..MaxTears /\ passes \in [Versions -> 0..(MaxTears + 2)]
  /\ \A v \in Versions : passes[v] <= 1 + tears /\ (v > disk => passes[v] <= tears)

\* The rest of it.
SettingsInv ==
  /\ pushed \in Configurations /\ wanted \in Configurations
  /\ holds \subseteq Settings /\ startup \subseteq Settings
  /\ on \subseteq Settings /\ off \subseteq Ports
  /\ todo \subseteq Ports
  /\ pc \in {"down", "dead", "report", "saved", "bare", "done"} => todo = {}
  /\ logged \subseteq Settings
OthersInv == others \in 0..MaxOthers
FlagsInv  == ensured \in BOOLEAN /\ torn \in BOOLEAN /\ cut \in BOOLEAN /\ meddled \in BOOLEAN

LEMMA TypeParts == VersionInv /\ SettingsInv /\ OthersInv /\ FlagsInv => TypeOK
BY DEF VersionInv, SettingsInv, OthersInv, FlagsInv, TypeOK

LEMMA VersionStep == VersionInv /\ [Next]_vars => VersionInv'
<1> SUFFICES ASSUME VersionInv, [Next]_vars PROVE VersionInv'
  OBVIOUS
<1> USE BoundAssumption DEF VersionInv, Versions
<1>1. CASE Start \/ Adopt \/ Visit
  <2>1. /\ pc' = "report" /\ cfgversion' = disk'
        /\ disk' \in {disk, goal} /\ UNCHANGED <<goal, tears, passes>>
    BY <1>1, Zenon DEF Start, Adopt, Visit, Resume, Readopt, file, controller, history
  <2>2. CASE disk' = disk
    BY <2>1, <2>2
  <2>3. CASE disk' = goal
    BY <2>1, <2>3
  <2> QED
    BY <2>1, <2>2, <2>3
<1>2. CASE Push \/ PushSettings
  BY <1>2 DEF Push, PushSettings, file, controller
<1>3. CASE SaveVersion
  BY <1>3 DEF SaveVersion, SavedVersion, controller
<1>4. CASE Onward
  BY <1>4 DEF Onward, ApplyVlans, ApplyPort, Returned, Raised, AfterFailure, Applied, file,
              controller,
              history
<1>5. CASE Work \/ Meddle
  BY <1>5, WorkIs, MeddleIs DEF bridge, file, controller, history
<1>6. CASE Malformed
  BY <1>6 DEF Malformed, file, controller
<1>7. CASE Stop \/ Fails
  BY <1>7 DEF Stop, Fails, Over, file, controller
<1>8. CASE EditConfig
  BY <1>8 DEF EditConfig, bridge, file, history
<1>9. CASE Reboot
  BY <1>9 DEF Reboot, bridge, file, controller, history
<1>10. CASE Tear
  <2>1. /\ pc' \in {"down", "dead"} /\ disk' = 0 /\ cfgversion' = 0 /\ UNCHANGED <<goal, passes>>
        /\ tears < MaxTears /\ tears' = tears + 1
    BY <1>10 DEF Tear, controller
  <2> QED
    BY <2>1
<1>11. CASE UNCHANGED vars
  BY <1>11 DEF vars, bridge, file, controller, history
<1> QED
  BY <1>1, <1>2, <1>3, <1>4, <1>5, <1>6, <1>7, <1>8, <1>9, <1>11, <1>10 DEF Next

LEMMA SettingsStep == SettingsInv /\ [Next]_vars => SettingsInv'
<1> SUFFICES ASSUME SettingsInv, [Next]_vars PROVE SettingsInv'
  OBVIOUS
<1> USE DEF SettingsInv, Settings, Configurations
<1>1. CASE \/ Start \/ Adopt \/ Visit \/ Push \/ PushSettings \/ SaveVersion
           \/ Stop \/ Fails \/ Tear \/ EditConfig
  BY <1>1, PlansAssumption
  DEF Start, Adopt, Visit, Resume, Readopt, Push, PushSettings, SaveVersion, Stop, Fails, Over,
      Tear,
      EditConfig, bridge, controller, adapter, switch, history
<1>2. CASE ApplyVlans
  <2>1. CASE pushed.vlans = {}
    BY <1>2, <2>1 DEF ApplyVlans, adapter, switch, controller, history
  <2>2. CASE pushed.vlans # {}
    <3>1. Ask(pushed.vlans, {})
      BY <1>2, <2>2 DEF ApplyVlans
    <3> QED
      BY <1>2, <2>2, <3>1, AskIs DEF ApplyVlans, controller, history
  <2> QED
    BY <2>1, <2>2
<1>3. CASE ApplyPort
  <2>1. PICK p \in todo : /\ todo' = todo \ {p}
                          /\ IF pushed.ports[p] THEN Ask({p}, {}) ELSE Ask({}, {p})
    BY <1>3 DEF ApplyPort
  <2>2. on' \subseteq {p} /\ off' \subseteq {p} /\ UNCHANGED <<holds, startup>>
    BY <2>1, AskIs
  <2> QED
    BY <1>3, <2>1, <2>2 DEF ApplyPort, controller, history
<1>4. CASE Returned \/ Applied
  BY <1>4 DEF Returned, Applied, adapter, switch, controller, history
<1>5. CASE Raised
  BY <1>5 DEF Raised, LogFailure, AfterFailure, adapter, switch, controller
<1>6. CASE Malformed
  BY <1>6 DEF Malformed, LogFailure, adapter, switch, controller
<1>7. CASE Work
  BY <1>7, WorkIs DEF Kept, bridge, controller, history
<1>8. CASE Meddle
  BY <1>8, MeddleIs DEF Kept, bridge, controller
<1>9. CASE Reboot
  BY <1>9 DEF Reboot, bridge, controller, history
<1>10. CASE UNCHANGED vars
  BY <1>10 DEF vars, bridge, adapter, switch, controller, history
<1> QED
  BY <1>1, <1>2, <1>3, <1>4, <1>5, <1>6, <1>7, <1>8, <1>9, <1>10 DEF Next, Onward

LEMMA OthersStep == OthersInv /\ [Next]_vars => OthersInv'
<1> SUFFICES ASSUME OthersInv, [Next]_vars PROVE OthersInv'
  OBVIOUS
<1>1. CASE Meddle
  BY <1>1, MeddleIs, BoundAssumption DEF OthersInv
<1>2. CASE ApplyVlans \/ ApplyPort \/ Work
  BY <1>2, AskIs, WorkIs DEF OthersInv, ApplyVlans, ApplyPort
<1>3. CASE UNCHANGED others
  BY <1>3 DEF OthersInv
<1> QED
  BY <1>1, <1>2, <1>3 DEF Next, Onward, Start, Adopt, Visit, Resume, Readopt, Push, PushSettings,
                          SaveVersion, Returned, Raised, Applied, Malformed, Stop, Fails, Over,
                          Tear, EditConfig, Reboot, vars

LEMMA FlagsStep == FlagsInv /\ [Next]_vars => FlagsInv'
<1> SUFFICES ASSUME FlagsInv, [Next]_vars PROVE FlagsInv'
  OBVIOUS
<1>1. ensured' = ensured \/ ensured' \in BOOLEAN
  BY AskIs, WorkIs, MeddleIs, Zenon
  DEF Next, Onward, Start, Adopt, Visit, Resume, Readopt, Push, PushSettings, SaveVersion,
      ApplyVlans, ApplyPort, Returned, Raised, Applied,
      Malformed, Stop, Fails, Over, Tear, EditConfig, Reboot, adapter, vars
<1>2. \/ cut' = cut \/ cut' = FALSE \/ cut' = TRUE
      \/ cut' = (cut \/ pc \notin {"dead", "report", "saved"})
      \/ cut' = (cut \/ pc = "vlans") \/ \E v \in {disk, goal} : cut' = (cut \/ v = goal)
  BY WorkIs, MeddleIs, Zenon
  DEF Next, Onward, Start, Adopt, Visit, Resume, Readopt, Push, PushSettings, SaveVersion,
      ApplyVlans, ApplyPort, Returned, Raised, Applied,
      Malformed, Stop, Fails, Over, Tear, EditConfig, Reboot, history, vars
<1>3. meddled' = meddled \/ meddled' \in BOOLEAN
  BY WorkIs, MeddleIs, Zenon
  DEF Next, Onward, Start, Adopt, Visit, Resume, Readopt, Push, PushSettings, SaveVersion,
      ApplyVlans, ApplyPort, Returned, Raised, Applied,
      Malformed, Stop, Fails, Over, Tear, EditConfig, Reboot, history, vars
<1>4. torn' = torn \/ torn' = TRUE \/ torn' = FALSE
  BY WorkIs, MeddleIs, Zenon
  DEF Next, Onward, Start, Adopt, Visit, Resume, Readopt, Push, PushSettings, SaveVersion,
      ApplyVlans, ApplyPort, Returned, Raised,
      Applied, Malformed, Stop, Fails, Over, Tear, EditConfig, Reboot, file, vars
<1> QED
  BY <1>1, <1>2, <1>3, <1>4 DEF FlagsInv

LEMMA InitInv == Init => VersionInv /\ SettingsInv /\ OthersInv /\ FlagsInv
<1> SUFFICES ASSUME Init PROVE VersionInv /\ SettingsInv /\ OthersInv /\ FlagsInv
  OBVIOUS
<1>1. VersionInv
  BY BoundAssumption DEF Init, VersionInv, Versions
<1>2. SettingsInv
  BY PlansAssumption DEF Init, SettingsInv, Settings, Configurations, Factory, Device!Init
<1>3. OthersInv
  BY BoundAssumption DEF Init, OthersInv, Device!Init
<1>4. FlagsInv
  BY Zenon DEF Init, FlagsInv, Device!Init
<1> QED
  BY <1>1, <1>2, <1>3, <1>4

\* Type correctness, whatever adapter, process and controller do.
THEOREM TypeCorrect == Spec => []TypeOK
BY InitInv, VersionStep, SettingsStep, OthersStep, FlagsStep, TypeParts, PTL DEF Spec

\* However often the process dies, no version is taken to the switch more often
\* than state files were torn, plus once: its number is on disk before.
THEOREM Once == Spec => []RepeatsNeedTears
<1>1. VersionInv => RepeatsNeedTears
  BY DEF VersionInv, RepeatsNeedTears
<1> QED
  BY <1>1, InitInv, VersionStep, PTL DEF Spec

\* The call in progress, or given up last, is for nothing but what was pushed.
Agrees ==
  /\ on \cap Vlans \subseteq pushed.vlans
  /\ \A p \in Ports : (p \in on => pushed.ports[p]) /\ (p \in off => ~pushed.ports[p])

\* An ensured call left everything as asked; what calls the thread is in.
CallInv ==
  /\ ensured => on \subseteq holds /\ off \cap holds = {}
  /\ pc \in {"vlans", "ensuring"} => todo = Ports
  /\ pc = "ensuring" => on = pushed.vlans /\ off = {}
  /\ pc = "setting" => Agrees

\* What may still be missing without having been logged.
Pending == todo \cup (IF pc = "setting" THEN on \cup off ELSE {})

\* Has the pushed version been applied, or its ports begun?
Settling ==
  pc \in {"ports", "setting", "done"} \/ (pc \in {"down", "dead", "report"} /\ disk = goal)

\* Whatever a call that was given up still does, it cannot undo what a later one
\* achieved.
GapInv ==
  ~cut /\ ~meddled /\ Settling =>
    /\ Missing(pushed) \subseteq logged \cup Pending
    /\ Agrees \/ Ports \subseteq logged \cup todo

\* A version that came without settings counts as one whose settings are lost.
BareInv == pc = "bare" => cut

LEMMA BareStep == BareInv /\ [Next]_vars => BareInv'
<1> SUFFICES ASSUME BareInv, [Next]_vars, pc' = "bare" PROVE cut'
  BY DEF BareInv
<1>1. CASE Push
  BY <1>1 DEF Push
<1>2. CASE Work \/ Meddle \/ Reboot \/ EditConfig \/ UNCHANGED vars
  BY <1>2, WorkIs, MeddleIs DEF BareInv, Reboot, EditConfig, vars, bridge, history
<1> QED
  BY <1>1, <1>2 DEF Next, Onward, Start, Adopt, Visit, Resume, Readopt, PushSettings, SaveVersion,
                    ApplyVlans, ApplyPort, Returned, Raised, AfterFailure, Applied, Malformed, Stop,
                    Fails, Over, Tear

\* A switch that saves its changes has nothing to lose by a reboot.
StartupInv == SavesItself => startup = holds

LEMMA StartupStep == StartupInv /\ [Next]_vars => StartupInv'
<1> SUFFICES ASSUME StartupInv, [Next]_vars PROVE StartupInv'
  OBVIOUS
<1>1. CASE Work \/ Meddle
  BY <1>1, WorkIs, MeddleIs DEF StartupInv, Kept
<1>2. CASE ApplyVlans \/ ApplyPort
  BY <1>2, AskIs DEF StartupInv, ApplyVlans, ApplyPort, switch
<1>3. CASE Reboot
  BY <1>3 DEF StartupInv, Reboot
<1>4. CASE UNCHANGED switch
  BY <1>4 DEF StartupInv, switch
<1> QED
  BY <1>1, <1>2, <1>3, <1>4 DEF Next, Onward, Start, Adopt, Visit, Resume, Readopt, Push,
                                PushSettings,
                               SaveVersion, Returned, Raised, Applied, Malformed, Stop, Fails,
                               Over, Tear, EditConfig, vars

\* A version stands for one configuration: whoever has the controller's version
\* has what the controller wants, unless it came with the adoption.
WantedInv ==
  ~cut /\ ((pc \notin {"down", "dead"} /\ cfgversion = goal) \/ disk = goal) => pushed = wanted

LEMMA WantedStep == VersionInv /\ WantedInv /\ [Next]_vars => WantedInv'
<1> SUFFICES ASSUME VersionInv, WantedInv, [Next]_vars PROVE WantedInv'
  OBVIOUS
<1> USE DEF WantedInv
<1>1. CASE Start \/ (Visit /\ Resume) \/ Push \/ PushSettings \/ SaveVersion
  BY <1>1 DEF Start, Resume, Push, PushSettings, SaveVersion, SavedVersion, VersionInv, file,
              controller,
              history
<1>2. CASE Adopt \/ (Visit /\ Readopt)
  BY <1>2 DEF Adopt, Readopt, VersionInv, controller
<1>3. CASE EditConfig
  BY <1>3 DEF EditConfig, VersionInv, Versions, bridge, file
<1>4. CASE Tear
  BY <1>4 DEF Tear, VersionInv, Versions, controller
<1>5. CASE Onward
  BY <1>5 DEF Onward, ApplyVlans, ApplyPort, Returned, Raised, AfterFailure, Applied,
              VersionInv, file, controller, history
<1>6. CASE Malformed
  BY <1>6 DEF Malformed, VersionInv, file, controller
<1>7. CASE Work \/ Meddle \/ Reboot
  BY <1>7, WorkIs, MeddleIs DEF Reboot, bridge, file, controller, history
<1>8. CASE Stop \/ Fails
  <2>1. /\ pc' \in {"down", "dead"} /\ UNCHANGED <<disk, goal, pushed, wanted>>
        /\ cut => cut'
    BY <1>8 DEF Stop, Fails, Over, file, controller
  <2> QED
    BY <2>1
<1>9. CASE UNCHANGED vars
  BY <1>9 DEF vars, bridge, file, controller, history
<1> QED
  BY <1>1, <1>2, <1>3, <1>4, <1>5, <1>6, <1>7, <1>8, <1>9 DEF Next, Visit

\* What the next lemmas assume of a state.
Known == VersionInv /\ SettingsInv /\ FlagsInv /\ CallInv /\ BareInv /\ StartupInv

LEMMA PortCall ==
  ASSUME SettingsInv, ApplyPort
  PROVE  \E p \in todo :
           /\ todo' = todo \ {p} /\ pc = "ports" /\ pc' = "setting"
           /\ on' \cup off' = {p}
           /\ p \in on' => pushed.ports[p]
           /\ p \in off' => ~pushed.ports[p]
           /\ UNCHANGED <<holds, startup, pushed, logged, cut, meddled, disk, goal>>
           /\ ensured' => on' \subseteq holds' /\ off' \cap holds' = {}
<1>1. PICK p \in todo : /\ todo' = todo \ {p}
                        /\ IF pushed.ports[p] THEN Ask({p}, {}) ELSE Ask({}, {p})
  BY DEF ApplyPort
<1>2. pc = "ports" /\ pc' = "setting" /\ UNCHANGED <<pushed, logged, cut, meddled, disk, goal>>
  BY DEF ApplyPort, file, controller, history
<1>3. CASE pushed.ports[p]
  BY <1>1, <1>2, <1>3, AskIs
<1>4. CASE ~pushed.ports[p]
  BY <1>1, <1>2, <1>4, AskIs
<1> QED
  BY <1>3, <1>4

LEMMA VlansCall ==
  ASSUME ApplyVlans
  PROVE  /\ UNCHANGED <<todo, holds, startup, pushed, logged, cut, meddled, disk, goal>>
         /\ pc = "vlans"
         /\ \/ pushed.vlans = {} /\ pc' = "ports" /\ UNCHANGED adapter
            \/ /\ pc' = "ensuring" /\ on' = pushed.vlans /\ off' = {}
               /\ ensured' => on' \subseteq holds' /\ off' \cap holds' = {}
<1>1. UNCHANGED <<todo, pushed, logged, cut, meddled, disk, goal>> /\ pc = "vlans"
  BY DEF ApplyVlans, file, controller, history
<1>2. CASE pushed.vlans = {}
  BY <1>1, <1>2 DEF ApplyVlans, switch
<1>3. CASE pushed.vlans # {}
  <2>1. Ask(pushed.vlans, {}) /\ pc' = "ensuring"
    BY <1>3 DEF ApplyVlans
  <2> QED
    BY <1>1, <2>1, AskIs
<1> QED
  BY <1>2, <1>3

LEMMA CallStep == Known /\ [Next]_vars => CallInv'
<1> SUFFICES ASSUME Known, [Next]_vars PROVE CallInv'
  OBVIOUS
<1> USE DEF Known, CallInv, Agrees
<1>1. CASE Start \/ Adopt \/ Visit \/ Push \/ PushSettings \/ Stop \/ Fails \/ Tear \/ Malformed
  BY <1>1 DEF Start, Adopt, Visit, Resume, Readopt, Push, PushSettings, Stop, Fails, Over, Tear,
              Malformed, adapter, switch
<1>2. CASE SaveVersion
  BY <1>2 DEF SaveVersion, adapter, switch
<1>3. CASE ApplyVlans
  BY <1>3, VlansCall DEF adapter
<1>4. CASE ApplyPort
  <2>1. PICK p \in todo :
          /\ pc' = "setting" /\ on' \cup off' = {p}
          /\ p \in on' => pushed.ports[p]
          /\ p \in off' => ~pushed.ports[p]
          /\ UNCHANGED pushed
          /\ ensured' => on' \subseteq holds' /\ off' \cap holds' = {}
    BY <1>4, PortCall
  <2>2. p \in Ports /\ p \notin Vlans
    BY SetsAssumption DEF SettingsInv
  <2> QED
    BY <2>1, <2>2
<1>5. CASE Returned \/ Raised \/ Applied
  BY <1>5 DEF Returned, Raised, AfterFailure, Applied, adapter, switch
<1>6. CASE Work
  BY <1>6, WorkIs DEF bridge
<1>7. CASE Meddle
  BY <1>7, MeddleIs DEF bridge
<1>8. CASE EditConfig \/ Reboot
  BY <1>8 DEF EditConfig, Reboot, bridge, adapter, switch
<1>9. CASE UNCHANGED vars
  BY <1>9 DEF vars, bridge, adapter, switch
<1> QED
  BY <1>1, <1>2, <1>3, <1>4, <1>5, <1>6, <1>7, <1>8, <1>9 DEF Next, Onward

\* The steps of the thread that apply a version.
LEMMA GapOnward == Known /\ GapInv /\ (Onward \/ Malformed) => GapInv'
<1> SUFFICES ASSUME Known, GapInv, Onward \/ Malformed, ~cut', ~meddled'
             PROVE  /\ Missing(pushed)' \subseteq logged' \cup Pending' \/ ~Settling'
                    /\ Agrees' \/ Ports \subseteq logged' \cup todo' \/ ~Settling'
  BY DEF GapInv
<1> USE DEF Known, GapInv, CallInv, Agrees, Missing, Pending, Settling, SettingsInv, Configurations
<1>1. CASE ApplyVlans
  <2>1. /\ UNCHANGED <<todo, holds, pushed, logged>> /\ todo = Ports
        /\ (pushed.vlans = {} /\ pc' = "ports") \/ pc' = "ensuring"
    BY <1>1, VlansCall
  <2>2. CASE pushed.vlans = {} /\ pc' = "ports"
    BY <2>1, <2>2
  <2> QED
    BY <2>1, <2>2
<1>2. CASE ApplyPort
  <2>1. PICK p \in todo :
          /\ todo' = todo \ {p} /\ pc = "ports" /\ pc' = "setting"
          /\ on' \cup off' = {p}
          /\ p \in on' => pushed.ports[p]
          /\ p \in off' => ~pushed.ports[p]
          /\ UNCHANGED <<holds, pushed, logged, cut, meddled>>
    BY <1>2, PortCall
  <2>2. p \in Ports /\ p \notin Vlans
    BY SetsAssumption
  <2>3. Missing(pushed) \subseteq logged \cup todo
    BY <2>1
  <2>4. Missing(pushed)' \subseteq logged' \cup Pending'
    BY <2>1, <2>3
  <2>5. Agrees'
    BY <2>1, <2>2
  <2> QED
    BY <2>4, <2>5
<1>3. CASE Returned
  BY <1>3, SetsAssumption DEF Returned, adapter, switch, history
<1>4. CASE Raised
  BY <1>4, SetsAssumption DEF Raised, LogFailure, AfterFailure, adapter, switch
<1>5. CASE Applied
  BY <1>5 DEF Applied, adapter, switch, file, history, controller
<1>6. CASE Malformed
  BY <1>6 DEF Malformed, LogFailure, adapter, switch
<1> QED
  BY <1>1, <1>2, <1>3, <1>4, <1>5, <1>6 DEF Onward

\* Everything else: the rest of the thread, the switch, the controller.
LEMMA GapOthers ==
  ASSUME SavesItself \/ ~Reboots, Known, GapInv, [Next]_vars, ~Onward, ~Malformed
  PROVE  GapInv'
<1> SUFFICES ASSUME ~cut', ~meddled', Settling'
             PROVE  /\ Missing(pushed)' \subseteq logged' \cup Pending'
                    /\ Agrees' \/ Ports \subseteq logged' \cup todo'
  BY DEF GapInv
<1> USE DEF Known, GapInv, Settling
<1>1. CASE Start \/ (Visit /\ Resume)
  <2>1. /\ pc \in {"down", "dead"}
        /\ UNCHANGED <<todo, holds, on, off, pushed, logged, cut, meddled, disk, goal>>
    BY <1>1 DEF Start, Visit, Resume, file, adapter, switch, controller, history
  <2>2. Settling
    BY <1>1, <2>1 DEF Start, Visit, Resume
  <2>3. Missing(pushed)' = Missing(pushed) /\ (Agrees' <=> Agrees) /\ Pending = todo
    BY <2>1 DEF Missing, Agrees, Pending
  <2> QED
    BY <2>1, <2>2, <2>3 DEF Pending
<1>2. CASE Adopt \/ (Visit /\ Readopt)
  <2>1. pc' = "report" /\ goal' = goal /\ \E v \in {disk, goal} : disk' = v /\ (v = goal => cut')
    BY <1>2 DEF Adopt, Visit, Readopt, controller
  <2> QED
    BY <2>1
<1>3. CASE Push \/ PushSettings \/ SaveVersion
  <2>1. pc' \in {"saved", "bare", "vlans", "done"} /\ (pc' = "done" => cut /\ UNCHANGED cut)
    BY <1>3 DEF Push, PushSettings, SaveVersion, BareInv
  <2> QED
    BY <2>1
<1>4. CASE Stop \/ Fails
  <2>1. /\ pc' \in {"down", "dead"} /\ todo' = {}
        /\ cut' = (cut \/ pc \notin {"dead", "report", "saved"})
        /\ UNCHANGED <<disk, goal, pushed, on, off, holds, logged, meddled>>
    BY <1>4 DEF Stop, Fails, Over, file, adapter, switch, controller
  <2>2. ~cut /\ ~meddled /\ pc \in {"dead", "report", "saved"} /\ disk = goal
    BY <2>1
  <2>3. pc \in {"dead", "report"}
    BY <2>2, BoundAssumption DEF VersionInv, Versions
  <2>4. todo = {} /\ Pending = {} /\ Pending' = {}
    BY <2>1, <2>3 DEF SettingsInv, Pending
  <2>5. Missing(pushed)' = Missing(pushed) /\ (Agrees' <=> Agrees)
    BY <2>1 DEF Missing, Agrees
  <2> QED
    BY <2>1, <2>2, <2>3, <2>4, <2>5
<1>5. CASE Work
  <2>1. UNCHANGED <<on, off, pc, todo, pushed, logged, cut, meddled, disk, goal>>
    BY <1>5, WorkIs DEF bridge, file, controller, history
  <2>2. holds \ off \subseteq holds' /\ holds' \subseteq holds \cup on
    BY <1>5, WorkIs
  <2>3. off \subseteq Ports /\ Vlans \cap Ports = {} /\ pushed.vlans \subseteq Vlans
    BY SetsAssumption DEF SettingsInv, Configurations
  <2>4. Agrees \/ Ports \subseteq logged \cup todo
    BY <2>1
  <2>5. Missing(pushed)' \subseteq Missing(pushed) \cup logged \cup todo
    <3> SUFFICES ASSUME NEW x \in Missing(pushed)', x \notin logged, x \notin todo
                 PROVE  x \in Missing(pushed)
      OBVIOUS
    <3>1. CASE x \in Vlans
      BY <2>1, <2>2, <2>3, <3>1 DEF Missing
    <3>2. CASE x \in Ports
      <4>1. Agrees
        BY <2>4, <3>2
      <4>2. pushed.ports[x] # (x \in holds')
        BY <2>1, <2>3, <3>2 DEF Missing
      <4>3. pushed.ports[x] # (x \in holds)
        BY <2>2, <3>2, <4>1, <4>2 DEF Agrees, SettingsInv, Configurations
      <4> QED
        BY <3>2, <4>3 DEF Missing
    <3> QED
      BY <2>1, <2>3, <3>1, <3>2 DEF Missing
  <2> QED
    BY <2>1, <2>4, <2>5 DEF Pending, Agrees
<1>6. CASE Meddle
  BY <1>6, MeddleIs
<1>7. CASE EditConfig
  BY <1>7 DEF EditConfig, VersionInv, Versions, Missing, Pending, Agrees, bridge, file, adapter,
              switch,
              history
<1>8. CASE Reboot
  BY <1>8 DEF Reboot, StartupInv, Missing, Pending, Agrees, bridge, file, controller, history
<1>9. CASE Tear
  BY <1>9 DEF Tear, VersionInv, Versions, controller
<1>10. CASE UNCHANGED vars
  BY <1>10 DEF vars, Missing, Pending, Agrees, bridge, file, adapter, switch, controller, history
<1> QED
  BY <1>1, <1>2, <1>3, <1>4, <1>5, <1>6, <1>7, <1>8, <1>9, <1>10 DEF Next, Visit

\* On a switch that keeps its changes, or is never rebooted, every setting the
\* controller wants is on it or was logged as failed, unless a crash cut its
\* application short, its version came without settings or with the adoption, or
\* others used the switch meanwhile.
THEOREM Logged ==
  ASSUME SavesItself \/ ~Reboots
  PROVE  Spec => []GapsAreLogged
<1> DEFINE IInv == Known /\ GapInv /\ WantedInv
<1>1. Init => IInv
  <2> SUFFICES ASSUME Init PROVE IInv
    OBVIOUS
  <2>1. CallInv /\ BareInv /\ StartupInv
    BY DEF Init, CallInv, BareInv, StartupInv, Device!Init
  <2>2. GapInv
    BY DEF Init, GapInv, Settling
  <2>3. WantedInv
    BY BoundAssumption DEF Init, WantedInv
  <2> QED
    BY <2>1, <2>2, <2>3, InitInv DEF Known
<1>2. IInv /\ [Next]_vars => IInv'
  BY VersionStep, SettingsStep, FlagsStep, CallStep, BareStep, StartupStep, WantedStep,
    GapOnward, GapOthers
  DEF Known
<1>3. IInv => GapsAreLogged
  BY DEF GapsAreLogged, Known, WantedInv, GapInv, Settling, Pending, VersionInv, SettingsInv
<1> QED
  BY <1>1, <1>2, <1>3, PTL DEF Spec
=============================================================================
