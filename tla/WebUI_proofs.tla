----------------------------- MODULE WebUI_proofs -----------------------------
(* One bridge, and the one that was set up: for every number of request       *)
(* threads, every set of configurations and every .env.                      *)
EXTENDS WebUI, FiniteSetTheorems, TLAPS

Places == {"idle", "open", "fill", "unlink", "acquire", "inside", "spawn"}
Stages == (Phases \ {"idle", "error"}) \cup {"unborn", "start", "dead"}

\* TypeOK without the two flags; and a process that is down has no threads.
ThreadsOK ==
  /\ ~up => \A t \in Threads : at[t] = "idle"
  /\ file \in Configs \cup {NoFile, Torn}
  /\ at \in [Threads -> Places]
  /\ cfg \in [Threads -> Configs]
  /\ orphans \subseteq {t \in Threads : at[t] = "fill"}
  /\ lock \in Threads \cup {Nobody}
  /\ current \in 0..MaxRuns
  /\ stage \in [Runs -> Stages]
  /\ phase \in Phases
  /\ ran \in Configs \cup {NoFile}
  /\ solo \in Requests \cup {Nobody} /\ kept \in Configs \cup {NoFile}

FlagsOK == up \in BOOLEAN /\ edited \in BOOLEAN

LEMMA TypeParts == ThreadsOK /\ FlagsOK => TypeOK
BY DEF ThreadsOK, FlagsOK, TypeOK, Places, Stages

LEMMA FlagsStep == FlagsOK /\ [Next]_vars => FlagsOK'
<1> SUFFICES ASSUME FlagsOK, [Next]_vars PROVE FlagsOK'
  OBVIOUS
<1> USE DEF FlagsOK, past
<1>1. CASE Boot
  BY <1>1, Zenon DEF Boot
<1>2. CASE Kill
  BY <1>2, Zenon DEF Kill
<1>3. CASE \E r \in Requests : Index(r) \/ Setup(r) \/ Reconfigure(r)
  BY <1>3, Zenon DEF Index, Setup, Reconfigure
<1>4. CASE \E t \in Threads : ThreadStep(t)
  BY <1>4, Zenon DEF ThreadStep, OpenConfig, FillConfig, Unlink, Acquire, CheckAlive, Spawn
<1>5. CASE \E i \in Runs : BridgeStep(i) \/ LoginFails(i) \/ Crashes(i)
  BY <1>5, Zenon DEF BridgeStep, Connect, Await, Resume, Adopted, Advance, LoginFails, Crashes, Dies
<1>6. CASE UNCHANGED vars
  BY <1>6, Zenon DEF vars
<1> QED
  BY <1>1, <1>2, <1>3, <1>4, <1>5, <1>6 DEF Next

LEMMA ThreadsInit == Init => ThreadsOK
BY NamesAssumption, RunsAssumption DEF Init, ThreadsOK, Places, Stages, Phases, Runs, Threads

LEMMA ThreadsStep == ThreadsOK /\ [Next]_vars => ThreadsOK'
<1> SUFFICES ASSUME ThreadsOK, [Next]_vars PROVE ThreadsOK'
  OBVIOUS
<1> USE NamesAssumption, RunsAssumption DEF ThreadsOK, Places, Stages, Phases, Go, past
<1>1. CASE Boot
  BY <1>1 DEF Boot, BootStep, BootConfig, LoadConfig, Threads
<1>2. CASE Kill
  BY <1>2 DEF Kill, web, Alive
<1>3. ASSUME NEW r \in Requests, Index(r) \/ Setup(r) \/ Reconfigure(r) PROVE ThreadsOK'
  <2>1. r \in Threads
    BY DEF Threads
  <2>2. CASE Index(r)
    BY <2>1, <2>2 DEF Index, Serving, LoadConfig, bridges
  <2>3. CASE Setup(r)
    BY <2>1, <2>3 DEF Setup, Serving, bridges
  <2>4. CASE Reconfigure(r)
    BY <2>1, <2>4 DEF Reconfigure, Serving, bridges
  <2> QED
    BY <1>3, <2>2, <2>3, <2>4
<1>4. ASSUME NEW t \in Threads, ThreadStep(t) PROVE ThreadsOK'
  <2>1. CASE OpenConfig(t)
    BY <2>1 DEF OpenConfig, bridges
  <2>2. CASE FillConfig(t)
    BY <2>2 DEF FillConfig, bridges
  <2>3. CASE Unlink(t)
    BY <2>3 DEF Unlink, bridges
  <2>4. CASE Acquire(t)
    BY <2>4 DEF Acquire, bridges
  <2>5. CASE CheckAlive(t)
    BY <2>5 DEF CheckAlive, AfterReturn, bridges
  <2>6. CASE Spawn(t)
    BY <2>6 DEF Spawn, Runs
  <2> QED
    BY <1>4, <2>1, <2>2, <2>3, <2>4, <2>5, <2>6 DEF ThreadStep
<1>5. CASE \E i \in Runs : BridgeStep(i) \/ LoginFails(i) \/ Crashes(i)
  BY <1>5 DEF BridgeStep, Connect, Await, Resume, Adopted, Advance, Shown, LoginFails, Crashes,
              Dies, web
<1>6. CASE UNCHANGED vars
  BY <1>6 DEF vars, web, bridges
<1> QED
  BY <1>1, <1>2, <1>3, <1>4, <1>5, <1>6 DEF Next

\* Type correctness of the web UI.
THEOREM TypeCorrect == Spec => []TypeOK
<1>1. Init => ThreadsOK /\ FlagsOK
  <2>1. Init => FlagsOK
    BY Zenon DEF Init, FlagsOK
  <2> QED
    BY <2>1, ThreadsInit
<1>2. (ThreadsOK /\ FlagsOK) /\ [Next]_vars => (ThreadsOK /\ FlagsOK)'
  BY ThreadsStep, FlagsStep
<1> QED
  BY <1>1, <1>2, TypeParts, PTL DEF Spec

-----------------------------------------------------------------------------
\* The lock is held by whoever is inside; only the last bridge thread may be
\* alive, and none is when a thread has found that none is.
OneInv ==
  /\ \A t \in Threads : at[t] \in {"inside", "spawn"} => lock = t
  /\ \A i \in Runs : Alive(i) => i = current
  /\ \A t \in Threads : at[t] = "spawn" => \A i \in Runs : ~Alive(i)

LEMMA OneStep == ThreadsOK /\ OneInv /\ [Next]_vars => OneInv'
<1> SUFFICES ASSUME ThreadsOK, OneInv, [Next]_vars PROVE OneInv'
  OBVIOUS
<1> USE NamesAssumption, RunsAssumption
    DEF ThreadsOK, OneInv, Places, Stages, Phases, Go, Alive
<1>1. CASE Boot
  BY <1>1 DEF Boot, BootStep, Threads
<1>2. CASE Kill
  BY <1>2 DEF Kill, web
<1>3. ASSUME NEW r \in Requests, Index(r) \/ Setup(r) \/ Reconfigure(r) PROVE OneInv'
  BY <1>3 DEF Index, Setup, Reconfigure, Serving, bridges, Threads
<1>4. ASSUME NEW t \in Threads, ThreadStep(t) PROVE OneInv'
  <2>1. CASE OpenConfig(t) \/ FillConfig(t) \/ Unlink(t)
    BY <2>1 DEF OpenConfig, FillConfig, Unlink, bridges
  <2>2. CASE Acquire(t)
    BY <2>2 DEF Acquire, MayEnter, bridges
  <2>3. CASE CheckAlive(t)
    BY <2>3 DEF CheckAlive, AfterReturn, bridges, Runs
  <2>4. CASE Spawn(t)
    BY <2>4 DEF Spawn, Runs
  <2> QED
    BY <1>4, <2>1, <2>2, <2>3, <2>4 DEF ThreadStep
<1>5. ASSUME NEW i \in Runs, BridgeStep(i) \/ LoginFails(i) \/ Crashes(i) PROVE OneInv'
  BY <1>5 DEF BridgeStep, Connect, Await, Resume, Adopted, Advance, Shown, LoginFails, Crashes,
              Dies, web
<1>6. CASE UNCHANGED vars
  BY <1>6 DEF vars, web, bridges
<1> QED
  BY <1>1, <1>2, <1>3, <1>4, <1>5, <1>6 DEF Next

LEMMA OneInit == Init => OneInv
BY NamesAssumption, RunsAssumption
   DEF Init, OneInv, Phases, Alive, Threads

\* However many requests interleave, one bridge at most runs.
THEOREM Exclusive == Spec => []OneBridge
<1>1. OneInv => OneBridge
  <2> SUFFICES ASSUME OneInv PROVE Cardinality({i \in Runs : Alive(i)}) <= 1
    BY DEF OneBridge
  <2>1. {i \in Runs : Alive(i)} \subseteq {current}
    BY DEF OneInv
  <2>2. IsFiniteSet({current}) /\ Cardinality({current}) = 1
    BY FS_Singleton
  <2>3. /\ Cardinality({i \in Runs : Alive(i)}) <= Cardinality({current})
    BY <2>1, <2>2, FS_Subset
  <2> QED
    BY <2>2, <2>3
<1> QED
  BY <1>1, OneInit, OneStep, ThreadsInit, ThreadsStep, PTL DEF Spec

-----------------------------------------------------------------------------
\* Who has saved a config is on the way to starting a bridge.
Starting == {"acquire", "inside", "spawn"}
StartInv ==
  up /\ file \in Configs => current # 0 \/ \E t \in Threads : at[t] \in Starting

LEMMA StartStep == ThreadsOK /\ StartInv /\ [Next]_vars => StartInv'
<1> SUFFICES ASSUME ThreadsOK, StartInv, [Next]_vars PROVE StartInv'
  OBVIOUS
<1> USE NamesAssumption, RunsAssumption DEF ThreadsOK, StartInv, Starting, Places, Go, past
<1>1. CASE Boot
  BY <1>1 DEF Boot, BootStep, BootConfig, LoadConfig, Threads
<1>2. CASE Kill
  BY <1>2 DEF Kill
<1>3. ASSUME NEW r \in Requests, Index(r) \/ Setup(r) \/ Reconfigure(r) PROVE StartInv'
  BY <1>3 DEF Index, Setup, Reconfigure, Serving, bridges, Threads
<1>4. ASSUME NEW t \in Threads, ThreadStep(t) PROVE StartInv'
  <2>1. CASE OpenConfig(t)
    BY <2>1 DEF OpenConfig, bridges
  <2>2. CASE FillConfig(t)
    BY <2>2 DEF FillConfig, bridges
  <2>3. CASE Unlink(t)
    BY <2>3 DEF Unlink, bridges
  <2>4. CASE Acquire(t)
    BY <2>4 DEF Acquire, bridges
  <2>5. CASE CheckAlive(t)
    BY <2>5 DEF CheckAlive, bridges
  <2>6. CASE Spawn(t)
    BY <2>6 DEF Spawn
  <2> QED
    BY <1>4, <2>1, <2>2, <2>3, <2>4, <2>5, <2>6 DEF ThreadStep
<1>5. CASE \E i \in Runs : BridgeStep(i) \/ LoginFails(i) \/ Crashes(i)
  BY <1>5 DEF BridgeStep, Connect, Await, Resume, Adopted, Advance, LoginFails, Crashes, Dies, web
<1>6. CASE UNCHANGED vars
  BY <1>6 DEF vars, web, bridges
<1> QED
  BY <1>1, <1>2, <1>3, <1>4, <1>5, <1>6 DEF Next

\* A saved setup is a started bridge once all is quiet.
THEOREM Started == Spec => []SavedIsStarted
<1>1. Init => StartInv
  BY NamesAssumption DEF Init, StartInv
<1>2. StartInv => SavedIsStarted
  BY DEF StartInv, SavedIsStarted, Quiet, Starting
<1> QED
  BY <1>1, <1>2, StartStep, ThreadsInit, ThreadsStep, PTL DEF Spec

-----------------------------------------------------------------------------
\* Until the first setup since the boot, the main thread alone writes the file,
\* and whoever is about to start a bridge has in hand what the file says.
RestartInv ==
  up /\ ~edited =>
    /\ \A r \in Requests : at[r] \notin {"open", "fill", "unlink"}
    /\ orphans = {}
    /\ at[Main] # "unlink"
    /\ at[Main] # "idle" =>
         /\ current = 0
         /\ \A r \in Requests : at[r] = "idle"
    /\ file \in Configs =>
         /\ \A t \in Threads : at[t] \in Starting => cfg[t] = file
         /\ current # 0 => ran = file
         /\ at[Main] \notin {"open", "fill"}

LEMMA RestartStep == ThreadsOK /\ RestartInv /\ [Next]_vars => RestartInv'
<1> SUFFICES ASSUME ThreadsOK, RestartInv, [Next]_vars PROVE RestartInv'
  OBVIOUS
<1> USE NamesAssumption, RunsAssumption
    DEF ThreadsOK, RestartInv, Starting, Places, Go, Threads, past
<1>1. CASE Boot
  BY <1>1 DEF Boot, BootStep, BootConfig, LoadConfig
<1>2. CASE Kill
  BY <1>2 DEF Kill
<1>3. ASSUME NEW r \in Requests, Index(r) \/ Setup(r) \/ Reconfigure(r) PROVE RestartInv'
  BY <1>3 DEF Index, Setup, Reconfigure, Serving, LoadConfig, bridges
<1>4. ASSUME NEW t \in Threads, ThreadStep(t) PROVE RestartInv'
  <2>1. CASE OpenConfig(t)
    BY <2>1 DEF OpenConfig, bridges
  <2>2. CASE FillConfig(t)
    BY <2>2 DEF FillConfig, bridges
  <2>3. CASE Unlink(t)
    BY <2>3 DEF Unlink, bridges
  <2>4. CASE Acquire(t)
    BY <2>4 DEF Acquire, bridges
  <2>5. CASE CheckAlive(t)
    BY <2>5 DEF CheckAlive, bridges
  <2>6. CASE Spawn(t)
    BY <2>6 DEF Spawn
  <2> QED
    BY <1>4, <2>1, <2>2, <2>3, <2>4, <2>5, <2>6 DEF ThreadStep
<1>5. CASE \E i \in Runs : BridgeStep(i) \/ LoginFails(i) \/ Crashes(i)
  <2>1. UNCHANGED <<up, file, orphans, at, cfg, current, ran, edited>>
    BY <1>5 DEF BridgeStep, Connect, Await, Resume, Adopted, Advance, LoginFails, Crashes, Dies, web
  <2> QED
    BY <2>1
<1>6. CASE UNCHANGED vars
  BY <1>6 DEF vars, web, bridges
<1> QED
  BY <1>1, <1>2, <1>3, <1>4, <1>5, <1>6 DEF Next

\* Whatever raced before it and whatever .env says: a restart runs the file.
THEOREM Restarted == Spec => []RestartRunsTheFile
<1>1. Init => RestartInv
  BY NamesAssumption DEF Init, RestartInv
<1>2. StartInv /\ RestartInv => RestartRunsTheFile
  BY DEF StartInv, RestartInv, RestartRunsTheFile, Quiet, Starting
<1>3. Init => StartInv
  BY NamesAssumption DEF Init, StartInv
<1> QED
  BY <1>1, <1>2, <1>3, StartStep, RestartStep, ThreadsInit, ThreadsStep, PTL DEF Spec

-----------------------------------------------------------------------------
\* A setup that goes on undisturbed has the file to itself; and while a finished
\* one is kept nobody changes the file.
KeptInv ==
  /\ solo # Nobody =>
       /\ at[solo] \in {"open", "fill"} /\ solo \notin orphans
       /\ at[solo] = "fill" => file = Torn
       /\ \A t \in Threads : Editing(t) => t = solo
  /\ kept # NoFile => file = kept /\ \A t \in Threads : ~Editing(t)

LEMMA KeptStep == ThreadsOK /\ KeptInv /\ [Next]_vars => KeptInv'
<1> SUFFICES ASSUME ThreadsOK, KeptInv, [Next]_vars PROVE KeptInv'
  OBVIOUS
<1> USE NamesAssumption DEF ThreadsOK, KeptInv, Editing, Places, Go, Threads, past
<1>1. CASE Boot
  BY <1>1 DEF Boot, BootStep, BootConfig, LoadConfig
<1>2. CASE Kill
  BY <1>2 DEF Kill
<1>3. ASSUME NEW r \in Requests, Index(r) \/ Setup(r) \/ Reconfigure(r) PROVE KeptInv'
  <2>1. CASE Index(r)
    BY <2>1 DEF Index, Serving
  <2>2. CASE Setup(r)
    BY <2>2 DEF Setup, Serving
  <2>3. CASE Reconfigure(r)
    BY <2>3 DEF Reconfigure, Serving
  <2> QED
    BY <1>3, <2>1, <2>2, <2>3
<1>4. ASSUME NEW t \in Threads, ThreadStep(t) PROVE KeptInv'
  <2>1. CASE OpenConfig(t)
    BY <2>1 DEF OpenConfig
  <2>2. CASE FillConfig(t)
    BY <2>2 DEF FillConfig
  <2>3. CASE Unlink(t)
    BY <2>3 DEF Unlink
  <2>4. CASE Acquire(t) \/ CheckAlive(t) \/ Spawn(t)
    BY <2>4 DEF Acquire, CheckAlive, Spawn
  <2> QED
    BY <1>4, <2>1, <2>2, <2>3, <2>4 DEF ThreadStep
<1>5. CASE \E i \in Runs : BridgeStep(i) \/ LoginFails(i) \/ Crashes(i)
  <2>1. UNCHANGED <<file, orphans, at, solo, kept>>
    BY <1>5 DEF BridgeStep, Connect, Await, Resume, Adopted, Advance, LoginFails, Crashes, Dies, web
  <2> QED
    BY <2>1
<1>6. CASE UNCHANGED vars
  BY <1>6 DEF vars, web
<1> QED
  BY <1>1, <1>2, <1>3, <1>4, <1>5, <1>6 DEF Next

\* A finished setup is on disk until the next edit, whatever is killed, booted
\* or viewed meanwhile.
THEOREM Survives == Spec => []SetupSurvives
<1>1. Init => KeptInv
  BY DEF Init, KeptInv
<1>2. KeptInv => SetupSurvives
  BY DEF KeptInv, SetupSurvives
<1> QED
  BY <1>1, <1>2, KeptStep, ThreadsInit, ThreadsStep, PTL DEF Spec
=============================================================================
