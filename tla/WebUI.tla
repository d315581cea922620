-------------------------------- MODULE WebUI --------------------------------
(***************************************************************************)
(* The container's entrypoint, webui.py: a main thread that boots, Flask     *)
(* request threads, the config file they share, the lock around starting    *)
(* the bridge thread, and the BridgeStatus the status page shows.           *)
(*                                                                         *)
(* Of run_bridge only what the page can see is kept: the stages of its       *)
(* thread and the phases it sets.                                           *)
(***************************************************************************)
EXTENDS Naturals, FiniteSets

CONSTANTS
  Requests,  \* the request threads Flask may have at a time
  Configs,   \* what a setup form may be filled in with
  Environments,  \* what .env may configure: some of Configs, or NoFile
  NoFile,    \* there is no config file
  Torn,      \* the file does not parse
  Main,      \* the thread that boots
  Nobody,    \* the owner of a free lock
  MaxRuns    \* bound: bridge threads started by one process

Threads == Requests \cup {Main}
Runs    == 1..MaxRuns

ASSUME NamesAssumption ==
  /\ Main \notin Requests /\ Nobody \notin Threads
  /\ Configs # {} /\ NoFile \notin Configs /\ Torn \notin Configs /\ NoFile # Torn
  /\ Environments \subseteq Configs \cup {NoFile} /\ Environments # {}
ASSUME RunsAssumption == MaxRuns \in Nat \ {0}

VARIABLES
  up,       \* is the process running?
  file,     \* the config file
  at,       \* where each thread is: idle, open, fill, unlink, acquire, inside, spawn
  cfg,      \* the config each thread has in hand
  orphans,  \* threads whose open file was unlinked meanwhile
  lock,     \* bridge_thread_lock
  current,  \* bridge_thread: the number of the last one started, 0 for None
  stage,    \* of each bridge thread: unborn, start, connecting_switch,
            \* waiting_adopt, adopted, dead
  phase,    \* status.phase
  ran,      \* the config the last bridge thread was started with
  edited,   \* was there a setup or a reconfiguration since the boot?
  solo,     \* history: the setup under way that nobody has disturbed, or Nobody
  kept      \* history: what the last setup saved, if nobody disturbed it and
            \* nothing was edited since; or else NoFile

web     == <<at, cfg, lock>>
bridges == <<current, stage, ran>>
past    == <<edited, solo, kept>>
vars    == <<up, file, orphans, web, bridges, phase, past>>

Alive(i) == stage[i] \notin {"unborn", "dead"}

\* Plausible bugs, for the mutation runs: a lock that does not exclude, one that
\* is not given back by the early return, a boot that waits for the first
\* visitor, one that saves its config over the file it has it from, a phase the
\* status page does not know.
NoLock(t)           == TRUE
KeepLock            == lock
LazyBoot(c)         == "idle"
SaveAlways(c)       == IF c = NoFile THEN "idle" ELSE "open"
UndocumentedPhase(s) == "resuming"

Init ==
  /\ up = FALSE
  /\ file = NoFile
  /\ at = [t \in Threads |-> "idle"]
  /\ cfg \in [Threads -> {CHOOSE c \in Configs : TRUE}]
  /\ orphans = {}
  /\ lock = Nobody
  /\ current = 0
  /\ stage = [i \in Runs |-> "unborn"]
  /\ phase = "idle"
  /\ ran = NoFile
  /\ edited = FALSE /\ solo = Nobody /\ kept = NoFile

Go(t, where) == at' = [at EXCEPT ![t] = where]

\* load_config: a file that does not parse is as good as none.
LoadConfig == IF file = Torn THEN NoFile ELSE file

\* A plausible bug, for the mutation runs: .env goes before what was set up.
EnvFirst(env) == IF env # NoFile THEN env ELSE LoadConfig

\* load_config, or else config_from_env.
BootConfig(env) == IF LoadConfig # NoFile THEN LoadConfig ELSE env

\* The main thread: saves a config it has from the environment if there is no
\* file, starts the bridge if it has a config, serves.
BootStep(c) ==
  IF c = NoFile THEN "idle" ELSE IF file = NoFile THEN "open" ELSE "acquire"

Boot ==
  /\ ~up /\ up' = TRUE
  /\ \E env \in Environments :
       /\ Go(Main, BootStep(BootConfig(env)))
       /\ cfg' = IF BootConfig(env) = NoFile THEN cfg
                 ELSE [cfg EXCEPT ![Main] = BootConfig(env)]
  /\ current' = 0
  /\ stage' = [i \in Runs |-> "unborn"]
  /\ phase' = "idle"
  /\ ran' = NoFile
  /\ edited' = FALSE
  /\ UNCHANGED <<file, orphans, lock, solo, kept>>

\* A request thread is free to take a request once the main thread serves.
Serving(r) == up /\ at[Main] = "idle" /\ at[r] = "idle"

\* GET /: the status page starts the bridge from the file; without a config it
\* is the setup page, and nothing happens.
Index(r) ==
  /\ Serving(r)
  /\ LoadConfig # NoFile
  /\ cfg' = [cfg EXCEPT ![r] = LoadConfig]
  /\ Go(r, "acquire")
  /\ UNCHANGED <<up, file, orphans, lock, bridges, phase, past>>

\* Whoever is between the start of an edit of the file and its end.
Editing(t) == at[t] \in {"open", "fill", "unlink"}

\* POST /setup.
Setup(r) ==
  /\ Serving(r)
  /\ \E c \in Configs : cfg' = [cfg EXCEPT ![r] = c]
  /\ Go(r, "open")
  /\ edited' = TRUE /\ kept' = NoFile
  /\ solo' = IF \E t \in Threads : Editing(t) THEN Nobody ELSE r
  /\ UNCHANGED <<up, file, orphans, lock, bridges, phase>>

\* GET /reconfigure: CONFIG_FILE.exists() ...
Reconfigure(r) ==
  /\ Serving(r)
  /\ file # NoFile
  /\ Go(r, "unlink")
  /\ edited' = TRUE /\ kept' = NoFile /\ solo' = Nobody
  /\ UNCHANGED <<up, file, orphans, cfg, lock, bridges, phase>>

\* ... and unlink(), which raises if another request was faster.
Unlink(r) ==
  /\ at[r] = "unlink"
  /\ file' = NoFile
  /\ orphans' = IF file = NoFile THEN orphans
                ELSE orphans \cup {t \in Threads : at[t] = "fill"}
  /\ Go(r, "idle")
  /\ UNCHANGED <<up, cfg, lock, bridges, phase, past>>

\* save_config: write_text truncates the file ...
OpenConfig(t) ==
  /\ at[t] = "open"
  /\ file' = Torn
  /\ Go(t, "fill")
  /\ UNCHANGED <<up, orphans, cfg, lock, bridges, phase, past>>

\* ... and writes it, into a file that is gone if it was unlinked, and over
\* the text of another writer that truncated it before and is done.
FillConfig(t) ==
  /\ at[t] = "fill"
  /\ \/ t \in orphans /\ UNCHANGED file
     \/ t \notin orphans /\ file' = cfg[t]
     \/ t \notin orphans /\ file \in Configs /\ file' = Torn
  /\ orphans' = orphans \ {t}
  /\ Go(t, "acquire")
  /\ kept' = IF solo = t THEN cfg[t] ELSE kept
  /\ solo' = IF solo = t THEN Nobody ELSE solo
  /\ UNCHANGED <<up, cfg, lock, bridges, phase, edited>>

\* start_bridge: with bridge_thread_lock ...
MayEnter(t) == lock = Nobody

\* The lock after the early return.
AfterReturn == Nobody

Acquire(t) ==
  /\ at[t] = "acquire" /\ MayEnter(t)
  /\ lock' = t
  /\ Go(t, "inside")
  /\ UNCHANGED <<up, file, orphans, cfg, bridges, phase, past>>

\* ... an alive thread is left alone, whatever config it runs ...
CheckAlive(t) ==
  /\ at[t] = "inside"
  /\ IF current # 0 /\ Alive(current)
       THEN Go(t, "idle") /\ lock' = AfterReturn
       ELSE Go(t, "spawn") /\ UNCHANGED lock
  /\ UNCHANGED <<up, file, orphans, cfg, bridges, phase, past>>

\* ... else a new one is started.
Spawn(t) ==
  /\ at[t] = "spawn" /\ current < MaxRuns
  /\ current' = current + 1
  /\ stage' = [stage EXCEPT ![current + 1] = "start"]
  /\ ran' = cfg[t]
  /\ lock' = Nobody
  /\ Go(t, "idle")
  /\ UNCHANGED <<up, file, orphans, cfg, phase, past>>

\* The phase run_bridge shows at a stage.
Shown(s) == s

\* run_bridge goes on: it logs in; resumes or waits for Adopt; is adopted.
Advance(i, from, to) ==
  /\ stage[i] = from
  /\ stage' = [stage EXCEPT ![i] = to]
  /\ phase' = Shown(to)
  /\ UNCHANGED <<up, file, orphans, web, current, ran, past>>

Connect(i) == Advance(i, "start", "connecting_switch")
Await(i)   == Advance(i, "connecting_switch", "waiting_adopt")
Resume(i)  == Advance(i, "connecting_switch", "adopted")
Adopted(i) == Advance(i, "waiting_adopt", "adopted")

Dies(i, show) ==
  /\ current < MaxRuns
  /\ stage' = [stage EXCEPT ![i] = "dead"]
  /\ phase' = show
  /\ UNCHANGED <<up, file, orphans, web, current, ran, past>>

\* The login fails: the one failure that is shown.
LoginFails(i) == stage[i] = "connecting_switch" /\ Dies(i, "error")

\* Anything else run_bridge does not catch: an unknown model, the switch's
\* information, an undecodable answer, a save that fails.
Crashes(i) == Alive(i) /\ Dies(i, phase)

\* The container is stopped or killed.
Kill ==
  /\ up /\ up' = FALSE
  /\ at' = [t \in Threads |-> "idle"]
  /\ orphans' = {} /\ lock' = Nobody
  /\ stage' = [i \in Runs |-> IF Alive(i) THEN "dead" ELSE stage[i]]
  /\ solo' = Nobody
  /\ UNCHANGED <<file, cfg, current, ran, phase, edited, kept>>

ThreadStep(t) ==
  OpenConfig(t) \/ FillConfig(t) \/ Unlink(t) \/ Acquire(t) \/ CheckAlive(t) \/ Spawn(t)

BridgeStep(i) == Connect(i) \/ Await(i) \/ Resume(i) \/ Adopted(i)

Next ==
  \/ Boot \/ Kill
  \/ \E r \in Requests : Index(r) \/ Setup(r) \/ Reconfigure(r)
  \/ \E t \in Threads : ThreadStep(t)
  \/ \E i \in Runs : BridgeStep(i) \/ LoginFails(i) \/ Crashes(i)

Spec == Init /\ [][Next]_vars

\* Docker restarts the container, and threads run; the lock is handed out so
\* that none waits for ever.  Requests are up to the human.
FairSpec ==
  /\ Spec
  /\ WF_vars(Boot)
  /\ \A t \in Threads : SF_vars(ThreadStep(t))
  /\ \A i \in Runs : WF_vars(BridgeStep(i))

-----------------------------------------------------------------------------
Phases == {"idle", "connecting_switch", "waiting_adopt", "adopted", "error"}

TypeOK ==
  /\ up \in BOOLEAN
  /\ file \in Configs \cup {NoFile, Torn}
  /\ at \in [Threads -> {"idle", "open", "fill", "unlink", "acquire", "inside", "spawn"}]
  /\ cfg \in [Threads -> Configs]
  /\ orphans \subseteq {t \in Threads : at[t] = "fill"}
  /\ lock \in Threads \cup {Nobody}
  /\ current \in 0..MaxRuns
  /\ stage \in [Runs -> (Phases \ {"idle", "error"}) \cup {"unborn", "start", "dead"}]
  /\ phase \in Phases
  /\ ran \in Configs \cup {NoFile}
  /\ edited \in BOOLEAN
  /\ solo \in Requests \cup {Nobody} /\ kept \in Configs \cup {NoFile}

\* However requests interleave, one bridge at most talks to the switch and the
\* controller: two would kick each other's session and share the state file.
OneBridge == Cardinality({i \in Runs : Alive(i)}) <= 1

\* Quiet: booted, and no request in progress.
Quiet == up /\ \A t \in Threads : at[t] = "idle"

\* A saved setup is a started bridge: after a restart, and after a setup that
\* raced with page views, reconfigurations and other setups.
SavedIsStarted == Quiet /\ file \in Configs => current # 0

\* What was set up last is what runs once the container was restarted: whatever
\* .env says, however the setup before raced, and although it found a bridge
\* running and left it alone.  A setup since the boot is excepted: start_bridge
\* does nothing then.
RestartRunsTheFile ==
  Quiet /\ ~edited /\ file \in Configs => current # 0 /\ ran = file

\* A setup that was finished, with no other edit under way, stays on disk until
\* the next edit: no kill, no boot, no .env and no page view loses it.
SetupSurvives == kept # NoFile => file = kept

\* No request is stuck behind another.
RequestsFinish == \A t \in Threads : (at[t] # "idle") ~> (at[t] = "idle")

\* A phase between idle and error is that of a bridge that runs.
PhaseIsLive ==
  up /\ phase \in {"connecting_switch", "waiting_adopt", "adopted"}
    => \E i \in Runs : Alive(i)
=============================================================================
