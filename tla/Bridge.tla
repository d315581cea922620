------------------------------- MODULE Bridge -------------------------------
(***************************************************************************)
(* The bridge process of bridge_daemon.py and the UniFi controller it      *)
(* informs: adoption under the default key, the informs under the device   *)
(* key, the state file the key and the config version are saved in, and    *)
(* what a crash, a lost answer or a late request does to them.             *)
(*                                                                         *)
(* The bridge is one thread.  Its program counter:                         *)
(*   down      the process is not running (not started, or killed)         *)
(*   dead      the process runs, but an exception has ended the thread     *)
(*   discover  top of the loop of run_pre_adoption_loop                    *)
(*   pending   in the POST of that loop                                    *)
(*   report    top of the loop of run_adopted_loop                         *)
(*   await     in the POST of that loop                                    *)
(*   version   has a setparam in hand, at `if new_cfgversion`              *)
(*   key       at `if mgmt_cfg_raw`                                        *)
(*   open      about to open the state file for writing (save_state)       *)
(*   write     has truncated it, the contents not written yet              *)
(* The program is webui.py, which runs the bridge in a daemon thread: what *)
(* ends the thread leaves the process standing, and only a visit to its    *)
(* page starts another.  Where bridge_daemon.py is run by itself, an       *)
(* exception ends the process, and nothing is ever dead.                   *)
(* The controller is not under src/: it is modelled from how the bridge    *)
(* and its README use it.                                                  *)
(***************************************************************************)
EXTENDS Naturals, FiniteSets

CONSTANTS
  Keys,        \* the device keys the controller can issue
  NoKey,       \* no key: None, or an absent dictionary entry
  DefaultKey,  \* the key every device informs under before adoption
  MaxVersion,  \* bound: how often the controller's configuration is edited
  MaxStale,    \* bound: abandoned requests still on the network
  Forgets      \* may a human forget the device in the controller?

ASSUME KeysAssumption == NoKey \notin Keys /\ DefaultKey \notin Keys /\ NoKey # DefaultKey
ASSUME VersionAssumption == MaxVersion \in Nat \ {0}
ASSUME ForgetsAssumption == Forgets \in BOOLEAN

VARIABLES
  pc, cont,             \* where the thread is; where it goes after a save
  authkey, cfgversion,  \* the locals of run_bridge and run_adopted_loop
  state,                \* the dictionary that is saved
  disk,                 \* what load_state would return now
  lost,                 \* the key a crash tore out of the state file, until it
                        \* is written again (no guard reads it)
  post, served, resp,   \* the POST in progress, whether the controller
                        \* has answered it, and the answer
  stale,                \* requests given up on that may still arrive
  phase,                \* what the controller makes of the device
  accepted, offer,      \* the keys it takes, the one it wants used
  issued, revoked,      \* every key it issued; those of a forgotten device
  goal                  \* the version of the configuration it wants applied

bridge     == <<pc, cont, authkey, cfgversion, state>>
file       == <<disk, lost>>
call       == <<post, served, resp>>
keyring    == <<accepted, offer, issued, revoked>>
controller == <<phase, keyring, goal>>
vars       == <<bridge, file, call, stale, controller>>

Versions == 0..MaxVersion                \* 0: no cfgversion
Blank    == [authkey |-> NoKey, cfgversion |-> 0]
Entries  == [authkey : Keys \cup {NoKey}, cfgversion : Versions]
Hello    == [key |-> DefaultKey, ver |-> 0]
Requests == [key : Keys \cup {DefaultKey}, ver : Versions]

AdoptedPcs == {"report", "await", "version", "key"}
SavingPcs  == {"open", "write"}
PostPcs    == {"pending", "await"}

Init ==
  /\ pc = "down" /\ cont = "report"
  /\ authkey = NoKey /\ cfgversion = 0 /\ state = Blank
  /\ disk = Blank /\ lost = NoKey
  /\ post = Hello /\ served = FALSE /\ resp = Blank
  /\ stale = {}
  /\ phase = "unknown" /\ goal = 1
  /\ accepted = {} /\ offer = NoKey /\ issued = {} /\ revoked = {}

-----------------------------------------------------------------------------
(* The bridge. *)

\* Plausible bugs, for the mutation runs: the saved key is not looked at; its
\* absence is not; the saved version is not loaded; a new key is not put into
\* the dictionary; the loop keeps the key it was adopted under.
ForgetfulFirstStep(d)  == "discover"
UncheckedFirstStep(d)  == "report"
UnloadedVersion(d)     == 0
RememberNothing(k)     == state
ReportUnderDefaultKey  == [key |-> DefaultKey, ver |-> cfgversion]

\* Where a started bridge goes: a saved key resumes, none starts adoption.
FirstStep(d) == IF d.authkey = NoKey THEN "discover" ELSE "report"

\* The config version a resumed bridge starts from.
SavedVersion(d) == d.cfgversion

\* The dictionary after a new key was put into it.
Remember(k) == [state EXCEPT !.authkey = k]

\* The key and the version of an inform of run_adopted_loop.
Report == [key |-> authkey, ver |-> cfgversion]

\* Where the thread goes when a POST gave it nothing to do.
LoopTop == IF pc = "pending" THEN "discover" ELSE "report"

\* The POST is over: nothing of it is kept.
EndCall == post' = Hello /\ served' = FALSE /\ resp' = Blank

\* run_bridge up to its loops: logs into the switch and loads the state file.
Run ==
  /\ state' = disk
  /\ authkey' = disk.authkey
  /\ cfgversion' = SavedVersion(disk)
  /\ pc' = FirstStep(disk)
  /\ UNCHANGED <<cont, file, call, stale, controller>>

\* The process is started, again by Docker if it was killed, and starts the
\* bridge that was set up.
Start == pc = "down" /\ Run

\* A visit to the page finds the thread dead and starts another.
Visit == pc = "dead" /\ Run

\* One round of discovery (whose failure is swallowed) and the default-key
\* inform.
SendHello ==
  /\ pc = "discover"
  /\ post' = Hello
  /\ pc' = "pending"
  /\ UNCHANGED <<cont, authkey, cfgversion, state, file, served, resp, stale, controller>>

\* One report under the device key.
SendReport ==
  /\ pc = "report"
  /\ post' = Report
  /\ pc' = "await"
  /\ UNCHANGED <<cont, authkey, cfgversion, state, file, served, resp, stale, controller>>

\* The POST raises (timeout, refused, reset) or its answer does not decode:
\* wait and go round.  An unanswered request may still be under way.
GiveUp ==
  /\ pc \in PostPcs
  /\ \/ stale' = stale
     \/ /\ ~served /\ Cardinality(stale) < MaxStale
        /\ stale' = stale \cup {post}
  /\ pc' = LoopTop
  /\ EndCall
  /\ UNCHANGED <<cont, authkey, cfgversion, state, file, controller>>

\* An answer that is no setparam: 404, noop, a cmd that is not executed.
Ignore ==
  /\ pc \in PostPcs /\ served /\ resp = Blank
  /\ pc' = LoopTop
  /\ EndCall
  /\ UNCHANGED <<cont, authkey, cfgversion, state, file, stale, controller>>

\* The adoption answer: its key and version go into the dictionary, which is
\* saved before the first report.
Adopt ==
  /\ pc = "pending" /\ served /\ resp.authkey # NoKey
  /\ authkey' = resp.authkey
  /\ cfgversion' = resp.cfgversion
  /\ state' = resp
  /\ pc' = "open" /\ cont' = "report"
  /\ EndCall
  /\ UNCHANGED <<file, stale, controller>>

\* A setparam for the adopted device.
Push ==
  /\ pc = "await" /\ served /\ resp # Blank
  /\ pc' = "version"
  /\ post' = Hello /\ served' = FALSE
  /\ UNCHANGED <<cont, authkey, cfgversion, state, file, resp, stale, controller>>

\* A config version in the setparam is recorded and saved before anything
\* else of it is looked at.
TakeVersion ==
  /\ pc = "version"
  /\ \/ /\ resp.cfgversion = 0
        /\ pc' = "key"
        /\ UNCHANGED <<cont, cfgversion, state>>
     \/ /\ resp.cfgversion # 0
        /\ cfgversion' = resp.cfgversion
        /\ state' = [state EXCEPT !.cfgversion = resp.cfgversion]
        /\ pc' = "open" /\ cont' = "key"
  /\ UNCHANGED <<authkey, file, call, stale, controller>>

\* A new key in the setparam replaces the one in use and is saved.
TakeKey ==
  /\ pc = "key"
  /\ \/ /\ resp.authkey \in {NoKey, authkey}
        /\ pc' = "report"
        /\ UNCHANGED <<cont, authkey, state>>
     \/ /\ resp.authkey \notin {NoKey, authkey}
        /\ authkey' = resp.authkey
        /\ state' = Remember(resp.authkey)
        /\ pc' = "open" /\ cont' = "report"
  /\ EndCall
  /\ UNCHANGED <<cfgversion, file, stale, controller>>

\* write_text opens the file with truncation: until the text is in it,
\* load_state would find it unreadable and start fresh.
OpenFile ==
  /\ pc = "open"
  /\ disk' = Blank
  /\ pc' = "write"
  /\ UNCHANGED <<cont, authkey, cfgversion, state, lost, call, stale, controller>>

WriteFile ==
  /\ pc = "write"
  /\ disk' = state /\ lost' = NoKey
  /\ pc' = cont
  /\ UNCHANGED <<cont, authkey, cfgversion, state, call, stale, controller>>

\* The thread is over, and what it held is gone: a file it was writing is torn.
Over(left) ==
  /\ lost' = IF pc = "write" THEN state.authkey ELSE lost
  /\ pc' = left /\ cont' = "report"
  /\ authkey' = NoKey /\ cfgversion' = 0 /\ state' = Blank
  /\ EndCall
  /\ UNCHANGED <<disk, controller>>

\* The process is killed, with or without a thread in it.
Stop ==
  /\ pc # "down"
  /\ \/ stale' = stale
     \/ /\ pc \in PostPcs /\ ~served /\ Cardinality(stale) < MaxStale
        /\ stale' = stale \cup {post}
  /\ Over("down")

\* An exception nothing catches: the switch cannot be logged into or read, a
\* decode fails on anything but InformProtocolError, an answer has no key
\* (SystemExit) or one that is no hex, a save fails.  The POST catches its own.
Fails ==
  /\ pc \notin {"down", "dead"} /\ (pc \in PostPcs => served)
  /\ stale' = stale
  /\ Over("dead")

-----------------------------------------------------------------------------
(* The controller. *)

\* Hearing a request: an unknown device becomes pending; the offered key
\* completes the adoption and retires every other key.
Hear(r) ==
  /\ phase' = IF phase = "unknown" /\ r.key = DefaultKey THEN "pending"
              ELSE IF phase = "adopting" /\ r.key = offer THEN "managed"
              ELSE phase
  /\ accepted' = IF r.key = offer THEN {offer} ELSE accepted
  /\ UNCHANGED <<offer, issued, revoked, goal>>

\* What it may answer.  The default key is answered with the key to use,
\* while the device is being adopted and not after; a report that is not up
\* to date is answered with a setparam, either half of which may be missing;
\* the rest with a 404 or a noop (Blank).
Replies(r) ==
  IF phase = "adopting" /\ r.key = DefaultKey
    THEN [authkey : {offer}, cfgversion : {0, goal}]
  ELSE IF r.key \in accepted /\ r # [key |-> offer, ver |-> goal]
    THEN [authkey : {NoKey, offer}, cfgversion : {0, goal}]
  ELSE {Blank}

\* The controller answers the POST the bridge is in.
Serve ==
  /\ pc \in PostPcs /\ ~served
  /\ Hear(post)
  /\ served' = TRUE
  /\ resp' \in Replies(post)
  /\ UNCHANGED <<bridge, file, post, stale>>

\* A request the bridge gave up on arrives late; nobody waits for the answer.
ServeStale ==
  \E r \in stale :
    /\ Hear(r)
    /\ stale' = stale \ {r}
    /\ UNCHANGED <<bridge, file, call>>

LoseStale ==
  \E r \in stale :
    /\ stale' = stale \ {r}
    /\ UNCHANGED <<bridge, file, call, controller>>

\* A human edits the configuration.
EditConfig ==
  /\ goal < MaxVersion
  /\ goal' = goal + 1
  /\ UNCHANGED <<bridge, file, call, stale, phase, keyring>>

\* A key is issued.  The keys accepted so far stay accepted until the new one
\* is used: otherwise the answer carrying it, if lost, would strand any device.
IssueKey ==
  \E k \in Keys \ issued :
    /\ offer' = k
    /\ accepted' = accepted \cup {k}
    /\ issued' = issued \cup {k}
    /\ UNCHANGED revoked

\* A human clicks Adopt.
ClickAdopt ==
  /\ phase = "pending"
  /\ phase' = "adopting"
  /\ IssueKey
  /\ UNCHANGED <<bridge, file, call, stale, goal>>

RotateKey ==
  /\ phase = "managed"
  /\ IssueKey
  /\ UNCHANGED <<bridge, file, call, stale, phase, goal>>

\* A human forgets the device.
Forget ==
  /\ Forgets
  /\ phase \in {"adopting", "managed"}
  /\ phase' = "unknown"
  /\ revoked' = revoked \cup accepted
  /\ accepted' = {}
  /\ offer' = NoKey
  /\ UNCHANGED <<bridge, file, call, stale, issued, goal>>

Next ==
  \/ Start \/ Visit \/ SendHello \/ SendReport \/ GiveUp \/ Ignore
  \/ Adopt \/ Push \/ TakeVersion \/ TakeKey \/ OpenFile \/ WriteFile
  \/ Stop \/ Fails
  \/ Serve \/ ServeStale \/ LoseStale
  \/ EditConfig \/ ClickAdopt \/ RotateKey \/ Forget

Spec == Init /\ [][Next]_vars

-----------------------------------------------------------------------------
(* Properties. *)

TypeOK ==
  /\ pc \in {"down", "dead", "discover", "pending"} \cup AdoptedPcs \cup SavingPcs
  /\ cont \in {"report", "key"}
  /\ authkey \in Keys \cup {NoKey} /\ cfgversion \in Versions
  /\ pc \in AdoptedPcs \cup SavingPcs => authkey \in Keys
  /\ state \in Entries /\ disk \in Entries /\ lost \in Keys \cup {NoKey}
  /\ post \in Requests /\ served \in BOOLEAN /\ resp \in Entries
  /\ stale \subseteq Requests
  /\ phase \in {"unknown", "pending", "adopting", "managed"}
  /\ accepted \subseteq Keys /\ issued \subseteq Keys /\ revoked \subseteq Keys
  /\ offer \in Keys \cup {NoKey}
  /\ goal \in Versions

\* Write-ahead: no inform reaches the network under a key, or claiming a
\* config version, that a restart at that moment would not come back with.
\* The controller retires the old key on the first inform under the new one,
\* so an inform sent ahead of save_state could not be taken back.
InformIsDurable ==
  pc = "await" => disk = [authkey |-> post.key, cfgversion |-> post.ver]

\* The keys the bridge holds, in memory, in an answer or in the state file.
HeldKeys == {authkey, state.authkey, disk.authkey, resp.authkey}

\* No crash, lost answer or late request leaves the bridge with a key that
\* the controller retired: only a human who forgets the device revokes it, and
\* once the device is managed again it holds none of the revoked ones.
NeverStranded ==
  /\ HeldKeys \subseteq accepted \cup revoked \cup {NoKey}
  /\ phase = "managed" => HeldKeys \subseteq accepted \cup {NoKey}

\* The config version reported under a key never goes backwards, across
\* restarts and lost answers: no late request claims a newer configuration
\* than the report that overtook it.
ReportsNeverRegress ==
  pc = "await" => \A r \in stale : r.key = post.key => r.ver <= post.ver

\* The strengthening of the two invariants above that is inductive.
LoopAgrees ==
  pc \in AdoptedPcs =>
    disk = [authkey |-> authkey, cfgversion |-> cfgversion]
DictAgrees ==
  pc \in AdoptedPcs \cup SavingPcs =>
    state = [authkey |-> authkey, cfgversion |-> cfgversion]
SaveWindow ==
  /\ pc = "write" => disk = Blank
  /\ pc = "open" /\ cont = "key" => disk.authkey = state.authkey
AnswerHeld ==
  \/ pc \in PostPcs /\ served
  \/ pc \in {"version", "key"}
  \/ pc \in SavingPcs /\ cont = "key"
  \/ resp = Blank
PostIsReport ==
  pc = "await" => post = [key |-> authkey, ver |-> cfgversion]
OffersIssued ==
  /\ offer # NoKey => offer \in accepted
  /\ accepted \cup revoked \subseteq issued
  /\ phase \in {"unknown", "pending"} => offer = NoKey /\ accepted = {}
  /\ \A r \in stale \cup {post} : r.key \in issued \cup {DefaultKey}
\* Once a request under the offered key exists, the bridge holds no other.
OfferSettled ==
  \A r \in stale \cup {post} :
    r.key = offer => HeldKeys \subseteq {offer, NoKey}

IInv ==
  /\ TypeOK
  /\ LoopAgrees /\ DictAgrees /\ SaveWindow /\ AnswerHeld /\ PostIsReport
  /\ OffersIssued /\ OfferSettled
  /\ NeverStranded

\* What a restart would resume with.  While the file is truncated the process
\* still holds its contents: they are gone only if it dies there.
Saved == IF pc = "write" THEN state ELSE disk

\* What the bridge promises of its key and its config version.
Promise == INSTANCE Adoption WITH credential <- Saved.authkey, version <- Saved.cfgversion

\* Bridge and controller together implement the abstract key exchange.
KeepsPromise == Promise!Spec

\* A device the controller manages is never put back to waiting for Adopt:
\* a restart resumes from the state file.
NoReadoption == ~ (phase = "managed" /\ pc \in {"discover", "pending"})

\* It is put back only by a crash inside a save: what the controller takes from
\* it is in no state file because the file was torn, and not because the key was
\* never saved, or saved and not looked at.
ReadoptionNeedsTear ==
  phase = "managed" /\ pc \in {"discover", "pending"} => lost \in accepted

\* Fairness: Docker restarts a process that was killed, the thread runs on, the
\* switch can be read in the end, and the controller does not leave every request
\* of a kind unanswered.  Nothing is asked of crashes, exceptions, lost requests,
\* page visits or the human.  Strong, since a crash can disable each of these
\* steps but does not single one out forever.
Fairness ==
  /\ SF_vars(Start) /\ SF_vars(SendHello) /\ SF_vars(SendReport)
  /\ SF_vars(Serve)
  /\ SF_vars(Ignore) /\ SF_vars(Adopt) /\ SF_vars(Push)
  /\ SF_vars(TakeVersion) /\ SF_vars(TakeKey)
  /\ SF_vars(OpenFile) /\ SF_vars(WriteFile)

FairSpec == Spec /\ Fairness

\* Nobody restarts a thread that an exception ended, except a visit to the page:
\* what is to happen in the end is promised only as long as somebody looks, or
\* the process is restarted, whenever the thread is dead.
LookedAfter == []<>(pc # "dead")

\* An adoption that was clicked completes, whatever is lost and however often
\* process and thread die on the way, if a dead thread is looked after.
AdoptionCompletes == LookedAfter => ((phase = "adopting") ~> (phase = "managed"))

\* A crash hit between the truncation and the write: nothing is left to resume
\* from.
StateLost == disk.authkey = NoKey /\ pc # "write"

\* A managed device keeps sending informs the controller accepts, however
\* often the process is restarted, unless a crash tore its state file or the
\* thread stays dead.
KeepsInforming ==
  LookedAfter =>
    ((phase = "managed") ~> (StateLost \/ (pc = "await" /\ post.key \in accepted)))
=============================================================================
