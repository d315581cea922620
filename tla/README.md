# A verification development for unifi-bridge

`unifi-bridge` makes a third-party managed switch appear in a UniFi controller:
a *north* side that is adopted and informs like a UniFi device, a *south* side
that drives the switch, and a web page to set both up. This directory models
the parts of it that keep state, checks them with TLC and proves with TLAPS
every invariant TLC checks, the refinements and the codecs. Paths below are
relative to the repository.

## 1. Inventory

| part | code | state | operations | hard behaviour |
|---|---|---|---|---|
| bridge process | `bridge_daemon.py` | `authkey`, `cfgversion`, `state`, the state file | discovery + default-key inform, adoption, report, setparam, `save_state`/`load_state` | crashes at every point, lost and late messages, two-part setparams, key rotation |
| pushed configuration | `bridge_daemon.py` 194-227, 320-349 | `cfgversion`, the switch's running/startup configuration | save version, `ensure_vlans`, `set_port_enabled`, log | swallowed failures, crash half-way, switch reboot |
| Netgear adapter | `south_adapter/netgear_adapter.py`, `netgear_http.py` | session cookie, `_logged_in` | `list_vlans`, `ensure_vlans`, `set_port_enabled`, one re-login | session kicked silently between any two requests; 802.1Q switched off and on by hand |
| D-Link adapter | `south_adapter/dlink_adapter.py`, `dlink_webui.py` | `rpwebid` | `login` with retries, `logout`, `list_vlans`, `ensure_vlans`, `set_port_enabled`, `set_port_vlans` | one slot that lingers; the scan and browsers compete for it; forms that reset what they do not mention |
| web UI | `webui.py`, `BridgeStatus` | `config.json`, `bridge_thread`, its lock, `status` | boot, index, setup, reconfigure, scan | request threads, file races, dying bridge threads, restarts |
| inform / discovery codecs | `north_adapter/` | none | `encode`, `decode`, `build_discovery_packet` | wrong keys, truncated bodies, which exception |
| second GCM implementations | `adopt_confirm.py`, `gcm_ctypes.py` | none | `encode_inform_gcm`, `decode_inform_gcm`, `aes_128_gcm_*` | calls of the C library that fail, checked or not |
| U-Boot console | `serial_console/uboot_access.py` | serial port, two events | catch prompt, command | reader and spammer threads, timeout |
| contract, profiles | `switch_adapter.py`, `switch_profiles.py` | none | - | - |
| rest | `dlink_cli.py`, other one-shot scripts, tests, Docker files | - | - | - |

How they interact. `webui.py` starts `run_bridge` in a daemon thread (or
`bridge_daemon.py` runs it alone). `run_bridge` logs into the switch through a
south adapter, loads the state file, and either resumes or loops in
`run_pre_adoption_loop` until a human clicks Adopt and the controller answers
the default-key inform with a setparam. `run_adopted_loop` then POSTs a report
every 30 s and handles the answer: a new version is saved, a new key is saved,
a configuration is applied to the switch. The web page and the thread share
`BridgeStatus`. The scan logs into switches on its own, in the same container
as the bridge.

What makes each part correct: the bridge never uses a key or version it would
forget, and never is left with a key the controller retired; a pushed setting
is on the switch or its failure is in the log; an adapter call that succeeds
did what it says and nothing else, whatever happens to the session; one bridge
at most runs, the saved setup is the one that is started and the one that runs
after a restart, and a finished setup stays on disk until somebody edits it.

## 2. Modules

| module | models | |
|---|---|---|
| `Adoption` | nothing: the abstract exchange of keys and versions, without processes and messages | spec |
| `Bridge` | bridge process, state file, controller, network | implements `Adoption` |
| `Switch` | nothing: what `switch_adapter.py` promises of the calls that change a switch | spec |
| `NetgearAdapter` | VLAN calls over a session that can be lost, port calls over NSDP, a human who edits | implements `Switch` when undisturbed |
| `DLinkAdapter` | the session slot, the bridge and its calls, the scan, a browser | implements `Switch` |
| `ConfigPush` | setparam branch, `apply_pushed_config`, switch configuration | uses `Switch` |
| `WebUI` | `webui.py` and the life of the bridge thread | |
| `UBootConsole` | the recovery console's caller and two threads, and the switch's boot loader | |
| `InformEnvelope` | `encode` and `decode` of the inform packet, and their twins, as operators | |
| `Discovery` | `build_discovery_packet`, as operators on lengths | |
| `MCBridge`, `MCConfigPush`, `MCNetgearAdapter`, `MCWebUI` | constants of the runs | TLC |
| `Adoption_proofs`, `Bridge_proofs`, `NetgearAdapter_proofs`, `DLinkAdapter_proofs`, `ConfigPush_proofs`, `WebUI_proofs`, `UBootConsole_proofs`, `Codec_proofs` | theorems | TLAPS |

### Bridge
`pc` is where the one thread is. `authkey`, `cfgversion` and `state` are the
locals and the dictionary of `run_bridge`/`run_adopted_loop`; `disk` is what
`load_state` would return now. `save_state` is two steps, `OpenFile` (the
truncation of `write_text`; the file is unreadable, `load_state` returns `{}`)
and `WriteFile`. A POST is a `SendHello`/`SendReport`, a `Serve` of the
controller, and one of `Adopt`, `Push`, `Ignore`, `GiveUp`; an unanswered
request that was given up on may sit in `stale` and be served later
(`ServeStale`) or be lost. `TakeVersion` and `TakeKey` are the two halves of a
setparam, in the order of the code, each with its own save.

The thread ends in two ways. `Stop` is a kill of the process, at any `pc`; the
next `Start` is that of the process, which Docker restarts. `Fails` is an
exception nobody catches (`get_switch_info`, a `decode` that fails on anything
but `InformProtocolError`, an adoption without a key, a failing save): under
`webui.py`, the image's entrypoint, it ends a daemon thread and nothing else. The
thread is then `dead` in a process that lives on, no policy restarts it, and the
next one is started by a visit to the page (`Visit`: `index` calls
`start_bridge`), or by the boot after a kill. Where `bridge_daemon.py` is run by
itself, the same exception ends the process. All three start the same `Run`.
`lost` remembers the key that a crash
between the two steps of a save tore out of the file; no guard reads it.

In `Promise`, the refinement mapping, credential and version are those of
`Saved`: what is on disk, or, while the file is truncated and the process still
lives, what it is about to write. What is torn is thus lost at the crash
(`Lose`), not at the truncation.

The controller is not in the repository. It is modelled as permissively as the
bridge's code and README allow: it may answer a setparam with either half
missing, issues a key at Adopt and may rotate it, hears requests in any order,
and retires the older keys on the first request under the new one. One
assumption is made *for* the bridge: keys stay accepted until the new one is
used. Without it the loss of a single answer would strand any client.

### Switch
A *setting* of a switch holds or does not: a VLAN exists, a port is enabled, a
port is a member of a VLAN. A call brings some settings about (`on`) and undoes
others (`off`): `ensure_vlans(V)` brings V about, `set_port_enabled(p, False)`
undoes p. `Work` does any part of that and touches no other setting; a call
returns normally (`ensured`) only when everything is as asked. `Others` is
somebody else at the switch, who may leave it in any state and whose coming
ends what a caller may rely on.

### ConfigPush
Takes the setparam branch further. A process that dies inside a save leaves the
state file torn (`Tear`), and the next one does nothing until a human adopts the
device (`Adopt`), as on the very first start. The answer to the adoption may bring
the controller's version, as README.md:392-397 says; `run_pre_adoption_loop`
returns its `mgmt_cfg` and drops the rest, so that version is one whose settings
the bridge never saw (`cut`). A setparam has a version and settings (`Push` to
`saved`), a version alone (`Push` to `bare`: it is saved, nothing is applied, and
`cut` says so) or settings alone (`PushSettings`: applied, with nothing saved, and
pushed again). As in Bridge, `Stop` kills the process and `Fails` ends its thread
only, which leaves it `dead` until a `Visit`. The version is on disk before the settings
are applied (`SaveVersion`); `ApplyVlans` and `ApplyPort` begin calls of the
contract. What happens in a call is *only* what `Switch` allows (`Device!Call`,
`Device!Work`, `Device!Others`): this is the composition with the adapters, by
assumption and guarantee. The adapters are proved to implement `Switch`, and
`ConfigPush` uses no more of them. `Returned` and `Raised` are the two ends of a
call; after a raise the adapter, or a switch that got the request late, may go
on (`Work` is enabled until `ensured`). A raise is logged, and followed by what
the code does next; `Malformed` is the outer `except`; `Applied` is the closing
log line. `SavesItself` tells the Netgear (changes survive a reboot) from the
D-Link (they need `save_config`). `Meddle` is a human at the switch: a call
they got into may return although not all is as asked (the Netgear's lost form),
which is why `Returned` allows `meddled`. A configuration names the VLANs that
are to exist and every port's state: one that leaves out ports is one that
repeats what they are. `Plans` are the configurations a human may ask for.

### NetgearAdapter
`_fetch_vlan_page` is `Fetch`, and, when the login page came, `Relogin` and
`Refetch`; `Loaded` is what its caller does with the page; `NextVlan` and
`PostForm` are the loop of `ensure_vlans` and `add_vlan`, each form with a page
of its own. `SetPortEnabled` goes through the NSDP library and needs no
session. `Unreachable` is a request that fails, its effect perhaps done. `Kick`
is another login to the switch, at any point; `Edit` is what whoever has the
session does then: any change of VLANs and ports, and of 802.1Q, whose switching
deletes the VLANs. In `Contract`, `ensured` is mapped to "the call ended well and
nobody was at the switch meanwhile", since a disturbed call may lose a form
without noticing (the run `netgear_lost`).

### DLinkAdapter
`at` is where the bridge's and the scan's use of `DLinkWebUI` are. A login is
`LogoutFirst`, `Nonce`, and `Accepted` or `Refused`; the fourth refusal raises,
and so does any other failure of a request (`LoginBreaks`). A refusal may be for
the slot, or for wrong credentials (the scan tries the profile's defaults), or for
a login page that is not understood: each counts as an attempt. Only the first
kind is what the retries are for, so the others mark the login as `disturbed`, and
`RetriesOutlastLinger` is about a login with the right credentials on a page the
code understands. The slot, once freed,
lingers for up to `MaxLinger` retry delays. The docs say both that a login takes
the slot from others (INSTALL.md:14-17) and that an open browser tab blocks it
(README.md:262): either may happen. The tokenless logout frees a session of the
same container (that is what the code counts on) and may or may not free a
browser's. A request under a token that lost the slot is refused (README.md:261,
`dlink_webui.py` 31-33) and `raise_for_status` raises.

The calls: `EnsureVlans` lists one page of 50 VLANs and takes it for all there
is (`Pages`: on a switch with more, any VLAN may be past it), and posts what it
misses in one form; `SetPortEnabled` posts one form and `SetPortVlans` one for
each VLAN. A port's form has other fields too, which it sets to their defaults:
`Tuned(p)` says that p has settings of its own there, and the two calls undo it.
A browser, once logged in, may leave the switch in any state.

### WebUI
`at` is where the main thread and each Flask request thread are. A boot takes
the saved config before the one of `.env`, and saves the latter only when there
is no file. `save_config`
is two steps as in Bridge, without a lock: two writers may overlay each other
and a reader may find the file torn. `start_bridge` is `Acquire`, `CheckAlive`,
`Spawn`. Of `run_bridge` the stages the page can see are kept. `ran` remembers
with what the last bridge was started and `edited` whether there was a setup or
a reconfiguration since the boot. `solo` is the request whose setup is under way
while no other edit of the file is, and `kept` what it saved, until the next
edit. No guard reads any of the four.

### UBootConsole
`caller` is where `catch_uboot_prompt`, then `command` and `resume_boot`, are;
`reader` and `spammer` are the two threads, each with its check and its act as
separate steps; `got` and `stop` are the events. `input` is what was written to
the serial line and not yet taken by the switch, `output` the kinds of text it
has sent and nobody read. `got_prompt.wait` may time out whether or not the
prompt is coming. `t_spam.join` waits 2 s at most and does not say whether the
spammer has ended: `Join` may go on with it alive, and `overran` remembers that it
did. The spammer looks at its event every 30 ms, so this takes a machine that holds
it up for 2 s; then its last `&` may come after the flushing CR, and
`CommandsAreClean` and `ResumeIsFinal` promise nothing. The other properties need
no such assumption. The boot loader's line editor is the external part: a `&`
waits in the line until something ends it.

### InformEnvelope and Discovery
A wire packet is a header, a sealed body and the number of bytes that arrived.
`Decode` gives the set of possible outcomes of `decode`: a packet,
`InformProtocolError`, or another exception. Ciphers are perfect. The second
encoder and decoder, of `adopt_confirm.py`, and the two functions of
`gcm_ctypes.py` are operators over the same packets; those of `gcm_ctypes.py`,
which looks at every return code, have one more parameter: which calls of
libcrypto fail. `adopt_confirm.py` looks at the last call of a decryption only,
the one that checks the tag; its other calls are taken to succeed, since what an
unseen failure leaves behind is libcrypto's. A discovery packet is a header
and ten fields, of whose values the lengths are kept; a reader of it walks from
field to field. The two modules have no state, so there is nothing for TLC to
run; they are there for their theorems.

## 3. Runs

Passing:

| run | question | bounds |
|---|---|---|
| `bridge_safety` | are key and version always saved before use, never retired ones, is a managed device put back to adoption by a torn file only (`ReadoptionNeedsTear`), and is this the exchange of `Adoption` (`KeepsPromise`)? | 3 keys, 2 versions, 2 late requests, torn saves, a forgetful human |
| `bridge_live` | does a clicked adoption complete, does the bridge inform again after kills and dead threads, if those are looked after? | 2 keys, 2 versions, 1 late request, torn saves |
| `push` | over a switch that keeps the contract: are gaps logged, is a version applied again only if a file was torn, is the last one taken? | 1 VLAN, 2 ports, 3 of 8 configurations, 2 versions, 1 torn file, 1 visit of others, reboots |
| `netgear` | is a lost session masked, what can it cost, is an undisturbed call a `Switch`? | 3 VLANs, one out of range, 1 port, 3 kicks and edits |
| `dlink` | do four attempts outlast the slot, does every login end, is every call a `Switch`? | 1 VLAN, 1 port, 4 attempts, linger 3, 1 browser login |
| `webui` | one bridge, the saved setup started and run after a restart, a finished setup never lost (`SetupSurvives`), no request stuck? | 2 requests, 2 configurations, 2 bridge threads per process, `.env` with either configuration or none |
| `uboot` | is the reader alone, the prompt one of this reboot; are commands clean and a resumed boot left alone, if the spammer ended within its join? | 4 writes under way |

Violations, each a disagreement of code and documentation, quoted in
`PROJECT.json` under `findings`:

| run | property | what happens |
|---|---|---|
| `bridge_torn` | `NoReadoption` | a crash inside `write_text` loses the saved adoption |
| `push_reboot` | `GapsAreLogged` | `save_config` is never called: D-Link settings vanish with a reboot |
| `netgear_lost` | `EnsureCreates` | a form posted under a kicked session is dropped with a 200 |
| `dlink_kicked` | `Recovers` | the D-Link client never logs in again |
| `webui_phase` | `PhaseIsLive` | a dead thread stays "adopted" |

Also noted, without a run, since the source line says it all:
- the scan reports any switch that takes the profile's login; the model is
  copied into the hit and never compared (`webui.py:98` against
  README.md:208-214 and `webui.py:18-21`);
- a setup while a bridge runs has no effect until a restart (`webui.py:72`
  against INSTALL.md:150-154). After the restart it has: that is
  `RestartRunsTheFile`;
- a failed login ends the thread and is retried only by a visit to the page
  (`bridge_daemon.py:408` against INSTALL.md:143-144, "let the bridge retry");
- a click on Reconfigure followed by a restart leaves no bridge
  (`webui.py:366`), although its comment says it "can't break an
  already-adopted device";
- "applied setparam" is logged after failures that were swallowed
  (`bridge_daemon.py:349`);
- a version that comes with the adoption is saved and reported although its
  settings, if the answer holds any, are dropped (`bridge_daemon.py:276-278`,
  431). README.md:403-407 saw the controller send them in a setparam of their
  own; `GapsAreLogged` excepts the case.

### Why the bounds are enough
Keys are compared for equality only; a rotation needs an old and a new one, a
late request an older still, so three keys; versions likewise need an old and a
new one beside "none". Two late requests can overtake each other; more only
repeat it. In `push` `MCPlans` takes every other configuration, and one of the two
that only the names of the ports tell apart: three, of which any two differ in two
settings at least, and in which each setting takes both values. One torn file is one
version taken twice; another would only count on. One VLAN and two ports tell the three ways an application
can break off: before the ports, between them, at its end; one visit of others
before, in or after a call is all the difference a visit makes, since the
properties are about pushes without one. A VLAN lost to a kick needs one kick,
and three show that losses add up no faster than kicks. In `dlink` a VLAN, a
port, the port's membership and its other fields are four settings, so that
every call has something it must not touch. `MaxLinger = Retries - 1` is the longest linger the
retries are meant to outlast: with one more `RetriesOutlastLinger` fails, as it
should, which is why the bound is stated and not hidden. One browser login gets
into any step of a login; the scan, which is unbounded, does so again and again.
Two request threads suffice for every race around one lock and one file; a third
could only repeat what one of the two did. `MaxRuns` counts bridge threads of
one process; the last one of a run is kept alive by the guard of `Dies`, so that
the bound never shows up as a stuck request. The serial line needs room for the
flood's last `&`, one more, the flushing CR and a command; `MaxQueue = 4` is
that, and the CR alone may exceed it, since the caller does not wait for room.

### Fairness
- `Bridge!FairSpec`: Docker restarts a process that died (`restart:
  unless-stopped`; one that a human stops stays down, which is not considered),
  the thread runs on, the switch can be read in the end, and the controller does
  not leave every request unanswered for ever. Strong fairness, since a crash may
  disable any of these steps again and again. Nothing is asked of crashes, losses,
  page visits or the human: there is *no* fairness of `Visit`. A thread that an
  exception ended under `webui.py` is restarted by nobody but a visitor, so
  `AdoptionCompletes` and `KeepsInforming` hold under a condition they name,
  `LookedAfter`: the thread is not dead for good, because somebody opens the page
  or the process is restarted. Without it they are false. (With `bridge_daemon.py`
  run by itself the condition holds, since the exception ends the process.)
  `bridge_live` has no human who forgets the device (`Forgets`), and
  `KeepsInforming` is about a state file that was not torn (`StateLost`).
- `ConfigPush!FairSpec`: strong fairness for the restart of the process, the
  report and the save, which a crash may disable again and again (the switch can
  be read in the end, and the controller does not leave the version out of every
  setparam), but none for the adoption or the page visit, which are a human's
  (hence `torn` and `LookedAfter` in `GoalIsTaken`); weak fairness for what comes
  after the save, since every adapter call has a timeout. Nothing is asked of
  the switch: a call may do nothing and raise.
- `NetgearAdapter!FairSpec`, `DLinkAdapter!FairSpec`: a call that has begun gets
  on; kicks and browsers are free, bounded in number by `MaxKicks`/`MaxForeign`.
- `WebUI!FairSpec`: Docker boots the container, threads run, and the lock is
  handed out fairly. No request is ever forced to arrive.
- `UBootConsole` has no liveness property and no fairness: every wait of
  `catch_uboot_prompt` has a timeout, so that it ends is plain. `uboot` does not
  check deadlock: a console that was closed, with a switch that is up, is the end.

### Mutants
Each property of each passing run is broken by a plausible bug of the code it
is about; the mutated operators stand next to the definitions they replace
(`PROJECT.json`, `mutants`).

## 4. What is proved

For every set of keys, every bound and whether or not the human forgets devices
(`KeysAssumption`: the three kinds of key names differ; `VersionAssumption`;
`ForgetsAssumption`):

- `TypeCorrect`: `Spec => []TypeOK`.
- `Invariance`: `Spec => []IInv`.
- `Durable`: `Spec => []InformIsDurable`, write-ahead saving.
- `Unstranded`: `Spec => []NeverStranded`.
- `Refinement`: `Spec => KeepsPromise`, i.e. `Bridge` implements `Adoption`
  under `credential <- Saved.authkey`, `version <- Saved.cfgversion`.
- `SavedOnlyGrows`: a restart never comes back with an older version than before,
  unless it comes back with no key.
- `Resumes`: `Spec => []ReadoptionNeedsTear`: a managed device is put back to
  adoption only if a crash tore the file that held a key the controller still takes.
- `Known`, `NotAhead` and `Forward` (in `Adoption_proofs`): `Adoption` never
  leaves the bridge a key that a rotation retired, a version the controller never
  asked for, or an older version than it had.

The argument. `InformIsDurable` follows from three facts that hold in the
adopted loop: the file equals the locals (`LoopAgrees`), the dictionary equals
the locals (`DictAgrees`), and the POST is the report of the locals
(`PostIsReport`). They are disturbed by the two saves in one setparam, so the
save window needs its own clause (`SaveWindow`). `NeverStranded` is not
inductive: the controller hearing a request under the offered key retires all
others, harmless only if the bridge holds no other. `OfferSettled` says just
that: once a request under the offered key exists, in flight or late, every key
the bridge holds is the offered one; it is preserved because a key is sent only
after it is saved, and issued keys are never reused (`OffersIssued`).
`NeverStranded` has two halves: no held key was retired by a rotation, and while
the controller manages the device every held key is one it takes. Each proof
step treats one action; the bridge's and the controller's steps are two lemmas
(`BridgeStep`, `ControllerStep`). In the refinement, `Adopt`/`WriteFile` map to
`Learn` or a stutter, `Serve`/`ServeStale` to `Confirm` or a stutter, a crash in
the save window to `Lose`. TLC checked `IInv` as an invariant first
(`bridge_safety`).

- `NeverRegress`: `Spec => []ReportsNeverRegress`. No late request under the saved
  key claims a version past the saved one (`LateIsOlder`), since a request claims
  what is on disk, versions only grow (`VersionBounds`), and a key the bridge was
  just given is in no earlier request (`NewKeyUnused`, `AdoptionUsed`).
- `Resumes` rests on `LostInv`: a key that was torn out of the file stays one the
  controller takes for as long as it manages the device. It retires keys only on a
  request under the offered one, and once the file is torn every such request, in
  flight or late, was sent under the very key that was lost.

For every set of VLANs and ports and any number of lost sessions and edits
(`VidsAssumption`, `KicksAssumption`), `NetgearAdapter_proofs`: `TypeCorrect`;
`Masked`: `Spec => []LossIsMasked`; `Paid`: `Spec => []LossNeedsKick`;
`Refinement`: `Spec => KeepsContract`. The argument is about a call nobody
disturbed (`kicks = before`): from its first page on it holds the session (after
a re-login if need be, `RefetchInv`), and what it has ticked off exists
(`UnderwayInv`), so it neither ends in contention nor returns with a VLAN missing
(`ResultInv`). `Paid` counts: the VLANs ticked off and missing, plus the one
whose form is about to be dropped (`Owed`), are at most as many as the kicks
since the call began, because a form starts with a page that took the session.

For every set of VLANs and ports, number of attempts, linger and browsers
(`RetriesAssumption`, `KindsAssumption`), `DLinkAdapter_proofs`: `TypeCorrect`;
`Refinement`: `Spec => KeepsContract`; and, assuming `MaxLinger < Retries`,
`Patient`: `Spec => []RetriesOutlastLinger`. `Reliable`, here and in
`NetgearAdapter_proofs`, says what a caller may count on: what a call that returned
normally asked for holds, on the D-Link until a browser logs in, on the Netgear
for as long as nobody else does. For the refinement, `CallInv`: a call
that is still posting has not been reported as done; while the bridge has the
session, what it need not post any more is there; one reported as done left all
as asked. No other step touches a setting or puts the bridge into the middle of a
call. For the patience, `LingerInv`: an undisturbed login has found the slot free
after its first request, and what it lingers plus the attempts refused never
exceeds `MaxLinger`.

For every set of VLANs and ports, number of versions and of visits of others
(`BoundAssumption`, `SetsAssumption`, `PlansAssumption`, `SwitchAssumption`), `ConfigPush_proofs`:
`TypeCorrect`; `Once`: `Spec => []RepeatsNeedTears`; and, assuming a switch that saves
itself or is never rebooted, `Logged`: `Spec => []GapsAreLogged`. Since the steps
of the switch are those of `Switch`, three lemmas (`AskIs`, `WorkIs`, `MeddleIs`)
say all that is used of the adapters. `GapInv` is the property with what is still
to come: a setting that is missing is logged, or it is pending (its call is not
done, or is among `todo`). A call that was given up may go on behind the
bridge's back, but only towards what was pushed (`CallInv`), so it closes gaps
and opens none. That what was pushed is what the controller wants, once the bridge
reports its version, is `WantedInv`: a version stands for one configuration,
unless it came with the adoption or without settings (`BareInv`). `Once` is in `VersionInv`: a version past the
saved one was taken to the switch only as often as files were torn. Without the
assumption the claim is false: `push_reboot`.

For every number of requests and of bridge threads, every set of configurations
and every `.env` (`NamesAssumption`, `RunsAssumption`), `WebUI_proofs`:
`TypeCorrect`; `Exclusive`: `[]OneBridge`; `Started`: `[]SavedIsStarted`;
`Restarted`: `[]RestartRunsTheFile`; `Survives`: `[]SetupSurvives`. `OneInv`: who is
inside the lock holds it, only the last bridge thread may be alive, and none is
once a thread decided to start one or the process is down. `StartInv`: a file that parses has a bridge or
a thread on its way to start one. `RestartInv`: until the first setup after the
boot only the main thread writes the file, and who is about to start a bridge
has what is in it. `KeptInv`: while a setup is undisturbed nobody else writes or
unlinks the file, and once it is done nobody does until the next edit: a boot
writes only where there is no file.

For every length of the serial line (`QueueAssumption`), `UBootConsole_proofs`:
`TypeCorrect`; `AtPrompt`: `[]ReadyIsPrompt`; `Sole`: `[]SoleReader`; `Clean`: `[]CommandsAreClean`; `Final`:
`[]ResumeIsFinal`. The line is a sequence: before the flush it holds nothing but
the flood (`OnlyFlood`, `FloodInv`), after it a CR with no command before it and no
flood behind it (`Ended`), which holds because the spammer has ended (`SpamInv`):
`Clean` and `Final` are about a spammer that did so within the 2 s of its join.
`AtPrompt` rests on `PromptInv`: a prompt that was read, or waits to be, is one the
switch is still at. It holds because the input was drained before the watching
began; one left over from an earlier session would pass for this one.

For every key, IV, packet and length, `Codec_proofs`: `GcmRoundTrip`,
`CbcRoundTrip`, `GcmWrongKey` (a report's answer under another key is an
`InformProtocolError` and nothing else), `TruncatedIsRefused`, `NothingElse`.
They rest on the perfection of the ciphers and on `PaddedIsBlocks`. That CBC has
no counterpart of `GcmWrongKey` is the point of `Uncaught`: a wrong key may end
the bridge's thread. `TwinsAgree`: the daemon and `adopt_confirm.py` read each
other.
`CheckedOrRaised`: whichever calls of libcrypto fail, `gcm_ctypes.py` raises or is
right. For every device description, `WalkEndsAtHeader` and
`LengthsFit`: a discovery packet describes its own length, and building one
raises rather than cut a length off (`TwoBytesRoundTrip`, `TwoBytesFit`).

Only model-checked: the liveness properties (`AdoptionCompletes`,
`KeepsInforming`, `GoalIsTaken`, `Recovers`, `LoginEnds`, `RequestsFinish`),
since the prover does not do liveness. Every invariant of a passing
run, and every refinement, is proved.

## 5. Not modelled

- The MAC conversions of the inform codec (`Macs` are addresses as `mac_to_str`
  writes them), and versions of the discovery packet other than 2.
- What reports say: `list_ports` and the VLANs listed are read and sent, and no
  step of the bridge depends on them. (The D-Link's `list_ports` reports every
  port as enabled, `dlink_adapter.py:68`.)
- Netgear's `set_port_vlans`, which raises at once, and the D-Link calls the
  bridge never makes: VLANs deleted or renamed, LLDP, statistics, `save_config`.
- A Netgear re-login that the switch turns down while the cookie of the old
  session is still in the jar (`netgear_http.py:131`): what the switch does with
  the cookie is not known, so a re-login is modelled as accepted.
- Two switches behind one `state_file` (`state["mac"]` is never compared).
- Display data: `status.error`, `mac`, `log_lines`; page texts; update check.
- The scan's thread pools: independent probes, one per address, whose results
  are concatenated. What one probe does to its switch is in `DLinkAdapter`.
- `dlink_cli.py`, a read-only client that no other part imports.
- The other one-shot scripts, the `main` of `adopt_confirm.py` and the tests:
  experiments run by hand, without state.
- A second `catch_uboot_prompt` on one console: nothing in the repository does it.

## 6. Plan

Done, in this order: the core (`Adoption`, `Bridge`, their proofs), the parts
that change the switch (`ConfigPush`, the adapters), the web UI, the U-Boot
console, the codecs, the adapters' common contract (`Switch`) with VLANs, ports
and memberships, `ConfigPush` composed over it, and the proofs of all the
invariants.

Next:
1. `Bridge` with two device identities (`state["mac"]`).
2. A state machine around `InformEnvelope` (a stream of sealed packets, cut and
   mixed up) so that TLC runs it.
3. `NetgearAdapter` with a password that is changed by hand, once it is known
   what the switch does with a cookie on a refused login.
4. The D-Link CLI client: nesting of modes, late answers to timed-out commands.
