---------------------------- MODULE DLinkAdapter ----------------------------
(***************************************************************************)
(* The D-Link switch's one admin session (dlink_webui.py, dlink_adapter.py) *)
(* and those who use it: the bridge with the calls of its adapter, the       *)
(* setup page's scan, which runs in the same container (webui.py), and a     *)
(* human with a browser somewhere else, who may change the switch too.      *)
(*                                                                         *)
(* A login starts with a logout without token, which frees the slot for     *)
(* clients of this container; may take the slot from whoever has it; and is *)
(* refused while a slot just freed still lingers.  A request under a token   *)
(* that lost the slot is answered 403, which raises.                        *)
(***************************************************************************)
EXTENDS Naturals

CONSTANTS
  Vids, Ports, \* VLAN ids, and ports
  Retries,     \* login attempts before login() gives up (4)
  MaxLinger,   \* how many retry delays (4 s) a freed slot may linger
  MaxForeign   \* bound: logins from a browser

ASSUME RetriesAssumption == Retries \in Nat \ {0} /\ MaxLinger \in Nat /\ MaxForeign \in Nat

\* What holds of the switch or does not: VLAN v exists; port p is enabled; p is
\* a member of v; p has settings of its own in the forms' other fields.
Member(p, v) == <<p, v>>
Tuned(p)     == <<p, "tuned">>
Settings     == Vids \cup Ports \cup {Member(p, v) : p \in Ports, v \in Vids}
                     \cup {Tuned(p) : p \in Ports}

ASSUME KindsAssumption ==
  \A p, q \in Ports : /\ Tuned(p) # q
                      /\ \A v \in Vids : Tuned(p) # Member(q, v)

Clients == {"bridge", "scan"}
Login   == {"logout", "nonce", "post"}

VARIABLES
  slot,       \* free, or who has the session: bridge, scan, browser
  linger,     \* retry delays until a freed slot can be taken
  holds,      \* the settings of the switch that hold
  at,         \* where each client is: off, Login, info, up, form, close, failed
  tries,      \* refused attempts of the login each is in
  disturbed,  \* did another use of the switch, a failing request, or a refusal
              \* that is not for the slot, get into its login, or last one?
  on, off,    \* what the bridge's last call is to bring about, and to undo
  todo,       \* what its forms have still to post
  ensured,    \* did it succeed, and no browser log in since?
  foreign     \* browser logins so far

switch  == <<slot, linger>>
call    == <<on, off, todo, ensured>>
login   == <<tries, disturbed>>
vars    == <<switch, holds, at, login, call, foreign>>

Init ==
  /\ slot = "free" /\ linger \in 0..MaxLinger
  /\ holds \in SUBSET Settings
  /\ at = [c \in Clients |-> "off"]
  /\ tries = [c \in Clients |-> 0]
  /\ disturbed = [c \in Clients |-> FALSE]
  /\ on = {} /\ off = {} /\ todo = {} /\ ensured = FALSE
  /\ foreign = 0

Go(c, where) == at' = [at EXCEPT ![c] = where]

\* A step of c on the switch gets in the way of the logins of the others.
Crossed(c)   == [d \in Clients |-> disturbed[d] \/ (d # c /\ at[d] \in Login)]
Disturb(c)   == disturbed' = Crossed(c)
Disturbed(c) == disturbed' = [disturbed EXCEPT ![c] = TRUE]

\* The login of c is over, and its attempts forgotten.
Forget(c, marks) ==
  tries' = [tries EXCEPT ![c] = 0] /\ disturbed' = [marks EXCEPT ![c] = FALSE]

\* The slot is given up, and may linger.
Free == slot' = "free" /\ linger' \in 0..MaxLinger

\* A logout without token frees a session of this container.  Whether it spares
\* one of another host is not known.
TokenlessLogout ==
  \/ slot # "free" /\ Free
  \/ slot \notin Clients /\ UNCHANGED switch

\* Plausible bugs, for the mutation runs: refusals are not counted, one attempt
\* is counted too many, the 403 of a form is not looked at, and verify_switch
\* has no finally block.
Uncounted(n)     == n
CountedTwice(n)  == IF n = 0 THEN 2 ELSE n + 1
Unraised(c)      == TRUE
NoFinally(c)     == "failed"

\* The attempts refused so far, after one more.
OneMore(n) == n + 1

\* Where a client is after a login that raised: run_bridge ends outside its try
\* block, verify_switch goes to its finally block.
AfterFailure(c) == IF c = "scan" THEN "close" ELSE "failed"

\* Does raise_for_status let an answer for c pass?
Answered(c) == slot = c

\* run_bridge, or verify_switch of a scan, calls login().
Begin(c) ==
  /\ at[c] \in {"off", "failed"}
  /\ Go(c, "logout")
  /\ tries' = [tries EXCEPT ![c] = 0]
  /\ disturbed' = [disturbed EXCEPT ![c] = slot = "browser"]
  /\ UNCHANGED <<switch, holds, call, foreign>>

\* A session left over from an earlier run is freed first; a failure of that
\* request is ignored.
LogoutFirst(c) ==
  /\ at[c] = "logout"
  /\ \/ TokenlessLogout /\ Disturb(c)
     \/ UNCHANGED switch /\ Disturbed(c)
  /\ Go(c, "nonce")
  /\ UNCHANGED <<holds, tries, call, foreign>>

\* The login page and the nonce.
Nonce(c) ==
  /\ at[c] = "nonce"
  /\ Go(c, "post")
  /\ UNCHANGED <<switch, holds, login, call, foreign>>

\* POST /form/Login redirects with a token.
Accepted(c) ==
  /\ at[c] = "post" /\ linger = 0
  /\ slot' = c
  /\ Go(c, "info")
  /\ Forget(c, Crossed(c))
  /\ UNCHANGED <<linger, holds, call, foreign>>

\* It does not, while the slot lingers or somebody else has it; nor, whoever has
\* it, with wrong credentials, or for a login page that is not understood, which
\* shows before the POST.  Each is a DLinkWebUIError: count the attempt, and wait
\* or raise.
Refused(c) ==
  /\ \/ at[c] = "post" /\ (linger > 0 \/ slot \notin {"free", c}) /\ UNCHANGED disturbed
     \/ at[c] \in {"nonce", "post"} /\ Disturbed(c)
  /\ tries' = [tries EXCEPT ![c] = OneMore(@)]
  /\ IF OneMore(tries[c]) >= Retries
       THEN Go(c, AfterFailure(c)) /\ UNCHANGED linger
       ELSE Go(c, "logout") /\ linger' = IF linger = 0 THEN 0 ELSE linger - 1
  /\ UNCHANGED <<slot, holds, call, foreign>>

\* A request of the login raises something else than DLinkWebUIError: there is
\* no further attempt.
LoginBreaks(c) ==
  /\ at[c] \in {"nonce", "post"}
  /\ Go(c, AfterFailure(c))
  /\ Forget(c, disturbed)
  /\ UNCHANGED <<switch, holds, call, foreign>>

\* get_switch_info of the bridge.  When it raises, run_bridge ends before its
\* try block: nobody logs out.
BridgeInfo ==
  /\ at["bridge"] = "info"
  /\ \/ slot = "bridge" /\ Go("bridge", "up")
     \/ Go("bridge", "failed")
  /\ UNCHANGED <<switch, holds, login, call, foreign>>

\* get_switch_info of the scan, answered or not.
ScanInfo ==
  /\ at["scan"] = "info"
  /\ Go("scan", "close")
  /\ UNCHANGED <<switch, holds, login, call, foreign>>

\* The logout of the finally block of verify_switch, and of run_bridge; the
\* request may fail, which is ignored.
Logout(c) ==
  /\ at[c] = "close"
  /\ TokenlessLogout \/ UNCHANGED switch
  /\ Go(c, "off")
  /\ Forget(c, Crossed(c))
  /\ UNCHANGED <<holds, call, foreign>>

\* What a call is to bring about and to undo, and what its forms will post.
Ask(more, less, posts) ==
  /\ on' = more /\ off' = less /\ todo' = posts
  /\ UNCHANGED <<switch, holds, login, foreign>>

\* list_vlans asks for one page of 50 VLANs, and takes it for all there is: on a
\* switch with more of them than that, any of Vids may be past it.
Pages == SUBSET (holds \cap Vids)

\* ensure_vlans: the VLANs are listed; a 403 raises; with none missing it is done.
EnsureVlans ==
  /\ at["bridge"] = "up"
  /\ \E V \in SUBSET Vids, page \in Pages :
       /\ Ask(V, {}, IF Answered("bridge") THEN V \ page ELSE {})
       /\ ensured' = (Answered("bridge") /\ V \subseteq page)
  /\ IF todo' = {} THEN UNCHANGED at ELSE Go("bridge", "form")

\* set_port_enabled: one form, which sets the other fields to their defaults.
SetPortEnabled ==
  /\ at["bridge"] = "up"
  /\ \E p \in Ports : \/ Ask({p}, {Tuned(p)}, {p})
                      \/ Ask({}, {p, Tuned(p)}, {p})
  /\ ensured' = FALSE
  /\ Go("bridge", "form")

\* set_port_vlans: a form for each VLAN, with the rest of the port's defaults.
SetPortVlans ==
  /\ at["bridge"] = "up"
  /\ \E p \in Ports, V \in SUBSET Vids \ {{}} :
       LET members == {Member(p, v) : v \in V} IN Ask(members, {Tuned(p)}, members)
  /\ ensured' = FALSE
  /\ Go("bridge", "form")

\* What the next form posts: all missing VLANs at once, anything else alone.
Forms == IF todo \subseteq Vids THEN {todo} ELSE {{s} : s \in todo}

\* The switch after it took a form, the call's other fields included.
Posted(form) == (holds \ off) \cup (form \cap on)

\* A form, and the end of the call with the last one or with a 403.
PostForm ==
  /\ at["bridge"] = "form"
  /\ \E form \in Forms :
       /\ holds' = IF slot = "bridge" THEN Posted(form) ELSE holds
       /\ todo' = IF Answered("bridge") THEN todo \ form ELSE {}
  /\ ensured' = (Answered("bridge") /\ todo' = {})
  /\ IF todo' = {} THEN Go("bridge", "up") ELSE UNCHANGED at
  /\ UNCHANGED <<switch, login, on, off, foreign>>

\* A request of a call fails otherwise, the form perhaps already taken.
RequestFails ==
  /\ at["bridge"] = "form"
  /\ \/ UNCHANGED holds
     \/ slot = "bridge" /\ \E form \in Forms : holds' = Posted(form)
  /\ todo' = {} /\ ensured' = FALSE
  /\ Go("bridge", "up")
  /\ UNCHANGED <<switch, login, on, off, foreign>>

\* run_bridge ends by an exception, and its finally block logs out; or the
\* container is killed, and nothing does.  Its calls are forgotten.
BridgeEnds ==
  /\ at["bridge"] \in {"up", "form"}
  /\ \E where \in {"close", "off"} : Go("bridge", where)
  /\ Ask({}, {}, {}) /\ ensured' = FALSE

\* Somebody logs into the switch's web UI with a browser, and leaves the switch
\* as they like (they hold the slot: nobody can tell when) ...
BrowserLogin ==
  /\ foreign < MaxForeign /\ linger = 0
  /\ slot' = "browser" /\ foreign' = foreign + 1
  /\ holds' \in SUBSET Settings /\ ensured' = FALSE
  /\ Disturb("browser")
  /\ UNCHANGED <<linger, at, tries, on, off, todo>>

\* ... and out.
BrowserLogout ==
  /\ slot = "browser"
  /\ Free
  /\ Disturb("browser")
  /\ UNCHANGED <<holds, at, tries, call, foreign>>

\* Time passes: a freed slot lingers for a while only.
Elapse ==
  /\ linger > 0
  /\ linger' = linger - 1
  /\ UNCHANGED <<slot, holds, at, login, call, foreign>>

\* A step of a login of c, or of its calls once logged in.
LoginStep(c) == LogoutFirst(c) \/ Nonce(c) \/ Accepted(c) \/ Refused(c)
Calls        == EnsureVlans \/ SetPortEnabled \/ SetPortVlans
BridgeStep   == LoginStep("bridge") \/ BridgeInfo \/ Calls \/ PostForm
ScanStep     == LoginStep("scan") \/ ScanInfo \/ Logout("scan")

Next ==
  \/ \E c \in Clients : Begin(c) \/ LoginBreaks(c)
  \/ BridgeStep \/ ScanStep \/ Logout("bridge") \/ RequestFails \/ BridgeEnds
  \/ BrowserLogin \/ BrowserLogout \/ Elapse

Spec == Init /\ [][Next]_vars

\* A thread that is in a call gets on with it; nothing is asked of those who
\* start scans, bridges or browsers.
FairSpec == Spec /\ WF_vars(BridgeStep) /\ WF_vars(ScanStep)

-----------------------------------------------------------------------------
TypeOK ==
  /\ slot \in {"free", "browser"} \cup Clients
  /\ linger \in 0..MaxLinger
  /\ linger > 0 => slot = "free"
  /\ holds \subseteq Settings /\ on \subseteq Settings /\ off \subseteq Settings
  /\ todo \subseteq on \cup off
  /\ at \in [Clients -> Login \cup {"off", "info", "up", "form", "close", "failed"}]
  /\ at["scan"] \notin {"up", "form", "failed"}
  /\ tries \in [Clients -> 0..Retries]
  /\ disturbed \in [Clients -> BOOLEAN]
  /\ ensured \in BOOLEAN
  /\ foreign \in 0..MaxForeign

\* The retries outlast a slot that lingers and a session left over from a
\* killed bridge: unless somebody else used the switch meanwhile, a request
\* failed or the credentials are wrong, no login is given up.
RetriesOutlastLinger ==
  \A c \in Clients : tries[c] >= Retries => disturbed[c]

\* The contract of the calls, which no session lost half-way and no browser
\* breaks: they touch only the settings they name, their forms' other fields
\* included, and return normally only when all is as asked.  A page or a port
\* seen before a browser came is not acted upon after it.
Contract == INSTANCE Switch WITH others <- foreign
KeepsContract == Contract!Spec

\* A login ends, one way or the other, however often others get in the way.
LoginEnds ==
  \A c \in Clients : (at[c] \in Login) ~> (at[c] \notin Login)

\* A bridge that lost its session gets it back, or is at least restarted.
Recovers ==
  (at["bridge"] = "up" /\ slot # "bridge") ~> (slot = "bridge" \/ at["bridge"] # "up")
=============================================================================
