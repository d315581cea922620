--------------------------- MODULE NetgearAdapter ---------------------------
(***************************************************************************)
(* The calls of NetgearSwitchAdapter: those about VLANs through the switch's *)
(* own web pages (netgear_http.py), those about ports over NSDP, which has  *)
(* no sessions, while others log into the switch and change it.  The switch *)
(* has one admin session.  It does not refuse a request of a session that   *)
(* was kicked: it answers 200 with the login page, and a form posted under  *)
(* that session is dropped without an error.                               *)
(*                                                                         *)
(* The module starts when run_bridge has logged in (line 403), so that      *)
(* _require_login holds throughout.  One call runs at a time, as in the     *)
(* single thread of the bridge.                                            *)
(***************************************************************************)
EXTENDS Naturals, FiniteSets

CONSTANTS
  Vids,      \* the VLAN ids the controller may push
  BadVids,   \* those of them outside 1..4094
  Ports,     \* the ports it may enable or disable
  MaxKicks   \* bound: what others do to the switch or the session

ASSUME VidsAssumption == IsFiniteSet(Vids) /\ BadVids \subseteq Vids /\ Vids \cap Ports = {}
ASSUME KicksAssumption == MaxKicks \in Nat

\* What a call may be about: a VLAN exists, a port is enabled; and what of that
\* can hold.
Settings == Vids \cup Ports
Possible == Settings \ BadVids

VARIABLES
  pc,       \* idle, fetch, relogin, refetch, next, post, nsdp
  page,     \* what the page is fetched for: the VLAN "state" or a "form"
  on, off,  \* what the call is to bring about, and to undo; nothing when it
            \* is list_vlans
  todo,     \* the VLANs ensure_vlans has still to add
  vid,      \* the one it is adding
  result,   \* how the last call ended
  session,  \* does the switch take the bridge's session?
  holds,    \* the settings of the switch that hold
  dot1q,    \* whether 802.1Q is enabled
  kicks,    \* how often others took the session or changed the switch, and
  before,   \* how often when the current call began
  edited    \* was the switch changed since?

call   == <<page, on, off, todo, vid>>
switch == <<holds, dot1q>>
others == <<kicks, before, edited>>
vars   == <<pc, call, result, session, switch, others>>

Results == {"none", "ok", "disabled", "invalid", "contended", "unreachable"}

Init ==
  /\ pc = "idle" /\ page = "state" /\ on = {} /\ off = {} /\ todo = {}
  /\ vid \in Vids
  /\ result = "none"
  /\ session = TRUE
  /\ holds \in SUBSET Possible /\ dot1q \in BOOLEAN
  /\ ~dot1q => holds \cap Vids = {}
  /\ kicks = 0 /\ before = 0 /\ edited = FALSE

\* Plausible bugs, for the mutation runs: the page fetched for the first VLAN
\* serves for all; a login page is asked for again without a login; a bad id
\* is posted like any other; "in" for "not in".
ReusePage   == "post"
FetchAgain  == "refetch"
Unchecked(v) == TRUE
Existing     == on \cap holds

\* The range check of add_vlan.
InRange(v) == v \notin BadVids

\* The call returns or raises.
Return(r) ==
  pc' = "idle" /\ result' = r /\ todo' = {} /\ UNCHANGED <<page, on, off, vid>>

\* A call begins that is to bring some settings about and to undo others.
Ask(more, less) ==
  /\ pc = "idle"
  /\ on' = more /\ off' = less
  /\ before' = kicks /\ edited' = FALSE
  /\ UNCHANGED <<todo, vid, result, session, switch, kicks>>

\* list_vlans of a report, or ensure_vlans of a pushed configuration: both
\* read the VLAN page first.
AskVlans == \E V \in SUBSET Vids : Ask(V, {}) /\ pc' = "fetch" /\ page' = "state"

\* set_port_enabled of a pushed configuration.
AskPort ==
  \E p \in Ports : (Ask({p}, {}) \/ Ask({}, {p})) /\ pc' = "nsdp" /\ UNCHANGED page

\* Where a login page in place of the VLAN page leads.
AfterLoginPage == "relogin"

\* Where the form of the next VLAN starts: with a page of its own, for its
\* one-time secureRand.
FormStart == "fetch"

\* The VLANs that are wanted and not on the page.
Missing == on \ holds

\* The VLAN page has arrived.
Loaded ==
  \/ /\ page = "form"
     /\ pc' = "post" /\ UNCHANGED <<call, result>>
  \/ /\ page = "state" /\ on = {}
     /\ Return("ok")
  \/ /\ page = "state" /\ on # {} /\ ~dot1q
     /\ Return("disabled")
  \/ /\ page = "state" /\ on # {} /\ dot1q
     /\ todo' = Missing
     /\ pc' = "next" /\ UNCHANGED <<page, on, off, vid, result>>

\* _fetch_vlan_page: the page, or a login page and one re-login.
Fetch ==
  /\ pc = "fetch"
  /\ IF session THEN Loaded
     ELSE pc' = AfterLoginPage /\ UNCHANGED <<call, result>>
  /\ UNCHANGED <<session, switch, others>>

\* A login takes the one session from whoever has it.
Relogin ==
  /\ pc = "relogin"
  /\ session' = TRUE
  /\ pc' = "refetch"
  /\ UNCHANGED <<call, result, switch, others>>

Refetch ==
  /\ pc = "refetch"
  /\ IF session THEN Loaded ELSE Return("contended")
  /\ UNCHANGED <<session, switch, others>>

\* The loop of ensure_vlans and the range check of add_vlan, which ends the
\* loop when it raises.
NextVlan ==
  /\ pc = "next"
  /\ \/ todo = {} /\ Return("ok")
     \/ (\E v \in todo : ~InRange(v)) /\ Return("invalid")
     \/ \E v \in todo :
          /\ InRange(v)
          /\ vid' = v /\ page' = "form" /\ pc' = FormStart
          /\ UNCHANGED <<on, off, todo, result>>
  /\ UNCHANGED <<session, switch, others>>

\* The form reaches the switch, which drops it without the session; what comes
\* of it while 802.1Q is off is not known.
TakeForm ==
  \/ session /\ holds' = holds \cup {vid}
  \/ ~(session /\ dot1q) /\ UNCHANGED holds

\* The POST answers 200 whether the form was taken or the login page came.
PostForm ==
  /\ pc = "post"
  /\ TakeForm
  /\ todo' = todo \ {vid}
  /\ pc' = "next"
  /\ UNCHANGED <<page, on, off, vid, result, session, dot1q, others>>

\* The switch has done what the port's call asks for.
Ported == (holds \ off) \cup on

\* set_port_enabled of the library, which asks for no session.
SetPortEnabled ==
  /\ pc = "nsdp"
  /\ holds' = Ported
  /\ Return("ok")
  /\ UNCHANGED <<session, dot1q, others>>

\* A request fails or times out, perhaps after the switch took it: the
\* exception ends the call.
Unreachable ==
  /\ pc \in {"fetch", "relogin", "refetch", "post", "nsdp"}
  /\ \/ UNCHANGED holds
     \/ pc = "post" /\ TakeForm
     \/ pc = "nsdp" /\ holds' = Ported
  /\ Return("unreachable")
  /\ UNCHANGED <<session, dot1q, others>>

\* Somebody else logs in, or the session times out on the switch.
Kick ==
  /\ session /\ kicks < MaxKicks
  /\ session' = FALSE /\ kicks' = kicks + 1
  /\ UNCHANGED <<pc, call, result, switch, before, edited>>

\* Whoever has the session changes the switch; switching 802.1Q on or off
\* deletes its VLANs.
Edit ==
  /\ ~session /\ kicks < MaxKicks
  /\ holds' \in SUBSET Possible /\ dot1q' \in BOOLEAN
  /\ dot1q' # dot1q => holds' \cap Vids = {}
  /\ kicks' = kicks + 1 /\ edited' = TRUE
  /\ UNCHANGED <<pc, call, result, session, before>>

Step ==
  AskVlans \/ AskPort \/ Fetch \/ Relogin \/ Refetch \/ NextVlan \/ PostForm \/ SetPortEnabled

Next == Step \/ Unreachable \/ Kick \/ Edit

Spec == Init /\ [][Next]_vars

\* The bridge reports and applies for ever; nothing is asked of the others.
FairSpec == Spec /\ WF_vars(Step)

-----------------------------------------------------------------------------
TypeOK ==
  /\ pc \in {"idle", "fetch", "relogin", "refetch", "next", "post", "nsdp"}
  /\ page \in {"state", "form"}
  /\ on \subseteq Settings /\ off \subseteq Ports
  /\ todo \subseteq on \cap Vids /\ vid \in Vids
  /\ pc = "post" => page = "form" /\ vid \in todo \ BadVids
  /\ result \in Results
  /\ session \in BOOLEAN /\ dot1q \in BOOLEAN
  /\ holds \subseteq Possible
  /\ kicks \in 0..MaxKicks /\ before \in 0..kicks /\ edited \in BOOLEAN

\* Unless somebody changed the switch meanwhile, a VLAN that a successful
\* ensure_vlans left out was lost to a session taken between its page and its
\* form: one kick during the call costs at most one VLAN, since every form
\* starts with a page of its own.
LossNeedsKick ==
  pc = "idle" /\ result = "ok" /\ ~edited => Cardinality(on \ holds) <= kicks - before

\* A session lost before the call began never fails it: the one re-login
\* masks it.  A call fails for contention only if it was kicked meanwhile.
LossIsMasked == pc = "idle" /\ result = "contended" => kicks > before

\* When the others stop logging in, no call fails for contention any more.
Recovers == <>[](pc = "idle" => result # "contended")

\* The contract of ensure_vlans: the VLANs that did not exist were created.
EnsureCreates == pc = "idle" /\ result = "ok" /\ ~edited => on \subseteq holds

\* What holds of a call that nobody kicks and during which nobody changes the
\* switch: it brings about what it was asked for and nothing else, and returns
\* normally only when all of it holds.  Whether 802.1Q is on, and which VLANs
\* exist, is not trusted for longer than that.
Contract == INSTANCE Switch WITH
  ensured <- pc = "idle" /\ result = "ok" /\ kicks = before,
  others  <- kicks
KeepsContract == Contract!Spec
=============================================================================
