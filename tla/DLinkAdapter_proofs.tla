------------------------- MODULE DLinkAdapter_proofs -------------------------
(* The D-Link adapter is well-typed, keeps the contract of switch_adapter.py, *)
(* and its retries outlast a lingering slot: for every set of VLANs and ports *)
(* and every number of attempts, retry delays and browsers.                  *)
EXTENDS DLinkAdapter, TLAPS

Places == Login \cup {"off", "info", "up", "form", "close", "failed"}

\* A login that goes on has attempts left.
AttemptsLeft == \A c \in Clients : at[c] \in Login => tries[c] < Retries

\* A call that has forms to post has not returned; as long as the bridge has the
\* session, what it no longer has to post was posted or was there; and a call
\* that has returned normally left everything as asked.
CallInv ==
  /\ on \cap off = {}
  /\ at["bridge"] = "form" => ~ensured
  /\ at["bridge"] = "form" /\ slot = "bridge" => on \ todo \subseteq holds
  /\ ensured => on \subseteq holds /\ off \cap holds = {}

\* Type correctness of the login's part of the state, and of the calls' part.
LoginOK ==
  /\ slot \in {"free", "browser"} \cup Clients
  /\ linger \in 0..MaxLinger /\ (linger > 0 => slot = "free")
  /\ at \in [Clients -> Places] /\ at["scan"] \notin {"up", "form", "failed"}
  /\ tries \in [Clients -> 0..Retries]
  /\ disturbed \in [Clients -> BOOLEAN]
  /\ foreign \in 0..MaxForeign
CallOK ==
  /\ holds \subseteq Settings /\ on \subseteq Settings /\ off \subseteq Settings
  /\ todo \subseteq on \cup off
  /\ ensured \in BOOLEAN

LEMMA ClientsAre == Clients = {"bridge", "scan"} /\ "bridge" # "scan"
BY DEF Clients

LEMMA TypeParts == LoginOK /\ CallOK => TypeOK
BY DEF LoginOK, CallOK, TypeOK, Places

\* The steps of a login and of a logout, of either client.
Session(c) == Begin(c) \/ LoginBreaks(c) \/ LoginStep(c) \/ Logout(c)

\* Everything that touches no setting.
Aside == (\E c \in Clients : Session(c)) \/ BridgeInfo \/ ScanInfo \/ BrowserLogout \/ Elapse

\* The steps of the bridge's calls.
CallSteps == Calls \/ PostForm \/ RequestFails \/ BridgeEnds

LEMMA NextCases == Next => Aside \/ CallSteps \/ BrowserLogin
BY ClientsAre DEF Next, Aside, CallSteps, Session, BridgeStep, ScanStep

\* What Forget and Crossed do to the marks.
LEMMA ForgetTyped ==
  ASSUME RetriesAssumption, tries \in [Clients -> 0..Retries],
         NEW c \in Clients, NEW marks \in [Clients -> BOOLEAN], Forget(c, marks)
  PROVE  /\ tries' \in [Clients -> 0..Retries] /\ disturbed' \in [Clients -> BOOLEAN]
         /\ tries'[c] = 0 /\ ~disturbed'[c]
         /\ \A d \in Clients \ {c} : tries'[d] = tries[d] /\ disturbed'[d] = marks[d]
BY DEF Forget, RetriesAssumption

LEMMA CrossedTyped ==
  ASSUME LoginOK
  PROVE  \A c : /\ Crossed(c) \in [Clients -> BOOLEAN]
                /\ \A d \in Clients : Crossed(c)[d] <=> disturbed[d] \/ (d # c /\ at[d] \in Login)
BY DEF Crossed, LoginOK

\* Logins, logouts and browsers keep the login's part well-typed.
LEMMA SessionTyped ==
  ASSUME LoginOK, AttemptsLeft, NEW c \in Clients, Session(c)
  PROVE  LoginOK' /\ AttemptsLeft'
<1> USE RetriesAssumption, ClientsAre DEF LoginOK, AttemptsLeft, Login, Places, Go
<1>1. CASE Begin(c)
  BY <1>1 DEF Begin, switch
<1>2. CASE LoginBreaks(c)
  BY <1>2 DEF LoginBreaks, AfterFailure, Forget, switch
<1>3. CASE LogoutFirst(c)
  BY <1>3 DEF LogoutFirst, TokenlessLogout, Free, Disturb, Crossed, Disturbed, switch
<1>4. CASE Nonce(c)
  BY <1>4 DEF Nonce, switch, login
<1>5. CASE Accepted(c)
  <2>1. Forget(c, Crossed(c))
    BY <1>5 DEF Accepted
  <2> QED
    BY <1>5, <2>1, ForgetTyped, CrossedTyped DEF Accepted
<1>6. CASE Refused(c)
  <2>1. disturbed' \in [Clients -> BOOLEAN]
    BY <1>6 DEF Refused, Disturbed
  <2>2. tries[c] < Retries /\ tries' = [tries EXCEPT ![c] = tries[c] + 1]
    BY <1>6 DEF Refused, OneMore
  <2>3. CASE tries[c] + 1 >= Retries
    <3>1. at' = [at EXCEPT ![c] = AfterFailure(c)] /\ UNCHANGED <<slot, linger, foreign>>
      BY <1>6, <2>3 DEF Refused, OneMore
    <3> QED
      BY <2>1, <2>2, <3>1 DEF AfterFailure
  <2>4. CASE ~(tries[c] + 1 >= Retries)
    <3>1. /\ at' = [at EXCEPT ![c] = "logout"] /\ UNCHANGED <<slot, foreign>>
          /\ linger' = IF linger = 0 THEN 0 ELSE linger - 1
      BY <1>6, <2>4 DEF Refused, OneMore
    <3> QED
      BY <2>1, <2>2, <2>4, <3>1
  <2> QED
    BY <2>3, <2>4
<1>7. CASE Logout(c)
  <2>1. Forget(c, Crossed(c))
    BY <1>7 DEF Logout
  <2> QED
    BY <1>7, <2>1, ForgetTyped, CrossedTyped DEF Logout, TokenlessLogout, Free, switch
<1> QED
  BY <1>1, <1>2, <1>3, <1>4, <1>5, <1>6, <1>7 DEF Session, LoginStep

LEMMA LoginTyped == LoginOK /\ AttemptsLeft /\ [Next]_vars => LoginOK' /\ AttemptsLeft'
<1> SUFFICES ASSUME LoginOK, AttemptsLeft, [Next]_vars PROVE LoginOK' /\ AttemptsLeft'
  OBVIOUS
<1> USE RetriesAssumption, ClientsAre DEF LoginOK, AttemptsLeft, Login, Places
<1>1. CASE \E c \in Clients : Session(c)
  BY <1>1, SessionTyped
<1>2. CASE BridgeInfo \/ ScanInfo
  BY <1>2 DEF BridgeInfo, ScanInfo, Go, switch, login
<1>3. CASE BrowserLogin \/ BrowserLogout
  BY <1>3, CrossedTyped DEF BrowserLogin, BrowserLogout, Free, Disturb
<1>4. CASE Elapse
  BY <1>4 DEF Elapse, login
<1>5. CASE CallSteps
  BY <1>5 DEF CallSteps, Calls, EnsureVlans, SetPortEnabled, SetPortVlans, Ask, PostForm,
              RequestFails, BridgeEnds, Go, switch, login
<1>6. CASE UNCHANGED vars
  BY <1>6 DEF vars, switch, login
<1> QED
  BY <1>1, <1>2, <1>3, <1>4, <1>5, <1>6, NextCases DEF Aside

LEMMA SettingsAre ==
  /\ Vids \subseteq Settings /\ Ports \subseteq Settings
  /\ \A p \in Ports : Tuned(p) \in Settings /\ \A v \in Vids : Member(p, v) \in Settings
BY DEF Settings

\* How a call begins.
LEMMA CallBegins ==
  ASSUME LoginOK, CallOK, CallInv, Calls
  PROVE  /\ CallOK' /\ CallInv' /\ Contract!Call
         /\ UNCHANGED <<slot, holds, foreign>>
<1> USE SettingsAre DEF CallOK, CallInv, Contract!Call, Contract!Return, Contract!Achieved
<1>1. CASE EnsureVlans
  <2>1. PICK V \in SUBSET Vids, page \in Pages :
          /\ Ask(V, {}, IF Answered("bridge") THEN V \ page ELSE {})
          /\ ensured' = (Answered("bridge") /\ V \subseteq page)
    BY <1>1 DEF EnsureVlans
  <2>2. page \subseteq holds
    BY DEF Pages
  <2>3. on' = V /\ off' = {} /\ UNCHANGED <<slot, holds, foreign>>
        /\ todo' = IF Answered("bridge") THEN V \ page ELSE {}
    BY <2>1 DEF Ask, switch
  <2>4. at'["bridge"] = "form" => Answered("bridge") /\ ~ V \subseteq page
    BY <1>1, <2>3 DEF EnsureVlans, Answered
  <2> QED
    BY <2>1, <2>2, <2>3, <2>4
<1>2. CASE SetPortEnabled
  <2>1. PICK p \in Ports : Ask({p}, {Tuned(p)}, {p}) \/ Ask({}, {p, Tuned(p)}, {p})
    BY <1>2 DEF SetPortEnabled
  <2>2. /\ on' \cap off' = {} /\ todo' = {p} /\ todo' \subseteq on' \cup off'
        /\ on' \subseteq todo' /\ on' \subseteq Settings /\ off' \subseteq Settings
        /\ UNCHANGED <<slot, holds, foreign>>
    BY <2>1, KindsAssumption DEF Ask, switch
  <2> QED
    BY <1>2, <2>2 DEF SetPortEnabled
<1>3. CASE SetPortVlans
  <2>1. PICK p \in Ports, V \in SUBSET Vids \ {{}} :
          LET members == {Member(p, v) : v \in V} IN Ask(members, {Tuned(p)}, members)
    BY <1>3 DEF SetPortVlans
  <2> DEFINE members == {Member(p, v) : v \in V}
  <2>2. members \subseteq Settings /\ Tuned(p) \notin members
    BY KindsAssumption
  <2>3. /\ on' = members /\ off' = {Tuned(p)} /\ todo' = members
        /\ UNCHANGED <<slot, holds, foreign>>
    BY <2>1 DEF Ask, switch
  <2> HIDE DEF members
  <2> QED
    BY <1>3, <2>2, <2>3 DEF SetPortVlans
<1> QED
  BY <1>1, <1>2, <1>3 DEF Calls

\* How it goes on.
LEMMA CallGoesOn ==
  ASSUME LoginOK, CallOK, CallInv, PostForm \/ RequestFails \/ BridgeEnds
  PROVE  /\ CallOK' /\ CallInv' /\ (Contract!Work \/ Contract!Call)
         /\ UNCHANGED <<slot, foreign>>
<1> USE ClientsAre DEF CallOK, CallInv, LoginOK, Contract!Return, Contract!Achieved
<1>1. ASSUME NEW form \in Forms
      PROVE  /\ form \subseteq todo
             /\ holds \ off \subseteq Posted(form) /\ Posted(form) \subseteq holds \cup on
             /\ Posted(form) \cap off = {}
             /\ Posted(form) \subseteq Settings
             /\ on \ todo \subseteq holds => on \ (todo \ form) \subseteq Posted(form)
  <2>1. form \subseteq todo
    BY DEF Forms
  <2> QED
    BY <2>1 DEF Posted
<1>2. CASE PostForm
  <2>1. PICK form \in Forms :
          /\ holds' = IF slot = "bridge" THEN Posted(form) ELSE holds
          /\ todo' = IF Answered("bridge") THEN todo \ form ELSE {}
    BY <1>2 DEF PostForm
  <2>2. /\ UNCHANGED <<slot, on, off, foreign>>
        /\ at["bridge"] = "form" /\ (at'["bridge"] = "form" => todo' # {})
        /\ ensured' = (slot = "bridge" /\ todo' = {})
    BY <1>2 DEF PostForm, switch, Answered, Go
  <2>3. CASE slot = "bridge"
    BY <1>1, <2>1, <2>2, <2>3 DEF Contract!Work, Answered
  <2>4. CASE slot # "bridge"
    BY <1>1, <2>1, <2>2, <2>4 DEF Contract!Work, Answered
  <2> QED
    BY <2>3, <2>4
<1>3. CASE RequestFails
  <2>1. /\ UNCHANGED <<slot, on, off, foreign>> /\ todo' = {} /\ ensured' = FALSE
        /\ at["bridge"] = "form" /\ at'["bridge"] = "up"
    BY <1>3 DEF RequestFails, switch, Go
  <2>2. holds' = holds \/ \E form \in Forms : holds' = Posted(form)
    BY <1>3 DEF RequestFails
  <2> QED
    BY <1>1, <2>1, <2>2 DEF Contract!Work
<1>4. CASE BridgeEnds
  BY <1>4 DEF BridgeEnds, Ask, switch, Go, Contract!Call
<1> QED
  BY <1>2, <1>3, <1>4

\* What the others do is none of the calls' business; a browser's login is the
\* contract's Others.
LEMMA OthersStep ==
  ASSUME LoginOK, CallOK, CallInv, Aside \/ BrowserLogin \/ UNCHANGED vars
  PROVE  CallOK' /\ CallInv' /\ (UNCHANGED Contract!vars \/ Contract!Others)
<1> USE ClientsAre DEF CallOK, CallInv
<1>1. CASE BrowserLogin
  BY <1>1 DEF BrowserLogin, Contract!Others
<1>2. CASE Aside \/ UNCHANGED vars
  <2>1. UNCHANGED <<holds, call, foreign>>
    BY <1>2 DEF Aside, Session, Begin, LoginBreaks, LoginStep, LogoutFirst, Nonce, Accepted,
                Refused, Logout, BridgeInfo, ScanInfo, BrowserLogout, Elapse, vars
  <2>2. at'["bridge"] = "form" => at["bridge"] = "form"
    BY <1>2 DEF LoginOK, Aside, Session, Begin, LoginBreaks, LoginStep, LogoutFirst, Nonce,
                Accepted, Refused, AfterFailure, Logout, BridgeInfo, ScanInfo, BrowserLogout,
                Elapse, vars, Go
  <2>3. slot' = "bridge" /\ at'["bridge"] = "form" => slot = "bridge"
    <3>1. CASE \E c \in Clients : Accepted(c)
      BY <3>1 DEF Accepted, Go, LoginOK
    <3>2. CASE ~ \E c \in Clients : Accepted(c)
      BY <1>2, <3>2 DEF Aside, Session, Begin, LoginBreaks, LoginStep, LogoutFirst, Nonce,
                Refused, Logout, TokenlessLogout, Free, BridgeInfo, ScanInfo, BrowserLogout,
                Elapse, vars, switch
    <3> QED
      BY <3>1, <3>2
  <2> QED
    BY <2>1, <2>2, <2>3 DEF call, Contract!vars
<1> QED
  BY <1>1, <1>2

\* The inductive invariant.
IInv == LoginOK /\ AttemptsLeft /\ CallOK /\ CallInv

LEMMA Inductive ==
  /\ Init => IInv
  /\ IInv /\ [Next]_vars => IInv' /\ [Contract!Next]_(Contract!vars)
<1>1. Init => IInv
  <2> SUFFICES ASSUME Init PROVE IInv
    OBVIOUS
  <2>1. LoginOK /\ AttemptsLeft
    BY RetriesAssumption, ClientsAre DEF Init, LoginOK, AttemptsLeft, Login, Places
  <2>2. CallOK /\ CallInv
    BY ClientsAre DEF Init, CallOK, CallInv
  <2> QED
    BY <2>1, <2>2 DEF IInv
<1>2. IInv /\ [Next]_vars => IInv' /\ [Contract!Next]_(Contract!vars)
  <2> SUFFICES ASSUME IInv, [Next]_vars PROVE IInv' /\ [Contract!Next]_(Contract!vars)
    OBVIOUS
  <2>1. LoginOK' /\ AttemptsLeft'
    BY LoginTyped DEF IInv
  <2>2. CallOK' /\ CallInv' /\ [Contract!Next]_(Contract!vars)
    BY CallBegins, CallGoesOn, OthersStep, NextCases DEF IInv, CallSteps, Contract!Next
  <2> QED
    BY <2>1, <2>2 DEF IInv
<1> QED
  BY <1>1, <1>2

\* Type correctness, whoever uses the switch and however requests fail.
THEOREM TypeCorrect == Spec => []TypeOK
<1>1. IInv => TypeOK
  BY TypeParts DEF IInv
<1> QED
  BY <1>1, Inductive, PTL DEF Spec

\* The D-Link adapter implements the abstract switch: its calls touch only what
\* they name and return normally only when all is as asked, whoever takes the
\* session, or changes the switch, at whatever point.
THEOREM Refinement == Spec => KeepsContract
<1>1. Init => Contract!Init
  BY DEF Init, Contract!Init
<1> QED
  BY <1>1, Inductive, PTL DEF Spec, KeepsContract, Contract!Spec

\* A call that returned normally can be relied on for as long as no browser
\* logs in: everything is as it asked, whatever the login, the scan and the
\* later calls' failures did since.
THEOREM Reliable == Spec => [](ensured => Contract!Achieved)
<1>1. IInv => (ensured => Contract!Achieved)
  BY DEF IInv, CallInv, Contract!Achieved
<1> QED
  BY <1>1, Inductive, PTL DEF Spec

\* An undisturbed login finds the slot free after its first request, and every
\* refusal is one delay less that it lingers.
Waiting(c) == slot = "free" /\ linger + tries[c] <= MaxLinger
LingerInv ==
  \A c \in Clients :
    ~disturbed[c] =>
      /\ at[c] \in {"nonce", "post"} => Waiting(c)
      /\ at[c] = "logout" => slot # "browser" /\ (tries[c] > 0 => Waiting(c))
      /\ at[c] \notin Login => tries[c] = 0

LEMMA LingerSession ==
  ASSUME MaxLinger < Retries, LoginOK, LingerInv, NEW c \in Clients, Session(c)
  PROVE  LingerInv'
<1> USE RetriesAssumption, ClientsAre DEF LoginOK, LingerInv, Waiting, Login, Places, Go
<1>1. CASE Begin(c)
  <2>1. /\ disturbed'[c] <=> slot = "browser"
        /\ \A d \in Clients \ {c} : disturbed'[d] = disturbed[d]
    BY <1>1 DEF Begin
  <2> QED
    BY <1>1, <2>1 DEF Begin, switch
<1>2. CASE LoginBreaks(c)
  BY <1>2 DEF LoginBreaks, AfterFailure, Forget, switch
<1>3. CASE LogoutFirst(c)
  BY <1>3 DEF LogoutFirst, TokenlessLogout, Free, Disturb, Crossed, Disturbed, switch
<1>4. CASE Nonce(c)
  BY <1>4 DEF Nonce, switch, login
<1>5. CASE Accepted(c)
  <2>1. Forget(c, Crossed(c))
    BY <1>5 DEF Accepted
  <2> QED
    BY <1>5, <2>1, ForgetTyped, CrossedTyped DEF Accepted
<1>6. CASE Refused(c)
  BY <1>6 DEF Refused, OneMore, AfterFailure, Disturbed
<1>7. CASE Logout(c)
  <2>1. Forget(c, Crossed(c))
    BY <1>7 DEF Logout
  <2> QED
    BY <1>7, <2>1, ForgetTyped, CrossedTyped DEF Logout, TokenlessLogout, Free, switch
<1> QED
  BY <1>1, <1>2, <1>3, <1>4, <1>5, <1>6, <1>7 DEF Session, LoginStep

LEMMA LingerStep ==
  ASSUME MaxLinger < Retries, LoginOK, LingerInv, [Next]_vars
  PROVE  LingerInv'
<1> USE RetriesAssumption, ClientsAre DEF LoginOK, LingerInv, Waiting, Login, Places
<1>1. CASE \E c \in Clients : Session(c)
  BY <1>1, LingerSession
<1>2. CASE BridgeInfo \/ ScanInfo
  BY <1>2 DEF BridgeInfo, ScanInfo, Go, switch, login
<1>3. CASE BrowserLogin \/ BrowserLogout
  BY <1>3 DEF BrowserLogin, BrowserLogout, Free, Disturb, Crossed
<1>4. CASE Elapse
  BY <1>4 DEF Elapse, login
<1>5. CASE CallSteps
  BY <1>5 DEF CallSteps, Calls, EnsureVlans, SetPortEnabled, SetPortVlans, Ask, PostForm,
              RequestFails, BridgeEnds, Go, switch, login
<1>6. CASE UNCHANGED vars
  BY <1>6 DEF vars, switch, login
<1> QED
  BY <1>1, <1>2, <1>3, <1>4, <1>5, <1>6, NextCases DEF Aside

\* With more attempts than retry delays a freed slot can linger, a login with the
\* right credentials that nobody disturbs is never given up.
THEOREM Patient ==
  ASSUME MaxLinger < Retries
  PROVE  Spec => []RetriesOutlastLinger
<1>1. Init => LingerInv
  BY ClientsAre DEF Init, LingerInv, Login
<1>2. IInv /\ LingerInv /\ [Next]_vars => LingerInv'
  BY LingerStep DEF IInv
<1>3. IInv /\ LingerInv => RetriesOutlastLinger
  BY RetriesAssumption
  DEF IInv, LoginOK, AttemptsLeft, LingerInv, RetriesOutlastLinger
<1> QED
  BY <1>1, <1>2, <1>3, Inductive, PTL DEF Spec
=============================================================================
