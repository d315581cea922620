------------------------ MODULE NetgearAdapter_proofs ------------------------
(* The Netgear adapter's calls, for every set of VLANs and ports and any     *)
(* number of sessions lost and changes made by others.                      *)
EXTENDS NetgearAdapter, FiniteSetTheorems, TLAPS

\* Nobody took the session or changed the switch since the call in progress, or
\* the last, began.
Undisturbed == kicks = before

\* ensure_vlans is past the first page: in its loop, or fetching for a form.
Underway == pc \in {"next", "post"} \/ (pc \in {"fetch", "relogin", "refetch"} /\ page = "form")

\* An undisturbed ensure_vlans has the session from its first page on, 802.1Q is
\* on, and what it has ticked off exists.
UnderwayInv == Underway => session /\ dot1q /\ on \ todo \subseteq holds
RefetchInv  == pc = "refetch" => session
ResultInv   ==
  pc = "idle" =>
    result # "contended" /\ (result = "ok" => on \subseteq holds /\ off \cap holds = {})

\* The counters of TypeOK; the rest of it, with what keeps it going: between
\* calls nothing is left to do, and a form is fetched for a VLAN still to add.
KicksOK == kicks \in 0..MaxKicks /\ before \in 0..kicks
FlagOK  == edited \in BOOLEAN
CallOK  ==
  /\ pc \in {"idle", "fetch", "relogin", "refetch", "next", "post", "nsdp"}
  /\ page \in {"state", "form"}
  /\ on \subseteq Settings /\ off \subseteq Ports
  /\ todo \subseteq on \cap Vids /\ vid \in Vids
  /\ pc = "post" => page = "form" /\ vid \in todo \ BadVids
  /\ result \in Results
  /\ session \in BOOLEAN /\ dot1q \in BOOLEAN
  /\ holds \subseteq Possible
  /\ on \cap off = {}
  /\ pc = "nsdp" => on \subseteq Ports
  /\ pc \notin {"idle", "nsdp"} => on \subseteq Vids /\ off = {}
  /\ pc = "idle" => todo = {}
  /\ pc \in {"fetch", "relogin", "refetch"} /\ page = "form" => vid \in todo \ BadVids

LEMMA TypeParts == KicksOK /\ FlagOK /\ CallOK => TypeOK
BY DEF TypeOK, KicksOK, FlagOK, CallOK

LEMMA FlagStep == FlagOK /\ [Next]_vars => FlagOK'
<1> SUFFICES ASSUME FlagOK, [Next]_vars PROVE edited' = edited \/ edited' = TRUE \/ edited' = FALSE
  BY DEF FlagOK
<1> QED
  BY Zenon DEF Next, Step, AskVlans, AskPort, Ask, Fetch, Relogin, Refetch, NextVlan, PostForm,
               SetPortEnabled, Unreachable, Kick, Edit, vars, others

LEMMA KicksStep == KicksOK /\ [Next]_vars => KicksOK'
<1> SUFFICES ASSUME KicksOK, [Next]_vars PROVE KicksOK'
  OBVIOUS
<1>1. CASE AskVlans \/ AskPort
  BY <1>1, KicksAssumption DEF KicksOK, AskVlans, AskPort, Ask
<1>2. CASE Kick \/ Edit
  BY <1>2, KicksAssumption DEF KicksOK, Kick, Edit
<1>3. CASE UNCHANGED others
  BY <1>3 DEF KicksOK, others
<1> QED
  BY <1>1, <1>2, <1>3 DEF Next, Step, Fetch, Relogin, Refetch, NextVlan, PostForm, SetPortEnabled,
                          Unreachable, vars

LEMMA CallStep == CallOK /\ [Next]_vars => CallOK'
<1> SUFFICES ASSUME CallOK, [Next]_vars PROVE CallOK'
  OBVIOUS
<1> USE VidsAssumption DEF CallOK, Results, Settings, Possible
<1>1. CASE AskVlans
  BY <1>1 DEF AskVlans, Ask, switch
<1>2. CASE AskPort
  BY <1>2 DEF AskPort, Ask, switch
<1>3. CASE Fetch
  BY <1>3 DEF Fetch, Loaded, Return, Missing, AfterLoginPage, call, switch
<1>4. CASE Relogin
  BY <1>4 DEF Relogin, call, switch
<1>5. CASE Refetch
  BY <1>5 DEF Refetch, Loaded, Return, Missing, call, switch
<1>6. CASE NextVlan
  BY <1>6 DEF NextVlan, Return, InRange, FormStart, switch
<1>7. CASE PostForm
  BY <1>7 DEF PostForm, TakeForm
<1>8. CASE SetPortEnabled
  BY <1>8 DEF SetPortEnabled, Ported, Return
<1>9. CASE Unreachable
  <2>1. /\ pc' = "idle" /\ result' = "unreachable" /\ todo' = {}
        /\ UNCHANGED <<page, on, off, vid, session, dot1q>>
    BY <1>9 DEF Unreachable, Return
  <2>2. \/ holds' = holds
        \/ pc = "post" /\ holds' = holds \cup {vid}
        \/ pc = "nsdp" /\ holds' = (holds \ off) \cup on
    BY <1>9 DEF Unreachable, TakeForm, Ported
  <2>3. holds' \subseteq Possible
    BY <2>2
  <2> QED
    BY <2>1, <2>3
<1>10. CASE Kick \/ Edit
  BY <1>10 DEF Kick, Edit, call, switch
<1>11. CASE UNCHANGED vars
  BY <1>11 DEF vars, call, switch
<1> QED
  BY <1>1, <1>2, <1>3, <1>4, <1>5, <1>6, <1>7, <1>8, <1>9, <1>10, <1>11 DEF Next, Step

LEMMA InitTyped == Init => KicksOK /\ FlagOK /\ CallOK
<1> SUFFICES ASSUME Init PROVE KicksOK /\ FlagOK /\ CallOK
  OBVIOUS
<1>1. KicksOK
  BY KicksAssumption DEF Init, KicksOK
<1>2. FlagOK
  BY Zenon DEF Init, FlagOK
<1>3. CallOK
  <2>1. pc = "idle" /\ result = "none" /\ page = "state" /\ session = TRUE /\ dot1q \in BOOLEAN
    BY Zenon DEF Init
  <2>2. on = {} /\ off = {} /\ todo = {} /\ vid \in Vids /\ holds \subseteq Possible
    BY DEF Init
  <2> QED
    BY <2>1, <2>2 DEF CallOK, Results
<1> QED
  BY <1>1, <1>2, <1>3

\* Type correctness, whatever the switch and the network do.
THEOREM TypeCorrect == Spec => []TypeOK
<1>1. Init => KicksOK /\ FlagOK /\ CallOK
  BY InitTyped
<1>2. KicksOK /\ FlagOK /\ CallOK /\ [Next]_vars => KicksOK' /\ FlagOK' /\ CallOK'
  BY KicksStep, FlagStep, CallStep
<1> QED
  BY <1>1, <1>2, TypeParts, PTL DEF Spec

\* An undisturbed call has the session from its first page on, ticks off only
\* what exists, and ends accordingly.
LEMMA UndisturbedStep ==
  ASSUME KicksOK, CallOK, [Next]_vars, Undisturbed => UnderwayInv /\ RefetchInv /\ ResultInv
  PROVE  (Undisturbed => UnderwayInv /\ RefetchInv /\ ResultInv)'
<1> USE DEF Undisturbed, UnderwayInv, RefetchInv, ResultInv, Underway
<1>1. CASE AskVlans \/ AskPort
  BY <1>1 DEF AskVlans, AskPort, Ask
<1>2. CASE Fetch
  BY <1>2 DEF Fetch, Loaded, Return, Missing, AfterLoginPage, call, switch, others, CallOK
<1>3. CASE Relogin
  BY <1>3 DEF Relogin, call, switch, others
<1>4. CASE Refetch
  BY <1>4 DEF Refetch, Loaded, Return, Missing, call, switch, others, CallOK
<1>5. CASE NextVlan
  BY <1>5 DEF NextVlan, Return, FormStart, switch, others, CallOK
<1>6. CASE PostForm
  BY <1>6 DEF PostForm, TakeForm, others
<1>7. CASE SetPortEnabled
  BY <1>7 DEF SetPortEnabled, Ported, Return, others, CallOK
<1>8. CASE Unreachable
  BY <1>8 DEF Unreachable, Return, others
<1>9. CASE Kick \/ Edit
  BY <1>9, KicksAssumption DEF Kick, Edit, KicksOK
<1>10. CASE UNCHANGED vars
  BY <1>10 DEF vars, call, switch, others
<1> QED
  BY <1>1, <1>2, <1>3, <1>4, <1>5, <1>6, <1>7, <1>8, <1>9, <1>10 DEF Next, Step

\* The inductive invariant.
IInv == KicksOK /\ CallOK /\ (Undisturbed => UnderwayInv /\ RefetchInv /\ ResultInv)

LEMMA Invariance == Spec => []IInv
<1>1. Init => IInv
  BY InitTyped
  DEF Init, IInv, Undisturbed, UnderwayInv, RefetchInv, ResultInv, Underway
<1>2. IInv /\ [Next]_vars => IInv'
  BY KicksStep, CallStep, UndisturbedStep DEF IInv
<1> QED
  BY <1>1, <1>2, PTL DEF Spec

\* A session that was lost before a call began never fails the call.
THEOREM Masked == Spec => []LossIsMasked
<1>1. IInv => LossIsMasked
  BY DEF IInv, LossIsMasked, KicksOK, Undisturbed, ResultInv
<1> QED
  BY <1>1, Invariance, PTL

\* A call that returned normally, and that nobody took the session from or
\* changed the switch under, left everything as it asked.
THEOREM Reliable ==
  Spec => [](pc = "idle" /\ result = "ok" /\ kicks = before => Contract!Achieved)
<1>1. IInv => (pc = "idle" /\ result = "ok" /\ kicks = before => Contract!Achieved)
  BY DEF IInv, Undisturbed, ResultInv, Contract!Achieved
<1> QED
  BY <1>1, Invariance, PTL

\* The VLANs ticked off that do not exist, and the one a form under way is about
\* to lose.
Lost == (on \ todo) \ holds
Owed == IF pc = "post" /\ ~session THEN 1 ELSE 0

\* Each of them was paid for with a kick: a form starts with a page that took
\* the session, and another is posted only after another page.
LossInv ==
  ~edited =>
    /\ Underway => dot1q /\ Cardinality(Lost) + Owed <= kicks - before
    /\ pc = "idle" /\ result = "ok" =>
         IsFiniteSet(on \ holds) /\ Cardinality(on \ holds) <= kicks - before

LEMMA LostIsFinite ==
  ASSUME CallOK, pc # "nsdp", pc # "idle"
  PROVE  IsFiniteSet(Lost) /\ Cardinality(Lost) \in Nat
<1>1. IsFiniteSet(Vids) /\ Lost \subseteq Vids
  BY VidsAssumption DEF CallOK, Lost
<1> QED
  BY <1>1, FS_Subset, FS_CardinalityType

\* The page that ensure_vlans reads first leaves nothing lost, and a form's page
\* nothing owed.
LEMMA LoadedStep ==
  ASSUME KicksOK, CallOK, LossInv, pc \in {"fetch", "refetch"}, session, Loaded,
         UNCHANGED <<session, switch, others>>
  PROVE  LossInv'
<1> USE DEF LossInv, Underway, KicksOK, CallOK, switch, others, call
<1>1. CASE page = "form"
  BY <1>1 DEF Loaded, Lost, Owed
<1>2. CASE page = "state"
  <2>1. CASE on = {}
    BY <1>2, <2>1, FS_EmptySet DEF Loaded, Return
  <2>2. CASE on # {} /\ ~dot1q
    BY <1>2, <2>2 DEF Loaded, Return
  <2>3. CASE on # {} /\ dot1q
    <3>1. pc' = "next" /\ todo' = on \ holds /\ UNCHANGED <<page, on, off, vid, result>>
      BY <1>2, <2>3 DEF Loaded, Missing
    <3>2. Lost' = {}
      BY <3>1 DEF Lost
    <3> QED
      BY <2>3, <3>1, <3>2, FS_EmptySet DEF Owed
  <2> QED
    BY <2>1, <2>2, <2>3
<1> QED
  BY <1>1, <1>2

LEMMA LossStep == KicksOK /\ CallOK /\ LossInv /\ [Next]_vars => LossInv'
<1> SUFFICES ASSUME KicksOK, CallOK, LossInv, [Next]_vars PROVE LossInv'
  OBVIOUS
<1> USE DEF LossInv, Underway, KicksOK, CallOK, switch, others, call
<1>1. CASE AskVlans \/ AskPort
  BY <1>1 DEF AskVlans, AskPort, Ask
<1>2. CASE Fetch
  <2>1. CASE session
    BY <1>2, <2>1, LoadedStep DEF Fetch
  <2>2. CASE ~session
    BY <1>2, <2>2 DEF Fetch, AfterLoginPage, Lost, Owed
  <2> QED
    BY <2>1, <2>2
<1>3. CASE Relogin
  BY <1>3 DEF Relogin, Lost, Owed
<1>4. CASE Refetch
  <2>1. CASE session
    BY <1>4, <2>1, LoadedStep DEF Refetch
  <2>2. CASE ~session
    BY <1>4, <2>2 DEF Refetch, Return
  <2> QED
    BY <2>1, <2>2
<1>5. CASE NextVlan
  <2>1. CASE todo = {} /\ Return("ok")
    <3>1. Lost = on \ holds /\ IsFiniteSet(Lost) /\ Cardinality(Lost) \in Nat
      BY <1>5, <2>1, LostIsFinite DEF NextVlan, Lost
    <3>2. on' \ holds' = on \ holds /\ pc' = "idle"
      BY <1>5, <2>1 DEF NextVlan, Return
    <3>3. ~edited => Cardinality(on \ holds) <= kicks - before
      <4>1. pc = "next" /\ Owed = 0
        BY <1>5 DEF NextVlan, Owed
      <4> QED
        BY <3>1, <4>1
    <3>4. UNCHANGED <<kicks, before, edited>>
      BY <1>5 DEF NextVlan
    <3>5. Cardinality(on' \ holds') = Cardinality(on \ holds) /\ IsFiniteSet(on' \ holds')
      BY <3>1, <3>2
    <3> QED
      BY <3>2, <3>3, <3>4, <3>5
  <2>2. CASE Return("invalid")
    BY <1>5, <2>2 DEF NextVlan, Return
  <2>3. CASE pc' = FormStart /\ page' = "form" /\ UNCHANGED <<on, off, todo, result>>
    BY <1>5, <2>3 DEF NextVlan, FormStart, Lost, Owed
  <2> QED
    BY <1>5, <2>1, <2>2, <2>3 DEF NextVlan
<1>6. CASE PostForm
  <2>1. /\ pc = "post" /\ pc' = "next" /\ todo' = todo \ {vid}
        /\ UNCHANGED <<page, on, off, vid, result, session, dot1q, kicks, before, edited>>
    BY <1>6 DEF PostForm
  <2>2. IsFiniteSet(Lost) /\ Cardinality(Lost) \in Nat
    BY <2>1, LostIsFinite
  <2>3. CASE holds' = holds \cup {vid}
    <3>1. Lost' \subseteq Lost
      BY <2>1, <2>3 DEF Lost
    <3>2. Cardinality(Lost') <= Cardinality(Lost) /\ Cardinality(Lost') \in Nat
      BY <2>2, <3>1, FS_Subset, FS_CardinalityType
    <3> QED
      BY <2>1, <2>2, <3>2 DEF Owed
  <2>4. CASE holds' = holds /\ ~(session /\ dot1q)
    <3>1. Lost' \subseteq Lost \cup {vid}
      BY <2>1, <2>4 DEF Lost
    <3>2. /\ IsFiniteSet(Lost \cup {vid})
          /\ Cardinality(Lost \cup {vid}) \in Nat
          /\ Cardinality(Lost \cup {vid}) <= Cardinality(Lost) + 1
      <4>1. /\ IsFiniteSet(Lost \cup {vid})
            /\ Cardinality(Lost \cup {vid}) = IF vid \in Lost THEN Cardinality(Lost)
                                                              ELSE Cardinality(Lost) + 1
        BY <2>2, FS_AddElement
      <4> QED
        BY <2>2, <4>1
    <3>3. Cardinality(Lost') <= Cardinality(Lost) + 1 /\ Cardinality(Lost') \in Nat
      <4>1. IsFiniteSet(Lost') /\ Cardinality(Lost') <= Cardinality(Lost \cup {vid})
        BY <3>1, <3>2, FS_Subset
      <4> QED
        BY <2>2, <3>2, <4>1, FS_CardinalityType
    <3>4. ~edited => Owed = 1
      BY <2>1, <2>4 DEF Owed
    <3> QED
      BY <2>1, <2>2, <3>3, <3>4 DEF Owed
  <2> QED
    BY <1>6, <2>3, <2>4 DEF PostForm, TakeForm
<1>7. CASE SetPortEnabled
  <2>1. on' \ holds' = {} /\ pc' = "idle" /\ UNCHANGED <<kicks, before>>
    BY <1>7 DEF SetPortEnabled, Ported, Return
  <2>2. IsFiniteSet(on' \ holds') /\ Cardinality(on' \ holds') = 0
    BY <2>1, FS_EmptySet
  <2>3. 0 <= kicks - before
    BY KicksAssumption
  <2> QED
    BY <2>1, <2>2, <2>3
<1>8. CASE Unreachable
  BY <1>8 DEF Unreachable, Return
<1>9. CASE Kick
  <2>1. /\ UNCHANGED <<pc, page, on, off, todo, vid, result, holds, dot1q, before, edited>>
        /\ session /\ ~session' /\ kicks' = kicks + 1
    BY <1>9 DEF Kick
  <2>2. Lost' = Lost
    BY <2>1 DEF Lost
  <2>3. Owed' <= Owed + 1 /\ Owed \in Nat /\ Owed' \in Nat
    BY <2>1 DEF Owed
  <2>4. Underway => Cardinality(Lost) \in Nat
    BY LostIsFinite
  <2>5. IsFiniteSet(on \ holds) => Cardinality(on \ holds) \in Nat
    BY FS_CardinalityType
  <2>6. on' \ holds' = on \ holds /\ Cardinality(on' \ holds') = Cardinality(on \ holds)
    BY <2>1
  <2>7. kicks \in Nat /\ before \in Nat
    BY KicksAssumption
  <2>8. CASE Underway
    BY <2>1, <2>2, <2>3, <2>4, <2>7, <2>8
  <2>9. CASE pc = "idle"
    BY <2>1, <2>5, <2>6, <2>7, <2>9
  <2>10. CASE ~Underway /\ pc # "idle"
    BY <2>1, <2>10
  <2> QED
    BY <2>8, <2>9, <2>10
<1>10. CASE Edit
  BY <1>10 DEF Edit
<1>11. CASE UNCHANGED vars
  BY <1>11 DEF vars, Lost, Owed
<1> QED
  BY <1>1, <1>2, <1>3, <1>4, <1>5, <1>6, <1>7, <1>8, <1>9, <1>10, <1>11 DEF Next, Step

\* A call costs at most one VLAN for every session it lost.
THEOREM Paid == Spec => []LossNeedsKick
<1>1. Init => LossInv
  BY DEF Init, LossInv, Underway
<1>2. LossInv => LossNeedsKick
  BY DEF LossInv, LossNeedsKick
<1> QED
  BY <1>1, <1>2, Invariance, LossStep, PTL DEF Spec, IInv

\* A step of the bridge changes only what its call is about.
LEMMA Touches ==
  ASSUME CallOK, Step \/ Unreachable
  PROVE  holds' = holds \/ (/\ pc # "idle" /\ UNCHANGED <<on, off>>
                           /\ holds \ off \subseteq holds' /\ holds' \subseteq holds \cup on)
<1>1. CASE PostForm \/ (pc = "post" /\ TakeForm /\ Unreachable)
  BY <1>1 DEF PostForm, Unreachable, Return, TakeForm, CallOK
<1>2. CASE SetPortEnabled \/ (pc = "nsdp" /\ holds' = Ported /\ Unreachable)
  BY <1>2 DEF SetPortEnabled, Unreachable, Return, Ported
<1> QED
  BY <1>1, <1>2 DEF Step, AskVlans, AskPort, Ask, Fetch, Relogin, Refetch, NextVlan, Unreachable,
                    switch

\* The Netgear adapter implements the abstract switch as far as nobody takes
\* the session during a call: it touches nothing but what it was asked for, and
\* an undisturbed call returns normally only when everything is as asked.
THEOREM Refinement == Spec => KeepsContract
<1> DEFINE ok == pc = "idle" /\ result = "ok" /\ kicks = before
<1>1. Init => Contract!Init
  BY DEF Init, Contract!Init, Possible, Settings
<1>2. IInv /\ IInv' /\ [Next]_vars => [Contract!Next]_(Contract!vars)
  <2> SUFFICES ASSUME IInv, IInv', [Next]_vars
               PROVE  Contract!Next \/ UNCHANGED Contract!vars
    OBVIOUS
  <2>1. /\ ok' \in BOOLEAN /\ (ok' => on' \subseteq holds' /\ off' \cap holds' = {})
        /\ on' \in SUBSET Settings /\ off' \in SUBSET Settings
    BY DEF IInv, CallOK, Undisturbed, ResultInv, Settings
  <2>2. CASE Step \/ Unreachable
    <3>1. kicks' = kicks
      BY <2>2 DEF Step, AskVlans, AskPort, Ask, Fetch, Relogin, Refetch, NextVlan, PostForm,
                  SetPortEnabled, Unreachable, others
    <3>2. CASE holds' = holds
      BY <2>1, <3>1, <3>2 DEF Contract!Next, Contract!Call, Contract!Return, Contract!Achieved
    <3>3. CASE holds' # holds
      BY <2>1, <2>2, <3>1, <3>3, Touches
      DEF IInv, Contract!Next, Contract!Work, Contract!Return, Contract!Achieved
    <3> QED
      BY <3>2, <3>3
  <2>3. CASE Kick
    <3>1. /\ holds' = holds /\ on' = on /\ off' = off
          /\ kicks' = kicks + 1 /\ before' = before /\ before <= kicks
          /\ kicks \in Nat /\ before \in Nat
      BY <2>3, KicksAssumption DEF Kick, call, switch, IInv, KicksOK
    <3>2. ok' = FALSE
      BY <3>1
    <3>3. holds' \in SUBSET Settings
      BY <3>1 DEF IInv, CallOK, Possible
    <3> QED
      BY <3>1, <3>2, <3>3 DEF Contract!Next, Contract!Others
  <2>4. CASE Edit
    <3>1. /\ holds' \in SUBSET Settings /\ on' = on /\ off' = off
          /\ kicks' = kicks + 1 /\ before' = before /\ before <= kicks
          /\ kicks \in Nat /\ before \in Nat
      BY <2>4, KicksAssumption DEF Edit, call, IInv, KicksOK, Possible
    <3>2. ok' = FALSE
      BY <3>1
    <3> QED
      BY <3>1, <3>2 DEF Contract!Next, Contract!Others
  <2>5. CASE UNCHANGED vars
    BY <2>5 DEF vars, call, switch, others, Contract!vars
  <2> QED
    BY <2>2, <2>3, <2>4, <2>5 DEF Next
<1> QED
  BY <1>1, <1>2, Invariance, PTL DEF Spec, KeepsContract, Contract!Spec
=============================================================================
