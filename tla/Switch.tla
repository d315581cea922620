-------------------------------- MODULE Switch --------------------------------
(***************************************************************************)
(* What switch_adapter.py promises, whichever switch is behind it.          *)
(*                                                                         *)
(* A setting of a switch holds or does not: a VLAN exists, a port is         *)
(* enabled, a port is a member of a VLAN.  A call brings some settings about *)
(* and undoes others: ensure_vlans(V) brings V about, set_port_enabled(p)    *)
(* brings p about or undoes it.  However far it gets it touches no other     *)
(* setting, and it returns normally only when everything is as asked.       *)
(***************************************************************************)
EXTENDS Naturals

CONSTANT Settings

VARIABLES
  holds,    \* the settings that hold
  on, off,  \* what the last call is to bring about, and to undo
  ensured,  \* has it returned normally, and nobody else logged in since?
  others    \* how often somebody else logged into the switch

vars == <<holds, on, off, ensured, others>>

Achieved == on \subseteq holds /\ off \cap holds = {}

Init == holds \in SUBSET Settings /\ on = {} /\ off = {} /\ ensured = FALSE /\ others = 0

Return == ensured' \in BOOLEAN /\ (ensured' => Achieved')

\* A call begins; one that finds everything as asked may return at once.  A
\* failed call is one that may be made again.
Call ==
  /\ on' \in SUBSET Settings /\ off' \in SUBSET Settings
  /\ UNCHANGED <<holds, others>>
  /\ Return

\* The call in progress does some of what it is for; perhaps that is all.
Work ==
  /\ ~ensured
  /\ holds \ off \subseteq holds' /\ holds' \subseteq holds \cup on
  /\ UNCHANGED <<on, off, others>>
  /\ Return

\* Somebody else logs in, and may leave the switch as they like.
Others ==
  /\ holds' \in SUBSET Settings
  /\ ensured' = FALSE
  /\ others' = others + 1
  /\ UNCHANGED <<on, off>>

Next == Call \/ Work \/ Others

Spec == Init /\ [][Next]_vars
=============================================================================
