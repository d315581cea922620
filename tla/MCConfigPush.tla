----------------------------- MODULE MCConfigPush -----------------------------
(* The runs of ConfigPush: every other configuration, one of those that differ *)
(* by the names of the ports only.  With two ports, any two of them differ in *)
(* two settings at least, and each setting in some.                           *)
EXTENDS ConfigPush

APort == CHOOSE p \in Ports : TRUE

MCPlans == {c \in Configurations :
              /\ c.vlans = {} <=> \A p, q \in Ports : c.ports[p] = c.ports[q]
              /\ c.vlans # {} => c.ports[APort]}
=============================================================================
