------------------------------ MODULE MCBridge ------------------------------
(* The constants of the model-checking runs of Bridge. *)
EXTENDS Bridge

CONSTANTS k1, k2, k3

TwoKeys   == {k1, k2}
ThreeKeys == {k1, k2, k3}
=============================================================================
