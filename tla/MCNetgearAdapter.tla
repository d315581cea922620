-------------------------- MODULE MCNetgearAdapter --------------------------
(* The constants of the model-checking runs of NetgearAdapter. *)
EXTENDS NetgearAdapter

CONSTANTS v10, v20, v0

SomeVids == {v10, v20, v0}
OneBad   == {v0}
TwoGood  == {v10, v20}
NoneBad  == {}
=============================================================================
