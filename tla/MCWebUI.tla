------------------------------- MODULE MCWebUI -------------------------------
(* The constants of the model-checking runs of WebUI. *)
EXTENDS WebUI

\* The container may come up with or without a configuration in .env, and
\* with another one after every restart.
AnyEnvironment == Configs \cup {NoFile}
=============================================================================
