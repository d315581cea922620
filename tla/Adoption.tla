------------------------------ MODULE Adoption ------------------------------
(***************************************************************************)
(* What the bridge and the controller promise each other about the device  *)
(* key and the config version, without processes, files or messages: the   *)
(* key the bridge would resume with after a restart is never one that the  *)
(* controller retired behind its back, and the version never goes back.    *)
(* Bridge.tla is shown to implement this module.                           *)
(***************************************************************************)
EXTENDS Naturals

CONSTANTS Keys,   \* the device keys the controller can issue
          NoKey   \* the bridge holds no key

VARIABLES credential,  \* the key the bridge would resume with
          version,     \* and the config version; 0 for none
  accepted,    \* the keys the controller takes informs under
          offer,       \* the key the controller wants the bridge to use
          issued,      \* every key ever issued: keys are random, never reused
          revoked,     \* the keys a human took away by forgetting the device
  goal         \* the newest version of the configuration

bridge == <<credential, version>>
keyring == <<accepted, offer, issued, revoked>>
vars == <<bridge, keyring, goal>>

Init ==
  /\ credential = NoKey /\ version = 0
  /\ goal = 1
  /\ accepted = {}
  /\ offer = NoKey
  /\ issued = {}
  /\ revoked = {}

\* The controller issues a new key: at adoption, or to rotate the one in use.
Issue ==
  \E k \in Keys \ issued :
    /\ offer' = k
    /\ accepted' = accepted \cup {k}
    /\ issued' = issued \cup {k}
    /\ UNCHANGED <<bridge, revoked, goal>>

\* A human edits the configuration.
Edit ==
  /\ goal' = goal + 1
  /\ UNCHANGED <<bridge, keyring>>

\* The bridge takes over a key it was given, or a version, none older than the
\* one it has.
Learn ==
  /\ credential' \in accepted \cup revoked
  /\ version' \in version..goal
  /\ UNCHANGED <<keyring, goal>>

\* The controller hears the offered key and retires the others, which is
\* harmless only when the bridge would not resume with one of those.
Confirm ==
  /\ offer # NoKey
  /\ credential \in {offer, NoKey}
  /\ accepted' = {offer}
  /\ UNCHANGED <<bridge, offer, issued, revoked, goal>>

\* A human forgets the device in the controller.
Forget ==
  /\ revoked' = revoked \cup accepted
  /\ accepted' = {}
  /\ offer' = NoKey
  /\ UNCHANGED <<bridge, issued, goal>>

\* A crash in the middle of a save leaves the bridge without key and version.
Lose ==
  /\ credential' = NoKey /\ version' = 0
  /\ UNCHANGED <<keyring, goal>>

Next == Issue \/ Edit \/ Learn \/ Confirm \/ Forget \/ Lose

Spec == Init /\ [][Next]_vars

\* The key the bridge would resume with is taken by the controller, or a
\* human revoked it: it is never retired by the key rotation itself.
CredentialIsKnown == credential \in accepted \cup revoked \cup {NoKey}

\* The bridge never comes back with an older version than it had, or with one
\* the controller never asked for.
VersionIsKnown  == version \in 0..goal
VersionOnlyGrows == [][credential' # NoKey => version <= version']_vars
=============================================================================
