--------------------------- MODULE Adoption_proofs ---------------------------
(* What the abstract key exchange guarantees, for every set of keys.  Together *)
(* with Refinement of Bridge_proofs this is what save_state and load_state are *)
(* for: they never hand the device a dead key or an outdated version.          *)
EXTENDS Adoption, TLAPS

\* The invariant of both: what the bridge would come back with is known to the
\* controller.
IInv == goal \in Nat /\ version \in Nat /\ CredentialIsKnown /\ VersionIsKnown

LEMMA InitIInv == Init => IInv
  BY DEF Init, IInv, CredentialIsKnown, VersionIsKnown

LEMMA Inductive == IInv /\ [Next]_vars => IInv'
<1> SUFFICES ASSUME IInv, [Next]_vars PROVE IInv'
  OBVIOUS
<1> USE DEF IInv, CredentialIsKnown, VersionIsKnown, bridge, keyring
<1>1. CASE Issue
  BY <1>1 DEF Issue
<1>2. CASE Edit
  BY <1>2 DEF Edit
<1>3. CASE Learn
  BY <1>3 DEF Learn
<1>4. CASE Confirm
  BY <1>4 DEF Confirm
<1>5. CASE Forget
  BY <1>5 DEF Forget
<1>6. CASE Lose
  BY <1>6 DEF Lose
<1>7. CASE UNCHANGED vars
  BY <1>7 DEF vars
<1> QED
  BY <1>1, <1>2, <1>3, <1>4, <1>5, <1>6, <1>7 DEF Next

\* The credential is never one that the rotation of keys retired.
THEOREM Known == Spec => []CredentialIsKnown
<1>1. IInv => CredentialIsKnown
  BY DEF IInv
<1> QED
  BY <1>1, InitIInv, Inductive, PTL DEF Spec

\* The version is never one the controller has not asked for yet.
THEOREM NotAhead == Spec => []VersionIsKnown
<1>1. IInv => VersionIsKnown
  BY DEF IInv
<1> QED
  BY <1>1, InitIInv, Inductive, PTL DEF Spec

\* Whatever the bridge still has a key for, it has no older version of.
THEOREM Forward == Spec => VersionOnlyGrows
<1>1. IInv /\ [Next]_vars => [credential' # NoKey => version <= version']_vars
  <2> SUFFICES ASSUME IInv, Next, credential' # NoKey PROVE version <= version'
    OBVIOUS
  <2>1. CASE Learn
    BY <2>1 DEF Learn, IInv, VersionIsKnown
  <2>2. CASE Lose
    BY <2>2 DEF Lose
  <2>3. CASE Issue \/ Edit \/ Confirm \/ Forget
    BY <2>3 DEF Issue, Edit, Confirm, Forget, bridge, IInv
  <2> QED
    BY <2>1, <2>2, <2>3 DEF Next
<1> QED
  BY <1>1, InitIInv, Inductive, PTL DEF Spec, VersionOnlyGrows
=============================================================================
