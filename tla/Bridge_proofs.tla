---------------------------- MODULE Bridge_proofs ----------------------------
(* Proofs about Bridge, for every set of keys, every bound and either value *)
(* of the flags. *)
EXTENDS Bridge, TLAPS

USE KeysAssumption, VersionAssumption

\* The records that stand for "nothing" are values of their types.
LEMMA Constants ==
  /\ Blank \in Entries /\ Blank.authkey = NoKey /\ Blank.cfgversion = 0
  /\ Hello \in Requests /\ Hello.key = DefaultKey /\ Hello.ver = 0
  BY DEF Blank, Entries, Hello, Requests, Versions

\* The initial state satisfies the inductive invariant.
LEMMA InitIInv == Init => IInv
  <1> SUFFICES ASSUME Init PROVE IInv
    OBVIOUS
  <1> USE Constants DEF Init, AdoptedPcs, SavingPcs, PostPcs
  <1>1. TypeOK
    <2>1. goal \in Versions /\ cfgversion \in Versions
      BY DEF Versions
    <2> QED
      BY <2>1 DEF TypeOK
  <1>2. HeldKeys = {NoKey}
    BY DEF HeldKeys
  <1>3. LoopAgrees /\ DictAgrees /\ SaveWindow /\ AnswerHeld /\ PostIsReport
    BY DEF LoopAgrees, DictAgrees, SaveWindow, AnswerHeld, PostIsReport
  <1>4. OffersIssued /\ OfferSettled /\ NeverStranded
    BY <1>2 DEF OffersIssued, OfferSettled, NeverStranded
  <1> QED
    BY <1>1, <1>3, <1>4 DEF IInv

\* Every step keeps the variables in their types; in particular the thread is
\* in the adopted loop, or about to save, only with a key.
LEMMA TypeStep == TypeOK /\ [Next]_vars => TypeOK'
  <1> SUFFICES ASSUME TypeOK, [Next]_vars PROVE TypeOK'
    OBVIOUS
  <1> USE Constants DEF file, TypeOK, Entries, Requests, Versions, AdoptedPcs, SavingPcs, PostPcs
  <1>1. CASE Start \/ Visit
    BY <1>1 DEF Start, Visit, Run, FirstStep, SavedVersion, call, controller, keyring
  <1>2. CASE SendHello
    BY <1>2 DEF SendHello, controller, keyring
  <1>3. CASE SendReport
    BY <1>3 DEF SendReport, Report, controller, keyring
  <1>4. CASE GiveUp
    BY <1>4 DEF GiveUp, LoopTop, EndCall, controller, keyring
  <1>5. CASE Ignore
    BY <1>5 DEF Ignore, LoopTop, EndCall, controller, keyring
  <1>6. CASE Adopt
    BY <1>6 DEF Adopt, EndCall, controller, keyring
  <1>7. CASE Push
    BY <1>7 DEF Push, controller, keyring
  <1>8. CASE TakeVersion
    BY <1>8 DEF TakeVersion, call, controller, keyring
  <1>9. CASE TakeKey
    BY <1>9 DEF TakeKey, Remember, EndCall, controller, keyring
  <1>10. CASE OpenFile
    BY <1>10 DEF OpenFile, call, controller, keyring
  <1>11. CASE WriteFile
    BY <1>11 DEF WriteFile, call, controller, keyring
  <1>12. CASE Stop \/ Fails
    BY <1>12 DEF Stop, Fails, Over, EndCall, controller, keyring
  <1>13. CASE Serve
    BY <1>13 DEF Serve, Hear, Replies, bridge
  <1>14. CASE ServeStale
    BY <1>14 DEF ServeStale, Hear, bridge, call
  <1>15. CASE LoseStale
    BY <1>15 DEF LoseStale, bridge, call, controller, keyring
  <1>16. CASE EditConfig
    BY <1>16 DEF EditConfig, bridge, call, keyring
  <1>17. CASE ClickAdopt
    BY <1>17 DEF ClickAdopt, IssueKey, bridge, call
  <1>18. CASE RotateKey
    BY <1>18 DEF RotateKey, IssueKey, bridge, call
  <1>19. CASE Forget
    BY <1>19 DEF Forget, bridge, call
  <1>20. CASE UNCHANGED vars
    BY <1>20 DEF vars, bridge, call, controller, keyring
  <1> QED
    BY <1>1, <1>2, <1>3, <1>4, <1>5, <1>6, <1>7, <1>8, <1>9, <1>10, <1>11, <1>12,
       <1>13, <1>14, <1>15, <1>16, <1>17, <1>18, <1>19, <1>20 DEF Next

\* Type correctness of bridge and controller.
THEOREM TypeCorrect == Spec => []TypeOK
  <1>1. Init => TypeOK
    BY InitIInv DEF IInv
  <1> QED
    BY <1>1, TypeStep, PTL DEF Spec

-----------------------------------------------------------------------------
(* The inductive invariant. *)

\* The steps of the bridge.
LEMMA BridgeStep ==
  ASSUME IInv, TypeOK',
         \/ Start \/ Visit \/ SendHello \/ SendReport \/ GiveUp \/ Ignore
         \/ Adopt \/ Push \/ TakeVersion \/ TakeKey \/ OpenFile \/ WriteFile
         \/ Stop \/ Fails
  PROVE  IInv'
  <1> USE Constants DEF file, IInv, TypeOK, Entries, Requests, AdoptedPcs, SavingPcs, PostPcs,
          LoopAgrees, DictAgrees, SaveWindow, AnswerHeld, PostIsReport,
          OffersIssued, OfferSettled, NeverStranded, HeldKeys
  <1>1. CASE Start \/ Visit
    BY <1>1 DEF Start, Visit, Run, FirstStep, SavedVersion, call, controller, keyring
  <1>2. CASE SendHello
    BY <1>2 DEF SendHello, controller, keyring
  <1>3. CASE SendReport
    BY <1>3 DEF SendReport, Report, controller, keyring
  <1>4. CASE GiveUp
    BY <1>4 DEF GiveUp, LoopTop, EndCall, controller, keyring
  <1>5. CASE Ignore
    BY <1>5 DEF Ignore, LoopTop, EndCall, controller, keyring
  <1>6. CASE Adopt
    BY <1>6 DEF Adopt, EndCall, controller, keyring
  <1>7. CASE Push
    BY <1>7 DEF Push, controller, keyring
  <1>8. CASE TakeVersion
    BY <1>8 DEF TakeVersion, call, controller, keyring
  <1>9. CASE TakeKey
    BY <1>9 DEF TakeKey, Remember, EndCall, controller, keyring
  <1>10. CASE OpenFile
    BY <1>10 DEF OpenFile, call, controller, keyring
  <1>11. CASE WriteFile
    BY <1>11 DEF WriteFile, call, controller, keyring
  <1>12. CASE Stop \/ Fails
    BY <1>12 DEF Stop, Fails, Over, EndCall, controller, keyring
  <1> QED
    BY <1>1, <1>2, <1>3, <1>4, <1>5, <1>6, <1>7, <1>8, <1>9, <1>10, <1>11, <1>12

\* The steps of the controller and of the network.
LEMMA ControllerStep ==
  ASSUME IInv, TypeOK',
         \/ Serve \/ ServeStale \/ LoseStale
         \/ EditConfig \/ ClickAdopt \/ RotateKey \/ Forget
  PROVE  IInv'
  <1> USE Constants DEF file, IInv, TypeOK, Entries, Requests, AdoptedPcs, SavingPcs, PostPcs,
          LoopAgrees, DictAgrees, SaveWindow, AnswerHeld, PostIsReport,
          OffersIssued, OfferSettled, NeverStranded, HeldKeys
  <1>1. CASE Serve
    BY <1>1 DEF Serve, Hear, Replies, bridge
  <1>2. CASE ServeStale
    BY <1>2 DEF ServeStale, Hear, bridge, call
  <1>3. CASE LoseStale
    BY <1>3 DEF LoseStale, bridge, call, controller, keyring
  <1>4. CASE EditConfig
    BY <1>4 DEF EditConfig, bridge, call, keyring
  <1>5. CASE ClickAdopt
    BY <1>5 DEF ClickAdopt, IssueKey, bridge, call
  <1>6. CASE RotateKey
    BY <1>6 DEF RotateKey, IssueKey, bridge, call
  <1>7. CASE Forget
    BY <1>7 DEF Forget, bridge, call
  <1> QED
    BY <1>1, <1>2, <1>3, <1>4, <1>5, <1>6, <1>7

LEMMA Inductive == IInv /\ [Next]_vars => IInv'
  <1> SUFFICES ASSUME IInv, [Next]_vars PROVE IInv'
    OBVIOUS
  <1>1. TypeOK'
    BY TypeStep DEF IInv
  <1>2. CASE UNCHANGED vars
    BY <1>2 DEF vars, bridge, file, call, controller, keyring, IInv, TypeOK,
       LoopAgrees, DictAgrees, SaveWindow, AnswerHeld, PostIsReport,
       OffersIssued, OfferSettled, NeverStranded, HeldKeys
  <1> QED
    BY <1>1, <1>2, BridgeStep, ControllerStep DEF Next

\* The inductive invariant holds of every execution.
THEOREM Invariance == Spec => []IInv
  BY InitIInv, Inductive, PTL DEF Spec

\* No inform goes out under a key or a version that is not on disk.
THEOREM Durable == Spec => []InformIsDurable
  <1>1. IInv => InformIsDurable
    BY DEF IInv, LoopAgrees, PostIsReport, InformIsDurable, AdoptedPcs
  <1> QED
    BY <1>1, Invariance, PTL

\* The bridge never holds a key that only the rotation took away.
THEOREM Unstranded == Spec => []NeverStranded
  <1>1. IInv => NeverStranded
    BY DEF IInv
  <1> QED
    BY <1>1, Invariance, PTL

-----------------------------------------------------------------------------
(* The version reported under a key never goes backwards. *)

\* No version is newer than the controller's, and an answer is never older than
\* what the bridge had when it asked.
VersionBounds ==
  /\ disk.cfgversion <= goal /\ cfgversion <= goal /\ resp.cfgversion <= goal
  /\ state.cfgversion <= goal
  /\ \A r \in stale \cup {post} : r.ver <= goal
  /\ resp.cfgversion # 0 /\ pc \in {"await", "version"} => cfgversion <= resp.cfgversion

\* An adoption whose key was used in a request is saved, and not answered yet.
AdoptionUsed ==
  phase = "adopting" /\ (\E r \in stale \cup {post} : r.key = offer) =>
    pc \in {"down", "dead", "report", "await"} /\ disk.authkey = offer /\ ~served

\* A key the bridge was just given is in no late request.
NewKeyUnused ==
  resp.authkey # NoKey /\ (pc = "pending" \/ resp.authkey # authkey) =>
    \A r \in stale : r.key # resp.authkey

\* No late request under the saved key, or under the one about to be, is ahead
\* of the version saved with it.
LateIsOlder ==
  /\ \A r \in stale : r.key = disk.authkey => r.ver <= disk.cfgversion
  /\ pc \in AdoptedPcs \cup SavingPcs =>
       \A r \in stale : r.key = state.authkey => r.ver <= state.cfgversion

\* Only a request that is under way is answered, and adoption asks with Hello.
CallShape ==
  /\ served => pc \in PostPcs
  /\ pc = "pending" => post = Hello

\* A save that is about to begin is of no older version; without a key there is
\* no version either, and only then is adoption waited for.
SavesGrow ==
  /\ pc = "open" => disk.cfgversion <= state.cfgversion
  /\ disk.authkey = NoKey => disk.cfgversion = 0
  /\ pc \in {"discover", "pending"} => disk.authkey = NoKey

RegressInv ==
  CallShape /\ VersionBounds /\ AdoptionUsed /\ NewKeyUnused /\ LateIsOlder /\ SavesGrow

LEMMA ShapeStep ==
  ASSUME IInv, RegressInv, [Next]_vars PROVE CallShape'
  <1> USE Constants DEF file, IInv, TypeOK, Entries, Requests, Versions, AdoptedPcs, SavingPcs,
          PostPcs, RegressInv, CallShape
  <1>1. CASE Start \/ Visit
    BY <1>1 DEF Start, Visit, Run, FirstStep, SavedVersion, call, controller, keyring
  <1>2. CASE SendHello
    BY <1>2 DEF SendHello, controller, keyring
  <1>3. CASE SendReport
    BY <1>3 DEF SendReport, Report, controller, keyring
  <1>4. CASE GiveUp
    BY <1>4 DEF GiveUp, LoopTop, EndCall, controller, keyring
  <1>5. CASE Ignore
    BY <1>5 DEF Ignore, LoopTop, EndCall, controller, keyring
  <1>6. CASE Adopt
    BY <1>6 DEF Adopt, EndCall, controller, keyring
  <1>7. CASE Push
    BY <1>7 DEF Push, controller, keyring
  <1>8. CASE TakeVersion
    BY <1>8 DEF TakeVersion, call, controller, keyring
  <1>9. CASE TakeKey
    BY <1>9 DEF TakeKey, Remember, EndCall, controller, keyring
  <1>10. CASE OpenFile
    BY <1>10 DEF OpenFile, call, controller, keyring
  <1>11. CASE WriteFile
    BY <1>11 DEF WriteFile, call, controller, keyring
  <1>12. CASE Stop \/ Fails
    BY <1>12 DEF Stop, Fails, Over, EndCall, controller, keyring
  <1>13. CASE Serve
    BY <1>13 DEF Serve, Hear, Replies, bridge
  <1>14. CASE ServeStale
    BY <1>14 DEF ServeStale, Hear, bridge, call
  <1>15. CASE LoseStale
    BY <1>15 DEF LoseStale, bridge, call, controller, keyring
  <1>16. CASE EditConfig
    BY <1>16 DEF EditConfig, bridge, call, keyring
  <1>17. CASE ClickAdopt
    BY <1>17 DEF ClickAdopt, IssueKey, bridge, call
  <1>18. CASE RotateKey
    BY <1>18 DEF RotateKey, IssueKey, bridge, call
  <1>19. CASE Forget
    BY <1>19 DEF Forget, bridge, call
  <1>20. CASE UNCHANGED vars
    BY <1>20 DEF vars, bridge, call, controller, keyring
  <1> QED
    BY <1>1, <1>2, <1>3, <1>4, <1>5, <1>6, <1>7, <1>8, <1>9, <1>10, <1>11, <1>12,
       <1>13, <1>14, <1>15, <1>16, <1>17, <1>18, <1>19, <1>20 DEF Next

LEMMA BoundsStep ==
  ASSUME IInv, RegressInv, [Next]_vars PROVE VersionBounds'
  <1> USE Constants DEF file, IInv, TypeOK, Entries, Requests, Versions, AdoptedPcs, SavingPcs,
          PostPcs, RegressInv, VersionBounds, AnswerHeld, LoopAgrees, DictAgrees
  <1>1. CASE Start \/ Visit
    BY <1>1 DEF Start, Visit, Run, FirstStep, SavedVersion, call, controller, keyring
  <1>2. CASE SendHello
    BY <1>2 DEF SendHello, controller, keyring
  <1>3. CASE SendReport
    BY <1>3 DEF SendReport, Report, controller, keyring
  <1>4. CASE GiveUp
    BY <1>4 DEF GiveUp, LoopTop, EndCall, controller, keyring
  <1>5. CASE Ignore
    BY <1>5 DEF Ignore, LoopTop, EndCall, controller, keyring
  <1>6. CASE Adopt
    BY <1>6 DEF Adopt, EndCall, controller, keyring
  <1>7. CASE Push
    BY <1>7 DEF Push, controller, keyring
  <1>8. CASE TakeVersion
    BY <1>8 DEF TakeVersion, call, controller, keyring
  <1>9. CASE TakeKey
    BY <1>9 DEF TakeKey, Remember, EndCall, controller, keyring
  <1>10. CASE OpenFile
    BY <1>10 DEF OpenFile, call, controller, keyring
  <1>11. CASE WriteFile
    BY <1>11 DEF WriteFile, call, controller, keyring
  <1>12. CASE Stop \/ Fails
    BY <1>12 DEF Stop, Fails, Over, EndCall, controller, keyring
  <1>13. CASE Serve
    BY <1>13 DEF Serve, Hear, Replies, bridge
  <1>14. CASE ServeStale
    BY <1>14 DEF ServeStale, Hear, bridge, call
  <1>15. CASE LoseStale
    BY <1>15 DEF LoseStale, bridge, call, controller, keyring
  <1>16. CASE EditConfig
    BY <1>16 DEF EditConfig, bridge, call, keyring
  <1>17. CASE ClickAdopt
    BY <1>17 DEF ClickAdopt, IssueKey, bridge, call
  <1>18. CASE RotateKey
    BY <1>18 DEF RotateKey, IssueKey, bridge, call
  <1>19. CASE Forget
    BY <1>19 DEF Forget, bridge, call
  <1>20. CASE UNCHANGED vars
    BY <1>20 DEF vars, bridge, call, controller, keyring
  <1> QED
    BY <1>1, <1>2, <1>3, <1>4, <1>5, <1>6, <1>7, <1>8, <1>9, <1>10, <1>11, <1>12,
       <1>13, <1>14, <1>15, <1>16, <1>17, <1>18, <1>19, <1>20 DEF Next

LEMMA UsedStep ==
  ASSUME IInv, RegressInv, [Next]_vars PROVE AdoptionUsed'
  <1> USE Constants DEF file, IInv, TypeOK, Entries, Requests, Versions, AdoptedPcs, SavingPcs,
          PostPcs, RegressInv, AdoptionUsed, CallShape, AnswerHeld,
          LoopAgrees, PostIsReport, OffersIssued, OfferSettled, HeldKeys
  <1>1. CASE Start \/ Visit
    BY <1>1 DEF Start, Visit, Run, FirstStep, SavedVersion, call, controller, keyring
  <1>2. CASE SendHello
    BY <1>2 DEF SendHello, controller, keyring
  <1>3. CASE SendReport
    BY <1>3 DEF SendReport, Report, controller, keyring
  <1>4. CASE GiveUp
    BY <1>4 DEF GiveUp, LoopTop, EndCall, controller, keyring
  <1>5. CASE Ignore
    BY <1>5 DEF Ignore, LoopTop, EndCall, controller, keyring
  <1>6. CASE Adopt
    BY <1>6 DEF Adopt, EndCall, controller, keyring
  <1>7. CASE Push
    BY <1>7 DEF Push, controller, keyring
  <1>8. CASE TakeVersion
    BY <1>8 DEF TakeVersion, call, controller, keyring
  <1>9. CASE TakeKey
    BY <1>9 DEF TakeKey, Remember, EndCall, controller, keyring
  <1>10. CASE OpenFile
    BY <1>10 DEF OpenFile, call, controller, keyring
  <1>11. CASE WriteFile
    BY <1>11 DEF WriteFile, call, controller, keyring
  <1>12. CASE Stop \/ Fails
    BY <1>12 DEF Stop, Fails, Over, EndCall, controller, keyring
  <1>13. CASE Serve
    BY <1>13 DEF Serve, Hear, Replies, bridge
  <1>14. CASE ServeStale
    BY <1>14 DEF ServeStale, Hear, bridge, call
  <1>15. CASE LoseStale
    BY <1>15 DEF LoseStale, bridge, call, controller, keyring
  <1>16. CASE EditConfig
    BY <1>16 DEF EditConfig, bridge, call, keyring
  <1>17. CASE ClickAdopt
    BY <1>17 DEF ClickAdopt, IssueKey, bridge, call
  <1>18. CASE RotateKey
    BY <1>18 DEF RotateKey, IssueKey, bridge, call
  <1>19. CASE Forget
    BY <1>19 DEF Forget, bridge, call
  <1>20. CASE UNCHANGED vars
    BY <1>20 DEF vars, bridge, call, controller, keyring
  <1> QED
    BY <1>1, <1>2, <1>3, <1>4, <1>5, <1>6, <1>7, <1>8, <1>9, <1>10, <1>11, <1>12,
       <1>13, <1>14, <1>15, <1>16, <1>17, <1>18, <1>19, <1>20 DEF Next

LEMMA UnusedStep ==
  ASSUME IInv, RegressInv, [Next]_vars PROVE NewKeyUnused'
  <1> USE Constants DEF file, IInv, TypeOK, Entries, Requests, Versions, AdoptedPcs, SavingPcs,
          PostPcs, RegressInv, NewKeyUnused, AdoptionUsed, AnswerHeld, LoopAgrees,
          PostIsReport, OfferSettled, HeldKeys, CallShape
  <1>1. CASE Start \/ Visit
    BY <1>1 DEF Start, Visit, Run, FirstStep, SavedVersion, call, controller, keyring
  <1>2. CASE SendHello
    BY <1>2 DEF SendHello, controller, keyring
  <1>3. CASE SendReport
    BY <1>3 DEF SendReport, Report, controller, keyring
  <1>4. CASE GiveUp
    BY <1>4 DEF GiveUp, LoopTop, EndCall, controller, keyring
  <1>5. CASE Ignore
    BY <1>5 DEF Ignore, LoopTop, EndCall, controller, keyring
  <1>6. CASE Adopt
    BY <1>6 DEF Adopt, EndCall, controller, keyring
  <1>7. CASE Push
    BY <1>7 DEF Push, controller, keyring
  <1>8. CASE TakeVersion
    BY <1>8 DEF TakeVersion, call, controller, keyring
  <1>9. CASE TakeKey
    BY <1>9 DEF TakeKey, Remember, EndCall, controller, keyring
  <1>10. CASE OpenFile
    BY <1>10 DEF OpenFile, call, controller, keyring
  <1>11. CASE WriteFile
    BY <1>11 DEF WriteFile, call, controller, keyring
  <1>12. CASE Stop \/ Fails
    BY <1>12 DEF Stop, Fails, Over, EndCall, controller, keyring
  <1>13. CASE Serve
    BY <1>13 DEF Serve, Hear, Replies, bridge
  <1>14. CASE ServeStale
    BY <1>14 DEF ServeStale, Hear, bridge, call
  <1>15. CASE LoseStale
    BY <1>15 DEF LoseStale, bridge, call, controller, keyring
  <1>16. CASE EditConfig
    BY <1>16 DEF EditConfig, bridge, call, keyring
  <1>17. CASE ClickAdopt
    BY <1>17 DEF ClickAdopt, IssueKey, bridge, call
  <1>18. CASE RotateKey
    BY <1>18 DEF RotateKey, IssueKey, bridge, call
  <1>19. CASE Forget
    BY <1>19 DEF Forget, bridge, call
  <1>20. CASE UNCHANGED vars
    BY <1>20 DEF vars, bridge, call, controller, keyring
  <1> QED
    BY <1>1, <1>2, <1>3, <1>4, <1>5, <1>6, <1>7, <1>8, <1>9, <1>10, <1>11, <1>12,
       <1>13, <1>14, <1>15, <1>16, <1>17, <1>18, <1>19, <1>20 DEF Next

LEMMA OlderStep ==
  ASSUME IInv, RegressInv, [Next]_vars PROVE LateIsOlder'
  <1> USE Constants DEF file, IInv, TypeOK, Entries, Requests, Versions, AdoptedPcs, SavingPcs,
          PostPcs, RegressInv, LateIsOlder, VersionBounds, NewKeyUnused, AnswerHeld,
          LoopAgrees, DictAgrees, PostIsReport, CallShape
  <1>1. CASE Start \/ Visit
    BY <1>1 DEF Start, Visit, Run, FirstStep, SavedVersion, call, controller, keyring
  <1>2. CASE SendHello
    BY <1>2 DEF SendHello, controller, keyring
  <1>3. CASE SendReport
    BY <1>3 DEF SendReport, Report, controller, keyring
  <1>4. CASE GiveUp
    BY <1>4 DEF GiveUp, LoopTop, EndCall, controller, keyring
  <1>5. CASE Ignore
    BY <1>5 DEF Ignore, LoopTop, EndCall, controller, keyring
  <1>6. CASE Adopt
    BY <1>6 DEF Adopt, EndCall, controller, keyring
  <1>7. CASE Push
    BY <1>7 DEF Push, controller, keyring
  <1>8. CASE TakeVersion
    BY <1>8 DEF TakeVersion, call, controller, keyring
  <1>9. CASE TakeKey
    BY <1>9 DEF TakeKey, Remember, EndCall, controller, keyring
  <1>10. CASE OpenFile
    BY <1>10 DEF OpenFile, call, controller, keyring
  <1>11. CASE WriteFile
    BY <1>11 DEF WriteFile, call, controller, keyring
  <1>12. CASE Stop \/ Fails
    BY <1>12 DEF Stop, Fails, Over, EndCall, controller, keyring
  <1>13. CASE Serve
    BY <1>13 DEF Serve, Hear, Replies, bridge
  <1>14. CASE ServeStale
    BY <1>14 DEF ServeStale, Hear, bridge, call
  <1>15. CASE LoseStale
    BY <1>15 DEF LoseStale, bridge, call, controller, keyring
  <1>16. CASE EditConfig
    BY <1>16 DEF EditConfig, bridge, call, keyring
  <1>17. CASE ClickAdopt
    BY <1>17 DEF ClickAdopt, IssueKey, bridge, call
  <1>18. CASE RotateKey
    BY <1>18 DEF RotateKey, IssueKey, bridge, call
  <1>19. CASE Forget
    BY <1>19 DEF Forget, bridge, call
  <1>20. CASE UNCHANGED vars
    BY <1>20 DEF vars, bridge, call, controller, keyring
  <1> QED
    BY <1>1, <1>2, <1>3, <1>4, <1>5, <1>6, <1>7, <1>8, <1>9, <1>10, <1>11, <1>12,
       <1>13, <1>14, <1>15, <1>16, <1>17, <1>18, <1>19, <1>20 DEF Next

LEMMA GrowStep ==
  ASSUME IInv, RegressInv, [Next]_vars PROVE SavesGrow'
  <1> USE Constants DEF file, IInv, TypeOK, Entries, Requests, Versions, AdoptedPcs, SavingPcs,
          PostPcs, RegressInv, SavesGrow, VersionBounds, AnswerHeld, LoopAgrees, DictAgrees
  <1>1. CASE Start \/ Visit
    BY <1>1 DEF Start, Visit, Run, FirstStep, SavedVersion, call, controller, keyring
  <1>2. CASE SendHello \/ SendReport \/ GiveUp \/ Ignore \/ Push
    BY <1>2 DEF SendHello, SendReport, GiveUp, Ignore, Push, LoopTop
  <1>3. CASE Adopt
    BY <1>3 DEF Adopt
  <1>4. CASE TakeVersion
    BY <1>4 DEF TakeVersion
  <1>5. CASE TakeKey
    BY <1>5 DEF TakeKey, Remember
  <1>6. CASE OpenFile
    BY <1>6 DEF OpenFile
  <1>7. CASE WriteFile
    BY <1>7 DEF WriteFile
  <1>8. CASE Stop \/ Fails
    BY <1>8 DEF Stop, Fails, Over
  <1>9. CASE Serve \/ ServeStale \/ LoseStale \/ EditConfig \/ ClickAdopt \/ RotateKey \/ Forget
    BY <1>9 DEF Serve, ServeStale, LoseStale, EditConfig, ClickAdopt, RotateKey, Forget, bridge
  <1>10. CASE UNCHANGED vars
    BY <1>10 DEF vars, bridge
  <1> QED
    BY <1>1, <1>2, <1>3, <1>4, <1>5, <1>6, <1>7, <1>8, <1>9, <1>10 DEF Next

LEMMA RegressInit == Init => RegressInv
  BY Constants DEF Init, RegressInv, CallShape, VersionBounds, AdoptionUsed, NewKeyUnused,
     LateIsOlder, SavesGrow, Versions

LEMMA RegressStep == IInv /\ RegressInv /\ [Next]_vars => RegressInv'
  BY ShapeStep, BoundsStep, UsedStep, UnusedStep, OlderStep, GrowStep DEF RegressInv

\* However requests are lost, late or overtaken, and whatever crashes tear.
THEOREM NeverRegress == Spec => []ReportsNeverRegress
  <1>1. IInv /\ RegressInv => ReportsNeverRegress
    BY DEF IInv, RegressInv, LateIsOlder, LoopAgrees, PostIsReport, ReportsNeverRegress, AdoptedPcs
  <1> QED
    BY <1>1, RegressInit, RegressStep, Invariance, PTL DEF Spec

-----------------------------------------------------------------------------
(* Only a torn state file brings a managed device back to adoption. *)

\* Whoever has no state file has lost to a crash what it used last: the offered
\* key, if a request under it exists, and one the controller takes, if it
\* manages the device.
LostInv ==
  StateLost =>
    /\ \A r \in stale \cup {post} : r.key = offer => lost = offer
    /\ phase = "managed" => lost \in accepted

LEMMA LostStep ==
  ASSUME IInv, RegressInv, LostInv, [Next]_vars PROVE LostInv'
  <1> USE Constants DEF file, IInv, TypeOK, Entries, Requests, AdoptedPcs, SavingPcs, PostPcs,
          LostInv, StateLost
  <1>1. CASE Start \/ Visit \/ Adopt \/ TakeVersion \/ TakeKey
    BY <1>1 DEF Start, Visit, Run, Adopt, TakeVersion, TakeKey, EndCall, FirstStep, call,
                controller, keyring,
                OffersIssued
  <1>2. CASE SendHello \/ SendReport
    BY <1>2 DEF SendHello, SendReport, LoopAgrees, controller, keyring, OffersIssued
  <1>3. CASE GiveUp \/ Ignore \/ Push
    BY <1>3 DEF GiveUp, Ignore, Push, EndCall, LoopTop, controller, keyring, OffersIssued
  <1>4. CASE OpenFile
    BY <1>4 DEF OpenFile
  <1>5. CASE WriteFile
    BY <1>5 DEF WriteFile, DictAgrees
  <1>6. CASE Stop \/ Fails
    <2>1. /\ stale' \cup {post'} \subseteq stale \cup {post, Hello}
          /\ UNCHANGED <<disk, accepted, offer, phase>>
          /\ lost' = IF pc = "write" THEN state.authkey ELSE lost
      BY <1>6 DEF Stop, Fails, Over, EndCall, controller, keyring
    <2>2. Hello.key # offer
      OBVIOUS
    <2>3. CASE pc = "write"
      <3>1. state.authkey \in Keys
        BY <2>3 DEF DictAgrees
      <3>2. \A r \in stale \cup {post} : r.key = offer => state.authkey = offer
        BY <3>1 DEF OfferSettled, HeldKeys
      <3>3. phase = "managed" => state.authkey \in accepted
        BY <3>1 DEF NeverStranded, HeldKeys
      <3> QED
        BY <2>1, <2>2, <2>3, <3>2, <3>3
    <2>4. CASE pc # "write"
      BY <2>1, <2>2, <2>4
    <2> QED
      BY <2>3, <2>4
  <1>7. CASE Serve
    BY <1>7 DEF Serve, Hear, bridge
  <1>8. CASE ServeStale
    BY <1>8 DEF ServeStale, Hear, bridge, call
  <1>9. CASE LoseStale \/ EditConfig
    BY <1>9 DEF LoseStale, EditConfig, bridge, call, controller, keyring
  <1>10. CASE ClickAdopt
    BY <1>10 DEF ClickAdopt, IssueKey, bridge, call, OffersIssued
  <1>11. CASE RotateKey
    BY <1>11 DEF RotateKey, IssueKey, bridge, call, OffersIssued
  <1>12. CASE Forget
    BY <1>12 DEF Forget, bridge, call
  <1>13. CASE UNCHANGED vars
    BY <1>13 DEF vars, bridge, call, controller, keyring
  <1> QED
    BY <1>1, <1>2, <1>3, <1>4, <1>5, <1>6, <1>7, <1>8, <1>9, <1>10, <1>11, <1>12, <1>13 DEF Next

\* A restart resumes, unless a crash tore the file: what the controller takes was
\* in it then.
THEOREM Resumes == Spec => []ReadoptionNeedsTear
  <1>1. Init => LostInv
    BY Constants, KeysAssumption DEF Init, LostInv
  <1>2. RegressInv /\ LostInv => ReadoptionNeedsTear
    BY DEF RegressInv, SavesGrow, LostInv, StateLost, ReadoptionNeedsTear
  <1> QED
    BY <1>1, <1>2, LostStep, RegressInit, RegressStep, Invariance, PTL DEF Spec

-----------------------------------------------------------------------------
(* Bridge and controller implement Adoption. *)

\* Hearing a request either confirms the offered key or changes nothing there.
LEMMA HearRefines ==
  ASSUME IInv, NEW r \in stale \cup {post}, Hear(r), UNCHANGED <<bridge, file>>
  PROVE  Promise!Confirm \/ UNCHANGED Promise!vars
  <1>1. UNCHANGED <<Saved, offer, issued, revoked, goal>>
    BY DEF Hear, bridge, file, Saved
  <1>2. CASE r.key # offer
    BY <1>1, <1>2 DEF Hear, Promise!vars, Promise!bridge, Promise!keyring
  <1>3. CASE r.key = offer
    <2>1. offer # NoKey
      BY <1>3 DEF IInv, TypeOK, Requests
    <2>2. Saved.authkey \in {offer, NoKey}
      BY <1>3 DEF IInv, OfferSettled, HeldKeys, Saved
    <2>3. accepted' = {offer}
      BY <1>3 DEF Hear
    <2> QED
      BY <1>1, <2>1, <2>2, <2>3 DEF Promise!Confirm, Promise!bridge
  <1> QED
    BY <1>2, <1>3

LEMMA StepRefines ==
  ASSUME IInv, RegressInv, [Next]_vars
  PROVE  [Promise!Next]_(Promise!vars)
  <1> USE DEF Promise!Next, Promise!vars, Promise!bridge, Promise!keyring, Saved
  <1>1. CASE Start \/ Visit \/ SendHello \/ SendReport \/ GiveUp \/ Ignore \/ Push
    BY <1>1, Constants DEF Start, Visit, Run, SendHello, SendReport, GiveUp, Ignore, Push,
                           FirstStep,
       LoopTop, PostPcs, file, controller, keyring
  <1>2. CASE Adopt \/ TakeVersion \/ TakeKey
    BY <1>2 DEF Adopt, TakeVersion, TakeKey, file, controller, keyring
  <1>3. CASE OpenFile
    \* The truncated file is the process's to fill: what counts now is what is
    \* in the dictionary.
    <2>1. state.authkey \in accepted \cup revoked
      BY <1>3 DEF OpenFile, IInv, TypeOK, DictAgrees, NeverStranded, HeldKeys, SavingPcs
    <2>2. state.cfgversion \in disk.cfgversion..goal
      BY <1>3 DEF OpenFile, IInv, TypeOK, Entries, Versions, RegressInv, SavesGrow, VersionBounds
    <2>3. Saved = disk /\ Saved' = state /\ UNCHANGED <<keyring, goal>>
      BY <1>3 DEF OpenFile, controller
    <2>4. Promise!Learn
      BY <2>1, <2>2, <2>3 DEF Promise!Learn, keyring
    <2> QED
      BY <2>4
  <1>4. CASE WriteFile
    BY <1>4 DEF WriteFile, controller, keyring, IInv, TypeOK
  <1>5. CASE Stop \/ Fails
    <2>1. CASE pc = "write"
      <3>1. Promise!Lose
        BY <1>5, <2>1, Constants DEF Stop, Fails, Over, Promise!Lose, controller, keyring, IInv,
          SaveWindow
      <3> QED
        BY <3>1
    <2>2. CASE pc # "write"
      BY <1>5, <2>2 DEF Stop, Fails, Over, controller, keyring
    <2> QED
      BY <2>1, <2>2
  <1>6. CASE Serve
    BY <1>6, HearRefines DEF Serve
  <1>7. CASE ServeStale
    BY <1>7, HearRefines DEF ServeStale, call
  <1>8. CASE LoseStale
    BY <1>8 DEF LoseStale, bridge, file, controller, keyring
  <1>9. CASE EditConfig
    BY <1>9 DEF EditConfig, bridge, file, keyring, Promise!Edit
  <1>10. CASE ClickAdopt \/ RotateKey
    BY <1>10 DEF ClickAdopt, RotateKey, IssueKey, bridge, file, Promise!Issue
  <1>11. CASE Forget
    BY <1>11 DEF Forget, bridge, file, Promise!Forget
  <1>12. CASE UNCHANGED vars
    BY <1>12 DEF vars, bridge, file, controller, keyring
  <1> QED
    BY <1>1, <1>2, <1>3, <1>4, <1>5, <1>6, <1>7, <1>8, <1>9, <1>10, <1>11, <1>12 DEF Next

\* Every execution of bridge and controller is one of Adoption.
THEOREM Refinement == Spec => KeepsPromise
  <1>1. Init => Promise!Init
    BY Constants DEF Init, Promise!Init, Saved
  <1> QED
    BY <1>1, Invariance, RegressInit, RegressStep, StepRefines, PTL
    DEF Spec, KeepsPromise, Promise!Spec

\* Whatever crashes and late answers do, a restart never comes back with an older
\* version than it had, as long as it comes back with a key.
THEOREM SavedOnlyGrows == Spec => Promise!VersionOnlyGrows
  <1>1. ASSUME IInv, RegressInv, [Next]_vars
        PROVE  [(Saved.authkey)' # NoKey => Saved.cfgversion <= (Saved.cfgversion)']_(Promise!vars)
    <2> SUFFICES ASSUME Promise!Next, Saved'.authkey # NoKey
                 PROVE  Saved.cfgversion <= Saved'.cfgversion
      BY <1>1, StepRefines
    <2>1. Saved.cfgversion \in Nat /\ goal \in Nat
      BY <1>1 DEF IInv, TypeOK, Entries, Versions, Saved
    <2> QED
      BY <2>1 DEF Promise!Next, Promise!Learn, Promise!Lose, Promise!Issue, Promise!Edit,
                  Promise!Confirm, Promise!Forget, Promise!bridge
  <1> QED
    BY <1>1, Invariance, RegressInit, RegressStep, PTL DEF Spec, Promise!VersionOnlyGrows
=============================================================================
