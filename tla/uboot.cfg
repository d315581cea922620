SPECIFICATION Spec
CONSTANTS
  MaxQueue = 4
INVARIANTS
  TypeOK
  CommandsAreClean
  SoleReader
  ReadyIsPrompt
  ResumeIsFinal
CHECK_DEADLOCK FALSE
