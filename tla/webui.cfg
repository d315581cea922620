SPECIFICATION FairSpec
CONSTANTS
  Requests = {r1, r2}
  Configs = {c1, c2}
  Environments <- AnyEnvironment
  NoFile = NoFile
  Torn = Torn
  Main = main
  Nobody = Nobody
  MaxRuns = 2
INVARIANTS
  TypeOK
  OneBridge
  SavedIsStarted
  RestartRunsTheFile
  SetupSurvives
PROPERTY
  RequestsFinish
