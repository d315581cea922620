SPECIFICATION Spec
CONSTANTS
  Requests = {r1}
  Configs = {c1, c2}
  Environments <- AnyEnvironment
  NoFile = NoFile
  Torn = Torn
  Main = main
  Nobody = Nobody
  MaxRuns = 2
INVARIANT
  PhaseIsLive
