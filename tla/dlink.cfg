SPECIFICATION FairSpec
CONSTANTS
  Vids = {v10}
  Ports = {p1}
  Retries = 4
  MaxLinger = 3
  MaxForeign = 1
INVARIANTS
  TypeOK
  RetriesOutlastLinger
PROPERTY
  LoginEnds
  KeepsContract
