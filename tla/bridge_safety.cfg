SPECIFICATION Spec
CONSTANTS
  k1 = k1
  k2 = k2
  k3 = k3
  Keys <- ThreeKeys
  NoKey = NoKey
  DefaultKey = DefaultKey
  MaxVersion = 2
  MaxStale = 2
  Forgets = TRUE
INVARIANTS
  TypeOK
  InformIsDurable
  NeverStranded
  ReportsNeverRegress
  IInv
  ReadoptionNeedsTear
PROPERTY
  KeepsPromise
