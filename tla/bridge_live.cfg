SPECIFICATION FairSpec
CONSTANTS
  k1 = k1
  k2 = k2
  k3 = k3
  Keys <- TwoKeys
  NoKey = NoKey
  DefaultKey = DefaultKey
  MaxVersion = 2
  MaxStale = 1
  Forgets = FALSE
PROPERTIES
  AdoptionCompletes
  KeepsInforming
