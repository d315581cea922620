SPECIFICATION Spec
CONSTANTS
  k1 = k1
  k2 = k2
  k3 = k3
  Keys <- TwoKeys
  NoKey = NoKey
  DefaultKey = DefaultKey
  MaxVersion = 1
  MaxStale = 0
  Forgets = FALSE
INVARIANT
  NoReadoption
