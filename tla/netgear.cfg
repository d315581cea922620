SPECIFICATION FairSpec
CONSTANTS
  v10 = v10
  v20 = v20
  v0 = v0
  Vids <- SomeVids
  BadVids <- OneBad
  Ports = {p1}
  MaxKicks = 3
INVARIANTS
  TypeOK
  LossNeedsKick
  LossIsMasked
PROPERTY
  Recovers
  KeepsContract
