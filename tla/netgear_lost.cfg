SPECIFICATION Spec
CONSTANTS
  v10 = v10
  v20 = v20
  v0 = v0
  Vids <- TwoGood
  BadVids <- NoneBad
  Ports = {p1}
  MaxKicks = 1
INVARIANT
  EnsureCreates
