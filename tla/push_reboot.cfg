SPECIFICATION Spec
CONSTANTS
  Vlans = {v10}
  Ports = {p1}
  Plans <- MCPlans
  MaxVersion = 1
  MaxOthers = 0
  MaxTears = 0
  SavesItself = FALSE
  Reboots = TRUE
INVARIANT
  GapsAreLogged
