SPECIFICATION FairSpec
CONSTANTS
  Vlans = {v10}
  Ports = {p1, p2}
  Plans <- MCPlans
  MaxVersion = 2
  MaxOthers = 1
  MaxTears = 1
  SavesItself = TRUE
  Reboots = TRUE
INVARIANTS
  TypeOK
  GapsAreLogged
  RepeatsNeedTears
PROPERTY
  GoalIsTaken
