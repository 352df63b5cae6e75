CONSTANTS
  Channels = {c1, c2}
  Journals = {j1}
  Objects = {o1, o2}
  Policies <- MCPolicies
  Units = {0, 1, 2}
  MaxUsed = 3
  MaxDay = 2
  MaxTime = 3
  None = None
SYMMETRY Symmetric
SPECIFICATION AllSpec
INVARIANTS OccupancyExact SlowRunsAlone CooldownHonoured UsageIsTrue
PROPERTY UsageOnlyForgivenByANewDay
CHECK_DEADLOCK FALSE
