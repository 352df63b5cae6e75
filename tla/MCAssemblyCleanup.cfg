CONSTANTS Procs = {p1, p2}
  Contents = {c1, c2, bad}
  Lawful = {c1, c2}
  Observable = {c1, c2}
  MaxRestarts = 1
  None = None
INIT Init
NEXT Next
INVARIANT HolderKeepsItsStage
CHECK_DEADLOCK FALSE
