CONSTANTS
  Tokens = {root, child}
  Root = root
  Files = {f1}
  Decided = {"MPROTECT", "CONNECT"}
  None = None
  Finalize = 2
  MaxTasks = 2
  MaxOps = 2
  MaxFrames = 12
  TokenLimit = 3
  MaxRows = 2
  Cold = 2
  Model = 3
  Poison = {4}
  Remote = {5}
  Denied = {6}
  Jit = 7
  LastPhase = 8
  MaxOrdinal = 2
  MaxMinted = 2
  MaxJit = 3
  MaxOpen = 1
  MaxPasses = 1
SPECIFICATION AllSpec
CHECK_DEADLOCK FALSE
INVARIANTS
  SealedStreamIsComplete
  MeasuredIsWhatIsRead
  SealedStaysGreen
  ReleasedOnlyAfterMeasurement
  AppraisedTellsThePlan
