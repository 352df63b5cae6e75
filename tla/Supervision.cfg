CONSTANTS
  Callers = {c1, c2, c3}
  Deadlines = {0, 1, None}
  Timeout = 2
  CleanupTime = 1
  None = None
  MaxSuccess = 3
  MaxFrames = 5
  RecordSize = 3
  MarkerSize = 2
  MaxLine = 4
  MaxWire = 16
  MaxPreamble = 1
  MaxFill = 3
  Descendants = {d1, d2}
  Main = main
  Pid1 = pid1
  MaxNow = 4
  MaxBoots = 2
  MaxSeq = 3
  MaxAge = 1
SPECIFICATION AllSpec
INVARIANTS CollectorIsHonest DiagnosticIsTold ReportsAreRecent
PROPERTY CallsComeBack
CHECK_DEADLOCK FALSE
