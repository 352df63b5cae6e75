CONSTANTS
  Sessions = {s1, s2}
  Routes = {chat, speech}
  MaxSessions = 2
  None = None
  Sockets = {k}
  MaxSockets = 2
  Lease = 1
  Handshake = 2
  MaxWait = 2
  Budget = 2
  SealPhase = 5
  MaxTime = 2
SYMMETRY Symmetric
SPECIFICATION Spec
CHECK_DEADLOCK FALSE
INVARIANTS PermitsConserved GrantsUnderALease NobodyOverstays StoppedLeavesNothing ServingAfterTheSeal
