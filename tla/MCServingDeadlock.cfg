CONSTANTS
    Threads = {1, 2}
    MaxCaps = 2
    MaxOps = 2
    NRoles = 1
SPECIFICATION Spec

PROPERTY TerminalReturns
CHECK_DEADLOCK FALSE
