CONSTANTS
    Engines = {1, 2}
    Versions = {"v1", "v2", "v2jit", "v3"}
    NItems = 2
SPECIFICATION Spec
INVARIANT ServingIsMeasuredV3
CHECK_DEADLOCK FALSE
