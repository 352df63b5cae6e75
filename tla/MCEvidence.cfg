CONSTANTS
  Subjects = {gpu}
  Responses <- MCResponses
  Inventories = {h100}
  Admissions = {a1, a2}
  Tolerance = 1
  MaxAge = 4
  MinRemaining = 2
  AdmissionTime = 1
  RefreshDelay = 2
  RetryDelay = 1
  RetryCap = 2
  MaxFailures = 2
  MaxTime = 5
  None = None
  Torn = Torn
SPECIFICATION AllSpec
INVARIANTS NewestAcceptedDecides CertifiedProofsStillValid BundleIsOneExecution ProvenanceIsWhole BuildsAreWhole
PROPERTIES NoRollback BadNewsStopsAdmission
CHECK_DEADLOCK FALSE
