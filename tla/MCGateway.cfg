CONSTANTS
  Channels = {c1, c2}
  alice = alice
  bob = bob
  ja = ja
  jb = jb
  Journals = {ja}
  Objects = {o1}
  Policies <- MCPolicies
  Units = {0, 1}
  MaxUsed = 1
  MaxDay = 0
  MaxTime = 3
  None = None
  Credentials = {alice}
  JournalOf <- MCJournalOf
  Requests <- Pair
  AudioCharges = {1}
  MeasuredCharges = {0, 1}
  Penalty = 1
  AdmissionTimeout = 1
  Lifetime = 1
  Grace = 1
  ConnectTimeout = 1
  Backlog = 0
  LastAccept = 0
  MaxRequests = 1
SYMMETRY Symmetric
SPECIFICATION Spec
INVARIANTS NoLeakedLease
PROPERTIES AllowanceProtocol
