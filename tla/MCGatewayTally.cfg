CONSTANTS
  Channels = {c1}
  alice = alice
  bob = bob
  ja = ja
  jb = jb
  Journals = {ja, jb}
  Objects = {o1, o2}
  Policies <- MCPolicies
  Units = {0, 1}
  MaxUsed = 1
  MaxDay = 0
  MaxTime = 3
  None = None
  Credentials = {alice, bob}
  JournalOf <- MCJournalOf
  Requests <- All
  AudioCharges = {1}
  MeasuredCharges = {0, 1}
  Penalty = 1
  AdmissionTimeout = 1
  Lifetime = 2
  Grace = 1
  ConnectTimeout = 1
  Backlog = 1
  LastAccept = 0
  MaxRequests = 1
SPECIFICATION Spec
INVARIANT ResponseAccounted
