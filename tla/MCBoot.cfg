CONSTANTS
  Engines = {1, 2}
  Versions = {"v1", "v2", "v2jit", "v3"}
  NItems = 2
  None = None
  Torn = Torn
  Threads = {1, 2}
  MaxCaps = 2
  MaxOps = 2
  NRoles = 1
  Objects = {1, 2}
  Addresses = {1}
  MaxCounter = 2
  MaxFaults = 2
  Bindings = {"b1", "b2"}
  MaxBoots = 2
  MaxMishaps = 2
  Channels = {"c1"}
  MaxClock = 1
  MaxAsked = 3
  MaxEvents = 2
  Window = 1
  Controller = "controller"
  Gateway = "gateway"
  Responses <- MCResponses
  Chunks <- MCChunks
  Talk <- MCTalk
  Buffer = 2
  PacketTime = 1
  OverallTime = 2
  MaxTime = 2
  MaxReplays = 1
  Guests = {"good", "debug", "forged", "other"}
  About <- MCAbout
  Policy <- MCPolicy
  Products <- MCProducts
  MaxLevel = 2
  MaxPuts = 4
  Asks <- MCAsks
  MaxTcb = 3
  MaxIncidents = 3
SPECIFICATION AllSpec
INVARIANTS MeasuredOnce AuthorityIsOne BindingsAreTrue MeasurementsHoldTogether AttestedIsWhatRuns DeliveredInOrder
PROPERTIES PermitSpec FailureEndsServing
CHECK_DEADLOCK FALSE
