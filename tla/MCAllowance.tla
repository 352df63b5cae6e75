---------------------------- MODULE MCAllowance ----------------------------
(* The accounting of work.  A behaviour is one of the allowance, or of one of  *)
(* the three parts that keep the figures: part says which.  The three share a  *)
(* bank of variables, None where they have no use.                             *)
(* The allowance has two connections and one journal under two policies, so    *)
(* that it goes over budget with requests in flight and its policy changes     *)
(* while it is over.                                                           *)
EXTENDS Allowance, TLC

VARIABLES part, v1, v2, v3, v4, v5, v6, v7

bank == <<v1, v2, v3, v4, v5, v6, v7>>
all == <<vars, part, bank>>

MCPolicies == {[daily |-> 1, cooldown |-> 2, max_inflight |-> 1],
               [daily |-> 2, cooldown |-> 1, max_inflight |-> 2]}

Symmetric == Permutations(Channels) \cup Permutations(Objects)

\* Documents one level deeper than the walker follows.
U == INSTANCE UsageWalker WITH
  w <- v1, open <- v2, ref <- v3,
  MaxDepth <- 4, DepthMax <- 3, BufferMax <- 9, KeyMax <- 4, Tokens <- {1, 2}

\* Months of two days; a day and a band both need two devices.
F == INSTANCE FleetUsage WITH
  day <- v1, fleet <- v2, truth <- v3, seen <- v4, stepped <- v5,
  Devices <- {"d1", "d2"}, Amounts <- {2}, Edges <- {4}, MinDevices <- 2, MinBand <- 2,
  MonthDays <- 2, LastDay <- 4, MaxRecords <- 4

\* Four requests for a queue of two and batches of two.
A == INSTANCE AsrShim WITH
  ready <- v1, work <- v2, queue <- v3, batch <- v4, slot <- v5, answer <- v6, counted <- v7,
  Requests <- {"r1", "r2", "r3", "r4"}, MaxQueue <- 2, MaxBatch <- 2

-----------------------------------------------------------------------------
\* The bank from a variable on, unused.
None6 == v6 = None /\ v7 = None
None4 == v4 = None /\ v5 = None /\ None6
None1 == v1 = None /\ v2 = None /\ v3 = None /\ None4

AllInit ==
  /\ Init
  /\ \/ part = "allowance" /\ None1
     \/ /\ today = 0
        /\ \/ part = "walker" /\ U!Init /\ None4
           \/ part = "fleet" /\ F!Init /\ None6
           \/ part = "asr" /\ A!Init

Allowances == part = "allowance" /\ Next /\ UNCHANGED <<part, bank>>

\* A step of part p, which has the bank to itself.
Only(p) == part = p /\ UNCHANGED <<vars, part>>

AllNext ==
  \/ Allowances
  \/ Only("walker") /\ U!Next /\ UNCHANGED <<v4, v5, v6, v7>>
  \/ Only("fleet") /\ F!Next /\ UNCHANGED <<v6, v7>>
  \/ Only("asr") /\ A!Next

AllSpec == AllInit /\ [][AllNext]_all

-----------------------------------------------------------------------------
\* Every usage figure is that of what was served: the tokens the walker finds in a
\* stream are the ones a JSON parser finds, a released histogram is the suppressed
\* truth of its month, and the audio metered is the audio transcribed and delivered
\* to whoever sent it (UsageWalker, FleetUsage._roll, BatchWorker.run).
UsageIsTrue ==
  /\ part = "walker" => U!WalkerAgreesWithGrammar
  /\ part = "fleet" => F!ReleaseIsSuppressedTruth
  /\ part = "asr" => A!TranscriptsDelivered
=============================================================================
