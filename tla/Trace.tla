------------------------------- MODULE Trace --------------------------------
(* The kernel's trace core and the appraiser of its streams.  A behaviour is   *)
(* one of the core, or the appraiser reading any stream whatever frame by      *)
(* frame: part says which.                                                     *)
EXTENDS TraceCore

CONSTANTS
  Cold, Model, Jit, Poison, Remote, Denied, LastPhase,  \* the phases of the plan
  MaxOrdinal, MaxMinted, MaxJit, MaxOpen, MaxPasses     \* bounds on the streams read

VARIABLES part, reducer, log, story

appraisal == <<reducer, log, story>>
all == <<vars, part, appraisal>>

\* A phase has one control, the first none.
ASSUME PlanAssumption ==
  /\ Cold \in Nat \ {0, 1} /\ Model \in Nat \ {0, 1} /\ Jit \in Nat \ {0, 1} /\ LastPhase \in Nat
  /\ Cold # Model /\ Cold # Jit /\ Model # Jit
  /\ \A n \in Poison \cup Remote \cup Denied : n \in Nat \ {0, 1, Cold, Model, Jit}
  /\ Poison \cap Remote = {} /\ Poison \cap Denied = {} /\ Remote \cap Denied = {}

\* Bound: one operation in the first phase, MaxJit in the one that needs three.
Budget == [n \in 1 .. LastPhase |-> IF n = 1 THEN 1 ELSE IF n = Jit THEN MaxJit ELSE MaxMinted]

P == INSTANCE Appraiser WITH
  r <- reducer, Final <- LastPhase, MaxTasks <- MaxOrdinal, MaxRows <- MaxPasses

-----------------------------------------------------------------------------
AllInit ==
  /\ Init
  /\ \/ part = "core" /\ reducer = None /\ log = None /\ story = None
     \/ part = "appraiser" /\ P!Init

Core == part = "core" /\ Next /\ UNCHANGED <<part, appraisal>>

Appraise == part = "appraiser" /\ P!Next /\ UNCHANGED <<part, vars>>

AllNext == Core \/ Appraise

AllSpec == AllInit /\ [][AllNext]_all

-----------------------------------------------------------------------------
\* A stream the appraiser accepts, whoever wrote it, shows every control of the plan
\* exactly once and leaves nothing open (_Reducer.consume and the handlers under it).
AppraisedTellsThePlan == part = "appraiser" => P!AcceptedTellsThePlan
=============================================================================
