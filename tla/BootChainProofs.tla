-------------------------- MODULE BootChainProofs --------------------------
(* Proofs about BootChain: the process extends PCR 15 at most once, an engine  *)
(* of v1 or v2 serves only with its own measurement in it, and the reducers    *)
(* implement BootPermit, for any number of engines of any versions.            *)
EXTENDS BootChain, TLAPS

-----------------------------------------------------------------------------
(* The chains.                                                               *)

\* The states beyond the closing of the boot transport, and beyond the extension.
PostClose ==
    {"serving_ready", "serving", "serving_transport_claimed", "jit_inputs_checked",
     "jit_prepare", "jit_outputs_checked", "jit_disabled", "serving_network_apply",
     "serving_network_readback", "listener_create", "listener_bind", "service_start",
     "network_activate", "serving_available", "device_monitor_sealed", "dev_tree_pruned",
     "device_monitor_reconciled", "securityfs_unmounted", "kernel_interfaces_moved",
     "c3_census_established", "handoff_sealed", "switch_root_completed", "stage2_admitted",
     "post_root_runtime_sealed", "launch_supervision_ready"}

PostExtend == PostClose \cup CloseStates \cup {"pcr15_readback"}

\* The states beyond the readback of PCR 15, which v1 and v2 have and v3 has not.
Beyond == PostClose \cup CloseStates

\* Where these lie in a chain c: the extension at x, the closing at d.
Ordered(c, x, d) ==
    /\ 0 < x /\ x < d /\ d + 1 < Len(c)
    /\ \A i \in 1..Len(c) :
         /\ c[i] \in PostClose <=> i > d
         /\ c[i] \in PostExtend <=> i > x
         /\ c[i] \in CloseStates <=> i = d
         /\ c[i] \in ExtendStates <=> i = x
         /\ c[i] \in ServingStates <=> i = Len(c)
         /\ c[i] \notin {"failed_non_serving", "poweroff"}

States(v) == {Chain(v)[i] : i \in 1..Len(Chain(v))}
Dead == {"failed_non_serving", "poweroff"}
Places == Dead \cup UNION {States(v) : v \in Versions}

\* Every chain has one extension, then one closing, then states before it serves.
LEMMA ChainsOrdered ==
  ASSUME NEW v \in Versions
  PROVE  \E x, d \in Nat : Ordered(Chain(v), x, d) /\ Len(Chain(v)) \in Nat
  <1> USE DEF PostClose, PostExtend, CloseStates, ExtendStates, ServingStates
  <1>1. CASE v = "v1"
    <2>1. Chain(v) = V1Chain
      BY <1>1 DEF Chain
    <2>2. Len(V1Chain) = 22 /\ Ordered(V1Chain, 18, 20)
      BY DEF V1Chain, Ordered
    <2> QED BY <2>1, <2>2
  <1>2. CASE v = "v3"
    <2>1. Chain(v) = V3Chain
      BY <1>2 DEF Chain
    <2>2. Len(V3Chain) = 33 /\ Ordered(V3Chain, 20, 21)
      BY DEF V3Chain, Ordered
    <2> QED BY <2>1, <2>2
  <1>3. CASE v = "v2"
    <2>1. Chain(v) = V2Chain(FALSE)
      BY <1>3 DEF Chain
    <2>2. Len(Chain(v)) = 38 /\ Ordered(Chain(v), 25, 27)
      BY <2>1 DEF V2Chain, Ordered
    <2> QED BY <2>2
  <1>4. CASE v = "v2jit"
    <2>1. Chain(v) = V2Chain(TRUE)
      BY <1>4 DEF Chain
    <2>2. Len(Chain(v)) = 39 /\ Ordered(Chain(v), 25, 27)
      BY <2>1 DEF V2Chain, Ordered
    <2> QED BY <2>2
  <1> QED BY <1>1, <1>2, <1>3, <1>4, VersionsAssumption

\* A reducer's first state is before the extension, and "jit_inputs_checked", to which
\* claim_activation_transport moves, is a state of v2.
LEMMA ChainEnds ==
  ASSUME NEW v \in Versions
  PROVE  /\ Chain(v)[1] \in States(v) /\ Chain(v)[1] \notin PostExtend
         /\ v \in {"v2", "v2jit"} => "jit_inputs_checked" \in States(v)
  <1>1. Chain(v)[1] \in States(v) /\ Chain(v)[1] \notin PostExtend
    <2>1. PICK x, d \in Nat : Ordered(Chain(v), x, d) /\ Len(Chain(v)) \in Nat
      BY ChainsOrdered
    <2> QED BY <2>1 DEF Ordered, States
  <1>2. CASE v \in {"v2", "v2jit"}
    <2>1. PICK jit \in BOOLEAN : Chain(v) = V2Chain(jit)
      BY <1>2 DEF Chain
    <2>2. Len(V2Chain(jit)) \in Nat /\ Len(V2Chain(jit)) >= 29
          /\ V2Chain(jit)[29] = "jit_inputs_checked"
      BY DEF V2Chain
    <2> QED BY <1>1, <2>1, <2>2 DEF States
  <1> QED BY <1>1, <1>2

\* The chains of v1 and v2 read PCR 15 back right before they close the transport.
LEMMA ChainsReadBack ==
  ASSUME NEW v \in Versions, v # "v3"
  PROVE  \E d \in Nat :
           /\ 1 < d
           /\ \A i \in 1..Len(Chain(v)) : /\ Chain(v)[i] \in Beyond <=> i >= d
                                          /\ Chain(v)[i] = "pcr15_readback" <=> i = d - 1
  <1> USE DEF Beyond, PostClose, CloseStates
  <1>1. CASE v = "v1"
    <2>1. Chain(v) = V1Chain
      BY <1>1 DEF Chain
    <2>2. Len(V1Chain) = 22
          /\ \A i \in 1..Len(V1Chain) : /\ V1Chain[i] \in Beyond <=> i >= 20
                                        /\ V1Chain[i] = "pcr15_readback" <=> i = 20 - 1
      BY DEF V1Chain
    <2> QED BY <2>1, <2>2
  <1>2. CASE v \in {"v2", "v2jit"}
    <2>1. PICK jit \in BOOLEAN : Chain(v) = V2Chain(jit)
      BY <1>2 DEF Chain
    <2>2. Len(V2Chain(jit)) = (IF jit THEN 39 ELSE 38)
          /\ \A i \in 1..Len(V2Chain(jit)) :
               /\ V2Chain(jit)[i] \in Beyond <=> i >= 27
               /\ V2Chain(jit)[i] = "pcr15_readback" <=> i = 27 - 1
      BY DEF V2Chain
    <2> QED BY <2>1, <2>2
  <1> QED BY <1>1, <1>2, VersionsAssumption

\* A step along a chain passes the extension and the closing one at a time.
LEMMA SuccessorFacts ==
  ASSUME NEW v \in Versions, NEW s \in States(v)
  PROVE  /\ Successor(v, s) \in States(v)
         /\ Successor(v, s) \in PostExtend => s \in PostExtend \cup ExtendStates
         /\ Successor(v, s) \in PostClose => s \in PostClose \cup CloseStates
         /\ Successor(v, s) \in ServingStates => s \in PostClose
         /\ v # "v3" /\ Successor(v, s) \in Beyond => s \in Beyond \cup {"pcr15_readback"}
  <1> DEFINE i == CHOOSE j \in 1..Len(Chain(v)) : Chain(v)[j] = s
  <1>1. i \in 1..Len(Chain(v)) /\ Chain(v)[i] = s
    BY DEF States
  <1>2. Successor(v, s) = IF i < Len(Chain(v)) THEN Chain(v)[i + 1] ELSE s
    BY DEF Successor
  <1>3. PICK x, d \in Nat : Ordered(Chain(v), x, d) /\ Len(Chain(v)) \in Nat
    BY ChainsOrdered
  <1> HIDE DEF i
  <1>4. CASE i < Len(Chain(v))
    <2>1. i + 1 \in 1..Len(Chain(v)) /\ Successor(v, s) = Chain(v)[i + 1]
      BY <1>1, <1>2, <1>3, <1>4
    <2>2. Successor(v, s) \in States(v)
      BY <2>1 DEF States
    <2>3. CASE v = "v3"
      BY <1>1, <1>3, <2>1, <2>2, <2>3 DEF Ordered
    <2>4. CASE v # "v3"
      <3>1. PICK b \in Nat :
              \A j \in 1..Len(Chain(v)) : /\ Chain(v)[j] \in Beyond <=> j >= b
                                          /\ Chain(v)[j] = "pcr15_readback" <=> j = b - 1
        BY <2>4, ChainsReadBack
      <3>2. Successor(v, s) \in Beyond => s \in Beyond \cup {"pcr15_readback"}
        <4>1. /\ Chain(v)[i + 1] \in Beyond <=> i + 1 >= b
              /\ Chain(v)[i] \in Beyond <=> i >= b
              /\ Chain(v)[i] = "pcr15_readback" <=> i = b - 1
          BY <1>1, <2>1, <3>1
        <4>2. i \in Nat
          BY <1>1, <1>3
        <4>3. i + 1 >= b => i >= b \/ i = b - 1
          BY <4>2
        <4> QED BY <1>1, <2>1, <4>1, <4>3
      <3> QED BY <1>1, <1>3, <2>1, <2>2, <3>2 DEF Ordered
    <2> QED BY <2>3, <2>4
  <1>5. CASE ~(i < Len(Chain(v)))
    BY <1>1, <1>2, <1>3, <1>5 DEF Ordered
  <1> QED BY <1>4, <1>5

-----------------------------------------------------------------------------
(* The inductive invariant.                                                  *)

Names == Transports \cup {"none"}
Kinds == {"none", "diagnostic", "close_serving_network", "poweroff"}

Reducer ==
    [v : Versions, at : Places, pending : BOOLEAN, issued : BOOLEAN, ext : Names, boot : Names,
     fail : Names, act : Names, idx : Nat, kind : Kinds, served : BOOLEAN]

LatchStates == {"unrequested", "request_issued", "acknowledged", "ambiguous", "transport_closed"}

\* The reducers, the latch and PCR 15 keep their types.
TypeOK ==
    /\ eng \in [Engines -> Reducer]
    /\ latch \in LatchStates /\ pcr \in Seq(Engines) /\ executed \in Nat

\* A reducer is on its own chain or has failed; powered off it has nothing pending.
Placed(x) == x.at \in States(x.v) \cup Dead /\ (x.at = "poweroff" => ~x.pending)

\* The reducer has emitted its extension, and it has not been executed.
Awaiting(x) == x.pending /\ x.at \in ExtendStates

\* Beyond the readback of v1 and v2, PCR 15 holds the reducer's own extension alone.
ReadBackIsOwn == \A e \in Engines : ~IsV3(e) /\ eng[e].at \in Beyond => pcr = <<e>>

IInv ==
    /\ TypeOK
    /\ \A e \in Engines : Placed(eng[e])
    /\ latch = "unrequested" =>
         executed = 0 /\ pcr = <<>> /\ \A e \in Engines : ~eng[e].issued
    /\ \A e, f \in Engines : eng[e].issued /\ eng[f].issued => e = f
    /\ \A e \in Engines : Awaiting(eng[e]) =>
         eng[e].issued /\ latch = "request_issued" /\ executed = 0 /\ pcr = <<>>
    /\ \A e \in Engines : eng[e].at \in PostExtend => eng[e].issued
    /\ \A e \in Engines : eng[e].at \in PostClose => latch = "transport_closed"
    /\ ReadBackIsOwn
    /\ ExtendedOnce

-----------------------------------------------------------------------------
(* What one step does to a reducer, in four kinds: nothing the process shares, *)
(* the request of the extension, its outcome, and the closing.               *)

Quiet(e) ==
    /\ UNCHANGED <<latch, pcr, executed>> /\ eng'[e].issued = eng[e].issued
    /\ Awaiting(eng'[e]) => Awaiting(eng[e])
    /\ eng'[e].at \in PostExtend => eng[e].at \in PostExtend
    /\ eng'[e].at \in PostClose => eng[e].at \in PostClose

Requests(e) ==
    /\ latch = "unrequested" /\ latch' = "request_issued" /\ UNCHANGED <<pcr, executed>>
    /\ eng'[e].issued /\ eng'[e].at = eng[e].at

Extends(e) ==
    /\ Awaiting(eng[e]) /\ ~eng'[e].pending /\ eng'[e].issued = eng[e].issued
    /\ eng'[e].at \notin PostClose
    /\ executed' \in {executed, executed + 1} /\ pcr' \in {pcr, Append(pcr, e)}
    /\ latch' \in {latch, "acknowledged", "ambiguous"}

Closes(e) ==
    /\ latch \in {"acknowledged", "ambiguous"} /\ latch' = "transport_closed"
    /\ UNCHANGED <<pcr, executed>> /\ eng[e].at \in CloseStates
    /\ ~eng'[e].pending /\ eng'[e].issued = eng[e].issued
    /\ eng'[e].at \notin ServingStates

\* A reducer with a readback gets beyond it only by reading its own measurement.
Reads(e) ==
    /\ eng'[e].v = eng[e].v
    /\ eng[e].v # "v3" /\ eng'[e].at \in Beyond =>
         eng[e].at \in Beyond \/ (eng[e].at = "pcr15_readback" /\ pcr = <<e>>)

StepOf(e) ==
    /\ eng' = [eng EXCEPT ![e] = eng'[e]]
    /\ eng'[e] \in Reducer /\ Placed(eng'[e]) /\ Reads(e)
    /\ Quiet(e) \/ Requests(e) \/ Extends(e) \/ Closes(e)

\* The named states are in no two of the sets they are told apart by.
LEMMA Apart ==
  /\ ServingStates \subseteq PostClose /\ PostClose \subseteq PostExtend
  /\ CloseStates \subseteq PostExtend /\ CloseStates \cap PostClose = {}
  /\ ExtendStates \cap PostExtend = {} /\ Dead \cap (PostExtend \cup ExtendStates) = {}
  /\ ServingStates \subseteq Beyond /\ Beyond \subseteq PostExtend
  /\ ExtendStates \cap (Beyond \cup {"pcr15_readback"}) = {} /\ Dead \cap Beyond = {}
  BY DEF ServingStates, PostClose, PostExtend, CloseStates, ExtendStates, Dead, Beyond

\* _fail leaves a reducer as it was or puts it in FAILED_NON_SERVING.
LEMMA FailedFacts ==
  ASSUME NEW x \in Reducer, Placed(x)
  PROVE  /\ Failed(x) \in Reducer /\ Placed(Failed(x))
         /\ Failed(x).issued = x.issued /\ Failed(x).v = x.v
         /\ Failed(x).at = "failed_non_serving" \/ Failed(x) = x
  <1>1. "failed_non_serving" \in Places /\ "none" \in Names /\ "diagnostic" \in Kinds
    BY DEF Places, Dead, Names, Kinds
  <1>2. CASE Failed(x) = x
    BY <1>2
  <1>3. CASE Failed(x) = [x EXCEPT !.at = "failed_non_serving", !.ext = "none", !.kind = "diagnostic"]
    BY <1>1, <1>3 DEF Reducer, Placed, Dead
  <1>4. CASE Failed(x) = [x EXCEPT !.at = "failed_non_serving", !.pending = FALSE]
    BY <1>1, <1>4 DEF Reducer, Placed, Dead
  <1>5. CASE Failed(x) = [x EXCEPT !.at = "failed_non_serving", !.pending = FALSE, !.kind = "diagnostic"]
    BY <1>1, <1>5 DEF Reducer, Placed, Dead
  <1> QED BY <1>2, <1>3, <1>4, <1>5 DEF Failed

\* Dropping the pending effect changes nothing else.
LEMMA DropFacts ==
  ASSUME NEW x \in Reducer, Placed(x)
  PROVE  /\ Drop(x) \in Reducer /\ Placed(Drop(x)) /\ ~Drop(x).pending
         /\ Drop(x).issued = x.issued /\ Drop(x).at = x.at /\ Drop(x).v = x.v
  BY DEF Drop, Reducer, Placed

\* An accepted observation moves a reducer one state along its chain, or to the next
\* item of the same state.
LEMMA MovedFacts ==
  ASSUME NEW x \in Reducer, x.at \in States(x.v)
  PROVE  /\ Moved(x) \in Reducer /\ Placed(Moved(x)) /\ ~Moved(x).pending
         /\ Moved(x).issued = x.issued /\ Moved(x).v = x.v
         /\ Moved(x).at \in PostExtend => x.at \in PostExtend \cup ExtendStates
         /\ Moved(x).at \in PostClose => x.at \in PostClose \cup CloseStates
         /\ Moved(x).at \in ServingStates => x.at \in PostClose
         /\ x.v # "v3" /\ Moved(x).at \in Beyond => x.at \in Beyond \cup {"pcr15_readback"}
  <1> DEFINE n == Successor(x.v, x.at)
             a == [x EXCEPT !.idx = @ + 1, !.pending = FALSE]
             b == [x EXCEPT !.at = n, !.idx = 0, !.pending = FALSE,
                            !.served = x.at \in ServingStates,
                            !.ext = IF x.at \in CloseStates THEN "none" ELSE @]
  <1>1. x.v \in Versions
    BY DEF Reducer
  <1>2. /\ n \in States(x.v) /\ n \in Places
        /\ n \in PostExtend => x.at \in PostExtend \cup ExtendStates
        /\ n \in PostClose => x.at \in PostClose \cup CloseStates
        /\ n \in ServingStates => x.at \in PostClose
        /\ x.v # "v3" /\ n \in Beyond => x.at \in Beyond \cup {"pcr15_readback"}
    BY <1>1, SuccessorFacts DEF Places
  <1>3. a \in Reducer /\ ~a.pending /\ a.issued = x.issued /\ a.at = x.at /\ a.v = x.v
    <2>1. x.idx + 1 \in Nat
      BY DEF Reducer
    <2> QED BY <2>1 DEF Reducer
  <1> HIDE DEF n
  <1>4. b \in Reducer /\ ~b.pending /\ b.issued = x.issued /\ b.at = n /\ b.v = x.v
    <2>1. (IF x.at \in CloseStates THEN "none" ELSE x.ext) \in Names
      BY DEF Reducer, Names
    <2>2. (x.at \in ServingStates) \in BOOLEAN
      OBVIOUS
    <2> QED BY <1>2, <2>1, <2>2 DEF Reducer
  <1>5. Moved(x) = a \/ Moved(x) = b
    BY DEF Moved, n
  <1> HIDE DEF a, b
  <1>6. CASE Moved(x) = a
    BY <1>3, <1>6, Apart DEF Placed
  <1>7. CASE Moved(x) = b
    BY <1>2, <1>4, <1>7 DEF Placed
  <1> QED BY <1>5, <1>6, <1>7

\* A step that only puts reducer e to y, which is where it was or less far, is quiet.
LEMMA OnlyEngineStep ==
  ASSUME TypeOK, NEW e \in Engines, NEW y \in Reducer, Placed(y), OnlyEngine(e, y),
         y.issued = eng[e].issued, Awaiting(y) => Awaiting(eng[e]),
         y.at \in PostExtend => eng[e].at \in PostExtend,
         y.at \in PostClose => eng[e].at \in PostClose,
         y.v = eng[e].v, y.at \in Beyond => eng[e].at \in Beyond
  PROVE  StepOf(e)
  <1>1. eng' = [eng EXCEPT ![e] = y] /\ eng'[e] = y
    BY DEF OnlyEngine, Put, TypeOK
  <1> QED BY <1>1 DEF StepOf, Quiet, Reads, OnlyEngine

\* A failure is a quiet step, whether the pending effect is dropped or kept.
LEMMA FailStep ==
  ASSUME TypeOK, NEW e \in Engines, Placed(eng[e]),
         OnlyEngine(e, Failed(eng[e])) \/ OnlyEngine(e, Failed(Drop(eng[e])))
  PROVE  StepOf(e)
  <1> DEFINE x == eng[e]
  <1>1. x \in Reducer
    BY DEF TypeOK
  <1> HIDE DEF x
  <1>2. CASE OnlyEngine(e, Failed(x))
    <2>1. Failed(x) \in Reducer /\ Placed(Failed(x)) /\ Failed(x).issued = x.issued
          /\ Failed(x).v = x.v /\ (Failed(x).at = "failed_non_serving" \/ Failed(x) = x)
      BY <1>1, FailedFacts DEF x
    <2>2. "failed_non_serving" \notin PostExtend \cup PostClose \cup ExtendStates \cup Beyond
      BY Apart DEF Dead
    <2> QED BY <1>2, <2>1, <2>2, OnlyEngineStep DEF x, Awaiting
  <1>3. CASE OnlyEngine(e, Failed(Drop(x)))
    <2> DEFINE d == Drop(x)
    <2>1. /\ d \in Reducer /\ Placed(d) /\ ~d.pending /\ d.issued = x.issued /\ d.at = x.at
          /\ d.v = x.v
      BY <1>1, DropFacts DEF x
    <2> HIDE DEF d
    <2>2. Failed(d) \in Reducer /\ Placed(Failed(d)) /\ Failed(d).issued = d.issued
          /\ Failed(d).v = d.v /\ (Failed(d).at = "failed_non_serving" \/ Failed(d) = d)
      BY <2>1, FailedFacts
    <2>3. "failed_non_serving" \notin PostExtend \cup PostClose \cup ExtendStates \cup Beyond
      BY Apart DEF Dead
    <2> QED BY <1>3, <2>1, <2>2, <2>3, OnlyEngineStep DEF x, Awaiting, d
  <1> QED BY <1>2, <1>3 DEF x

\* A move along the chain that is not the extension's: quiet, or the closing.
LEMMA MoveStep ==
  ASSUME TypeOK, NEW e \in Engines, eng[e].at \in States(eng[e].v),
         eng[e].at \notin ExtendStates, Put(e, Moved(eng[e])),
         latch' = IF eng[e].at \in CloseStates THEN "transport_closed" ELSE latch,
         eng[e].at \in CloseStates => latch \in {"acknowledged", "ambiguous"},
         eng[e].at = "pcr15_readback" => pcr = <<e>>,
         UNCHANGED <<pcr, executed>>
  PROVE  StepOf(e)
  <1> DEFINE x == eng[e]
             y == Moved(x)
  <1>1. /\ y \in Reducer /\ Placed(y) /\ ~y.pending /\ y.issued = x.issued /\ y.v = x.v
        /\ x.v # "v3" /\ y.at \in Beyond => x.at \in Beyond \cup {"pcr15_readback"}
        /\ y.at \in PostExtend => x.at \in PostExtend \cup ExtendStates
        /\ y.at \in PostClose => x.at \in PostClose \cup CloseStates
        /\ y.at \in ServingStates => x.at \in PostClose
    BY MovedFacts DEF TypeOK
  <1>2. eng' = [eng EXCEPT ![e] = y] /\ eng'[e] = y
    BY DEF Put, TypeOK
  <1> HIDE DEF x, y
  <1>3. Reads(e)
    BY <1>1, <1>2 DEF Reads, x
  <1>4. CASE x.at \in CloseStates
    <2>1. Closes(e)
      BY <1>1, <1>2, <1>4, Apart DEF Closes, x
    <2> QED BY <1>1, <1>2, <1>3, <2>1 DEF StepOf
  <1>5. CASE x.at \notin CloseStates
    <2>1. Quiet(e)
      BY <1>1, <1>2, <1>5 DEF Quiet, Awaiting, x
    <2> QED BY <1>1, <1>2, <1>3, <2>1 DEF StepOf
  <1> QED BY <1>4, <1>5

\* The claim of the latch, for the transport t or, by v3, for none yet.
LEMMA RequestStep ==
  ASSUME TypeOK, NEW e \in Engines, Placed(eng[e]), NEW t \in Names,
         eng[e].at \notin Dead, latch = "unrequested", latch' = "request_issued",
         Put(e, [eng[e] EXCEPT !.pending = TRUE, !.issued = TRUE, !.ext = t]),
         UNCHANGED <<pcr, executed>>
  PROVE  StepOf(e)
  <1> DEFINE x == eng[e]
             y == [x EXCEPT !.pending = TRUE, !.issued = TRUE, !.ext = t]
  <1>1. x \in Reducer
    BY DEF TypeOK
  <1>2. eng' = [eng EXCEPT ![e] = y] /\ eng'[e] = y
    BY DEF Put, TypeOK
  <1> HIDE DEF x
  <1>3. y \in Reducer /\ y.at = x.at /\ y.v = x.v /\ y.issued
    BY <1>1 DEF Reducer
  <1>4. Placed(y)
    BY <1>3 DEF Placed, Dead, x
  <1> HIDE DEF y
  <1> QED BY <1>2, <1>3, <1>4 DEF StepOf, Requests, Reads, x

\* next_effect.
LEMMA NextEffectStep ==
  ASSUME TypeOK, NEW e \in Engines, Placed(eng[e]), NextEffect(e)
  PROVE  StepOf(e)
  <1> DEFINE x == eng[e]
  <1>1. x \in Reducer /\ x.at \notin Dead
    BY DEF TypeOK, NextEffect, CanEmit, Dead
  <1> HIDE DEF x
  <1>2. CASE x.at \notin ExtendStates /\ OnlyEngine(e, [x EXCEPT !.pending = TRUE])
    <2> DEFINE y == [x EXCEPT !.pending = TRUE]
    <2>1. y \in Reducer /\ y.at = x.at /\ y.v = x.v /\ y.issued = x.issued
      BY <1>1 DEF Reducer
    <2>2. Placed(y) /\ ~Awaiting(y)
      BY <1>1, <1>2, <2>1 DEF Placed, Awaiting, Dead, x
    <2> HIDE DEF y
    <2> QED BY <1>2, <2>1, <2>2, OnlyEngineStep DEF x, y
  <1>3. CASE OnlyEngine(e, Failed(x))
    BY <1>3, FailStep DEF x
  <1>4. CASE /\ ~IsV1(e) /\ ClaimLatch(latch)
             /\ Put(e, [x EXCEPT !.pending = TRUE, !.issued = TRUE,
                                 !.ext = IF IsV2(e) THEN x.boot ELSE @])
             /\ latch' = "request_issued" /\ UNCHANGED <<pcr, executed, ctl>>
    <2> DEFINE t == IF IsV2(e) THEN x.boot ELSE x.ext
    <2>1. t \in Names
      BY <1>1 DEF Reducer
    <2>2. Put(e, [x EXCEPT !.pending = TRUE, !.issued = TRUE, !.ext = t])
      BY <1>1, <1>4 DEF Reducer
    <2> HIDE DEF t
    <2> QED BY <1>1, <1>4, <2>1, <2>2, RequestStep DEF x, ClaimLatch
  <1> QED BY <1>2, <1>3, <1>4 DEF NextEffect, x

\* The claim of v1 in advance.
LEMMA ClaimInAdvanceStep ==
  ASSUME TypeOK, NEW e \in Engines, Placed(eng[e]), NEW t \in Transports, ClaimInAdvance(e, t)
  PROVE  StepOf(e)
  <1>1. t \in Names /\ eng[e].at \notin Dead
    BY DEF Names, ClaimInAdvance, ExtendStates, Dead
  <1>2. CASE OnlyEngine(e, Failed(eng[e]))
    BY <1>2, FailStep
  <1>3. CASE ~OnlyEngine(e, Failed(eng[e]))
    BY <1>1, <1>3, RequestStep DEF ClaimInAdvance, ClaimLatch
  <1> QED BY <1>2, <1>3

\* The transports of v2.
LEMMA ClaimTransportsStep ==
  ASSUME TypeOK, NEW e \in Engines, Placed(eng[e]), ClaimTransports(e)
  PROVE  StepOf(e)
  <1> DEFINE x == eng[e]
             y == [x EXCEPT !.boot = "boot", !.fail = "failure"]
             z == [x EXCEPT !.act = "activation", !.at = "jit_inputs_checked"]
  <1>1. x \in Reducer /\ x.v \in {"v2", "v2jit"} /\ x.v \in Versions
    BY DEF TypeOK, ClaimTransports, IsV2, Reducer
  <1>2. {"boot", "failure", "activation"} \subseteq Names
    BY DEF Names, Transports
  <1>3. "jit_inputs_checked" \in States(x.v) /\ "jit_inputs_checked" \in Places
    BY <1>1, ChainEnds DEF Places
  <1>4. CASE x.at = "bootstrap_proc" /\ OnlyEngine(e, y)
    <2>1. y \in Reducer /\ y.at = x.at /\ y.v = x.v /\ y.issued = x.issued /\ y.pending = x.pending
      BY <1>1, <1>2 DEF Reducer
    <2> HIDE DEF x, y
    <2> QED BY <1>4, <2>1, OnlyEngineStep DEF Placed, Awaiting, x
  <1>5. CASE x.at = "serving_transport_claimed" /\ OnlyEngine(e, z)
    <2>1. z \in Reducer /\ z.at = "jit_inputs_checked" /\ z.v = x.v /\ z.issued = x.issued
      BY <1>1, <1>2, <1>3 DEF Reducer
    <2>2. Placed(z) /\ ~Awaiting(z)
      BY <1>3, <2>1 DEF Placed, Awaiting, ExtendStates
    <2>3. x.at \in PostClose /\ x.at \in PostExtend /\ x.at \in Beyond
      BY <1>5 DEF PostClose, PostExtend, Beyond
    <2> HIDE DEF x, z
    <2> QED BY <1>5, <2>1, <2>2, <2>3, OnlyEngineStep DEF x
  <1> QED BY <1>4, <1>5 DEF ClaimTransports

\* advance with another effect than the extension.
LEMMA AdvanceStep ==
  ASSUME TypeOK, NEW e \in Engines, Placed(eng[e]), NEW t, NEW r, Advance(e, t, r)
  PROVE  StepOf(e)
  <1> DEFINE x == eng[e]
  <1>1. x.at \notin ExtendStates /\ x.at \in States(x.v)
    BY DEF Advance, Placed, Dead
  <1>2. CASE OnlyEngine(e, Failed(Drop(x)))
    BY <1>2, FailStep
  <1>3. CASE ~OnlyEngine(e, Failed(Drop(x)))
    <2>1. /\ Expected(e, r) /\ Put(e, Moved(x)) /\ UNCHANGED <<pcr, executed>>
          /\ latch' = IF x.at \in CloseStates THEN "transport_closed" ELSE latch
      BY <1>3 DEF Advance
    <2> QED BY <1>1, <2>1, MoveStep DEF Expected
  <1> QED BY <1>2, <1>3

\* The extension's own step, whatever the transport reports.
LEMMA AdvanceExtendStep ==
  ASSUME TypeOK, NEW e \in Engines, Placed(eng[e]), NEW t \in Transports, NEW r,
         AdvanceExtend(e, t, r)
  PROVE  StepOf(e)
  <1> DEFINE x == eng[e]
             m == [x EXCEPT !.ext = t]
             d == Drop(x)
  <1>1. Awaiting(x) /\ x \in Reducer /\ t \in Names
    BY DEF AdvanceExtend, Awaiting, TypeOK, Names
  <1>2. CASE OnlyEngine(e, Failed(d))
    BY <1>2, FailStep
  <1>3. CASE ~OnlyEngine(e, Failed(d))
    <2>1. /\ executed' = executed + 1 /\ pcr' \in {pcr, Append(pcr, e)}
          /\ latch' \in {latch, "acknowledged", "ambiguous"}
          /\ Put(e, Moved(m)) \/ Put(e, Failed(d))
      BY <1>3 DEF AdvanceExtend
    <2>2. x.at \in States(x.v) /\ x.at \in ExtendStates
      BY <1>1, Apart DEF Awaiting, Placed
    <2>3. CASE Put(e, Moved(m))
      <3> DEFINE y == Moved(m)
      <3>1. m \in Reducer /\ m.at = x.at /\ m.v = x.v /\ m.issued = x.issued
        BY <1>1 DEF Reducer
      <3> HIDE DEF m
      <3>2. /\ y \in Reducer /\ Placed(y) /\ ~y.pending /\ y.issued = x.issued /\ y.v = x.v
            /\ y.at \in PostClose => x.at \in PostClose \cup CloseStates
            /\ x.v # "v3" /\ y.at \in Beyond => x.at \in Beyond \cup {"pcr15_readback"}
        BY <2>2, <3>1, MovedFacts
      <3>3. eng' = [eng EXCEPT ![e] = y] /\ eng'[e] = y
        BY <2>3 DEF Put, TypeOK
      <3> HIDE DEF x, y
      <3>4. y.at \notin PostClose
        BY <2>2, <3>2, Apart
      <3>5. Reads(e)
        BY <2>2, <3>2, <3>3, Apart DEF Reads, x
      <3> QED BY <1>1, <2>1, <3>2, <3>3, <3>4, <3>5 DEF StepOf, Extends, x
    <2>4. CASE Put(e, Failed(d))
      <3> DEFINE y == Failed(d)
      <3>1. /\ d \in Reducer /\ Placed(d) /\ ~d.pending /\ d.issued = x.issued
            /\ d.at = x.at /\ d.v = x.v
        BY <1>1, DropFacts
      <3> HIDE DEF d
      <3>2. y \in Reducer /\ Placed(y) /\ y.issued = d.issued /\ y.v = d.v
            /\ (y.at = "failed_non_serving" \/ y = d)
        BY <3>1, FailedFacts
      <3>3. eng' = [eng EXCEPT ![e] = y] /\ eng'[e] = y
        BY <2>4 DEF Put, TypeOK
      <3>4. y = d \/ y.at = "failed_non_serving"
        BY <3>2
      <3>5. ~y.pending
        BY <2>2, <3>1, Apart DEF Failed, d, Drop, Dead, ExtendStates, Reducer
      <3> HIDE DEF x, y
      <3>6. y.at \notin PostClose /\ y.at \notin Beyond
        BY <2>2, <3>1, <3>2, Apart DEF Dead
      <3>7. Reads(e)
        BY <3>1, <3>2, <3>3, <3>6 DEF Reads, x
      <3> QED BY <1>1, <2>1, <3>1, <3>2, <3>3, <3>5, <3>6, <3>7 DEF StepOf, Extends, x
    <2> QED BY <2>1, <2>3, <2>4
  <1> QED BY <1>2, <1>3

\* accept without a transport.
LEMMA AcceptStep ==
  ASSUME TypeOK, NEW e \in Engines, Placed(eng[e]), NEW r, Accept(e, r)
  PROVE  StepOf(e)
  <1> DEFINE x == eng[e]
             y == Moved(x)
  <1>1. x.at \in States(x.v) /\ x \in Reducer
    BY DEF Accept, Placed, Dead, TypeOK
  <1>2. CASE OnlyEngine(e, Failed(Drop(x)))
    BY <1>2, FailStep
  <1>3. CASE ~OnlyEngine(e, Failed(Drop(x)))
    <2>1. /\ Expected(e, r) /\ Put(e, Moved(x)) /\ UNCHANGED <<pcr, executed>>
          /\ x.at \in ExtendStates => x.pending
          /\ latch' = CASE x.at \in CloseStates -> "transport_closed"
                        [] x.at \in ExtendStates -> "acknowledged"
                        [] OTHER -> latch
      BY <1>3 DEF Accept
    <2>2. CloseStates \cap ExtendStates = {}
      BY DEF CloseStates, ExtendStates
    <2>3. CASE x.at \notin ExtendStates
      <3>1. latch' = IF x.at \in CloseStates THEN "transport_closed" ELSE latch
        BY <2>1, <2>3
      <3> QED BY <1>1, <2>1, <2>3, <3>1, MoveStep DEF Expected
    <2>4. CASE x.at \in ExtendStates
      <3>1. latch' = "acknowledged" /\ Awaiting(x)
        BY <2>1, <2>2, <2>4 DEF Awaiting
      <3>2. /\ y \in Reducer /\ Placed(y) /\ ~y.pending /\ y.issued = x.issued /\ y.v = x.v
            /\ y.at \in PostClose => x.at \in PostClose \cup CloseStates
            /\ x.v # "v3" /\ y.at \in Beyond => x.at \in Beyond \cup {"pcr15_readback"}
        BY <1>1, MovedFacts
      <3>3. eng' = [eng EXCEPT ![e] = y] /\ eng'[e] = y
        BY <2>1 DEF Put, TypeOK
      <3> HIDE DEF x, y
      <3>4. y.at \notin PostClose
        BY <2>4, <3>2, Apart
      <3>5. Reads(e)
        BY <2>4, <3>2, <3>3, Apart DEF Reads, x
      <3> QED BY <2>1, <3>1, <3>2, <3>3, <3>4, <3>5 DEF StepOf, Extends, x
    <2> QED BY <2>3, <2>4
  <1> QED BY <1>2, <1>3

\* A failed reducer tells, closes and powers off, or drops what it had pending.
LEMMA FailureProtocolStep ==
  ASSUME TypeOK, NEW e \in Engines, Placed(eng[e]), NEW t,
         AcknowledgeFailure(e, t) \/ DropStaleExtend(e)
  PROVE  StepOf(e)
  <1> DEFINE x == eng[e]
             next == CASE x.kind = "diagnostic" -> "close_serving_network"
                       [] x.kind = "close_serving_network" -> "poweroff"
                       [] x.kind = "poweroff" -> "none"
             there == IF IsV2(e) /\ next = "none" THEN "poweroff" ELSE x.at
             y == [x EXCEPT !.kind = next, !.at = there]
  <1>1. x \in Reducer
    BY DEF TypeOK
  <1>2. CASE DropStaleExtend(e)
    <2>1. Drop(x) \in Reducer /\ Placed(Drop(x)) /\ ~Drop(x).pending
          /\ Drop(x).issued = x.issued /\ Drop(x).at = x.at /\ Drop(x).v = x.v
      BY <1>1, DropFacts
    <2> QED BY <1>2, <2>1, OnlyEngineStep DEF DropStaleExtend, Awaiting
  <1>3. CASE AcknowledgeFailure(e, t)
    <2>1. /\ x.at = "failed_non_serving" /\ ~x.pending /\ x.kind # "none"
          /\ OnlyEngine(e, [x EXCEPT !.kind = next,
                                     !.at = IF IsV2(e) /\ next = "none" THEN "poweroff" ELSE @])
      BY <1>3 DEF AcknowledgeFailure
    <2>2. next \in Kinds /\ there \in Dead /\ there \in Places
      BY <1>1, <2>1 DEF Reducer, Kinds, Dead, Places
    <2>3. OnlyEngine(e, y)
      BY <1>1, <2>1 DEF Reducer
    <2> HIDE DEF next, there
    <2>4. /\ y \in Reducer /\ y.at = there /\ y.v = x.v /\ y.issued = x.issued
          /\ y.pending = x.pending
      BY <1>1, <2>2 DEF Reducer
    <2> HIDE DEF y
    <2>5. there \notin PostExtend \cup PostClose \cup ExtendStates \cup Beyond
      BY <2>2, Apart
    <2>6. Placed(y) /\ ~Awaiting(y)
      BY <2>1, <2>2, <2>4, <2>5 DEF Placed, Awaiting
    <2> HIDE DEF x
    <2> QED BY <2>3, <2>4, <2>5, <2>6, OnlyEngineStep DEF x
  <1> QED BY <1>2, <1>3

\* Every step is one of a reducer, or of the failure controller, which leaves all of
\* them alone.
LEMMA StepKinds ==
  ASSUME TypeOK, \A e \in Engines : Placed(eng[e]), Next
  PROVE  (\E e \in Engines : StepOf(e)) \/ UNCHANGED <<eng, latch, pcr, executed>>
  <1>1. ASSUME NEW e \in Engines, NextEffect(e) PROVE StepOf(e)
    BY <1>1, NextEffectStep
  <1>2. ASSUME NEW e \in Engines, ClaimTransports(e) PROVE StepOf(e)
    BY <1>2, ClaimTransportsStep
  <1>3. ASSUME NEW e \in Engines, DropStaleExtend(e) PROVE StepOf(e)
    BY <1>3, FailureProtocolStep
  <1>4. ASSUME NEW e \in Engines, NEW t \in Transports, ClaimInAdvance(e, t) PROVE StepOf(e)
    BY <1>4, ClaimInAdvanceStep
  <1>5. ASSUME NEW e \in Engines, NEW t \in Transports, AcknowledgeFailure(e, t)
        PROVE StepOf(e)
    BY <1>5, FailureProtocolStep
  <1>6. ASSUME NEW e \in Engines, NEW t \in Transports, NEW r, Advance(e, t, r)
        PROVE StepOf(e)
    BY <1>6, AdvanceStep
  <1>7. ASSUME NEW e \in Engines, NEW t \in Transports, NEW r, AdvanceExtend(e, t, r)
        PROVE StepOf(e)
    BY <1>7, AdvanceExtendStep
  <1>8. ASSUME NEW e \in Engines, NEW r, Accept(e, r) PROVE StepOf(e)
    BY <1>8, AcceptStep
  <1>9. ASSUME NEW e \in Engines, NEW r, ServingAction(e, r) PROVE StepOf(e)
    BY <1>9, FailStep DEF ServingAction
  <1>10. ASSUME RenderDiagnostic \/ DispatchPoweroff
                \/ \E confirmed \in BOOLEAN : AttemptNetworkClose(confirmed)
         PROVE UNCHANGED <<eng, latch, pcr, executed>>
    BY <1>10 DEF RenderDiagnostic, DispatchPoweroff, AttemptNetworkClose, ControllerStep
  <1> QED BY <1>1, <1>2, <1>3, <1>4, <1>5, <1>6, <1>7, <1>8, <1>9, <1>10 DEF Next

-----------------------------------------------------------------------------
(* The theorems.                                                             *)

\* The four kinds of steps keep the invariant.
LEMMA StepKeepsIInv ==
  ASSUME IInv, NEW e \in Engines, StepOf(e)
  PROVE  IInv'
  <1>1. /\ eng' \in [Engines -> Reducer] /\ eng'[e] \in Reducer
        /\ \A f \in Engines \ {e} : eng'[f] = eng[f]
    BY DEF StepOf, IInv, TypeOK
  <1>2. \A f \in Engines : Placed(eng[f])'
    BY <1>1 DEF IInv, StepOf, Placed
  <1>3. ReadBackIsOwn'
    <2> SUFFICES ASSUME NEW f \in Engines, eng'[f].v # "v3", eng'[f].at \in Beyond
                 PROVE  pcr' = <<f>>
      BY DEF ReadBackIsOwn, IsV3
    <2>1. eng[f].v = eng'[f].v /\ (f # e => eng'[f] = eng[f])
      BY <1>1 DEF StepOf, Reads
    <2>2. pcr = <<f>>
      BY <2>1 DEF IInv, ReadBackIsOwn, IsV3, StepOf, Reads
    <2>3. ~Extends(e)
      BY <2>2 DEF Extends, IInv
    <2> QED BY <2>2, <2>3 DEF StepOf, Quiet, Requests, Closes
  <1>4. CASE Quiet(e)
    BY <1>1, <1>2, <1>3, <1>4 DEF IInv, TypeOK, Quiet, Awaiting, ExtendedOnce
  <1>5. CASE Requests(e)
    BY <1>1, <1>2, <1>3, <1>5 DEF IInv, TypeOK, Requests, Awaiting, ExtendedOnce, LatchStates
  <1>6. CASE Extends(e)
    BY <1>1, <1>2, <1>3, <1>6 DEF IInv, TypeOK, Extends, Awaiting, ExtendedOnce, LatchStates
  <1>7. CASE Closes(e)
    <2>1. eng[e].issued
      BY <1>7, Apart DEF Closes, IInv
    <2> QED BY <1>1, <1>2, <1>3, <1>7, <2>1
         DEF IInv, TypeOK, Closes, Awaiting, ExtendedOnce, LatchStates
  <1> QED BY <1>4, <1>5, <1>6, <1>7 DEF StepOf

\* The reducers start on their chains, before the extension, with nothing issued.
LEMMA InitIInv == Init => IInv
  <1> SUFFICES ASSUME Init PROVE IInv
    OBVIOUS
  <1>1. PICK ver \in [Engines -> Versions] : eng = [e \in Engines |-> NewEngine(ver[e])]
    BY DEF Init
  <1>2. ASSUME NEW v \in Versions
        PROVE  /\ NewEngine(v) \in Reducer /\ Placed(NewEngine(v)) /\ ~NewEngine(v).issued
               /\ ~NewEngine(v).pending /\ NewEngine(v).at \notin PostExtend
    <2>1. Chain(v)[1] \in States(v) /\ Chain(v)[1] \in Places /\ Chain(v)[1] \notin PostExtend
      BY ChainEnds DEF Places
    <2>2. "none" \in Names /\ "none" \in Kinds
      BY DEF Names, Kinds
    <2> QED BY <2>1, <2>2 DEF NewEngine, Reducer, Placed
  <1>3. \A e \in Engines : eng[e] = NewEngine(ver[e]) /\ ver[e] \in Versions
    BY <1>1
  <1>4. eng \in [Engines -> Reducer]
    BY <1>1, <1>2
  <1> QED BY <1>2, <1>3, <1>4, Apart
       DEF Init, IInv, TypeOK, LatchStates, Awaiting, ExtendedOnce, ReadBackIsOwn

\* IInv is inductive: every reducer is on its chain, one engine at most has been issued
\* the extension, and none is beyond a point of its chain whose latch is not set.
THEOREM BootInvariance == Spec => []IInv
  <1>1. IInv /\ [Next]_vars => IInv'
    <2> SUFFICES ASSUME IInv, [Next]_vars PROVE IInv'
      OBVIOUS
    <2>1. CASE UNCHANGED <<eng, latch, pcr, executed>>
      BY <2>1 DEF IInv, TypeOK, Placed, Awaiting, ExtendedOnce, ReadBackIsOwn, IsV3
    <2>2. CASE \E e \in Engines : StepOf(e)
      BY <2>2, StepKeepsIInv
    <2>3. CASE Next
      BY <2>1, <2>2, <2>3, StepKinds DEF IInv
    <2>4. CASE UNCHANGED vars
      BY <2>1, <2>4 DEF vars
    <2> QED BY <2>3, <2>4
  <1> QED BY InitIInv, <1>1, PTL DEF Spec

\* The process executes one extension of PCR 15, however many reducers of whichever
\* versions run in it (_claim_extend_transport and the latch of conf_proc_spp_boot.py),
\* and a reducer of v1 or v2 that serves has read back its own measurement and no other,
\* also after an extension whose outcome was ambiguous.
THEOREM OneExtension == Spec => []MeasuredOnce
  <1>1. IInv => MeasuredOnce
    BY Apart DEF IInv, MeasuredOnce, ReadBackIsOwn, ServingIsMeasured
  <1> QED BY BootInvariance, <1>1, PTL

\* A step of a reducer is a step of the permit, or changes nothing of it.
LEMMA StepImplements ==
  ASSUME IInv, IInv', NEW e \in Engines, StepOf(e)
  PROVE  [Permit!Next]_(Permit!vars)
  <1> DEFINE ph == IF latch \in {"acknowledged", "ambiguous"} THEN "resolved" ELSE latch
             ow == {f \in Engines : eng[f].issued}
             sv == {f \in Engines : eng[f].at \in ServingStates}
  <1>1. \A f \in Engines \ {e} : eng'[f] = eng[f]
    BY DEF StepOf, IInv, TypeOK
  <1>2. sv # {} => ph = "transport_closed" /\ sv = ow
    BY Apart DEF IInv
  <1>3. sv' # {} => ph' = "transport_closed" /\ sv' = ow'
    BY Apart DEF IInv
  <1>4. CASE ow' = ow /\ ph' = ph
    <2>1. CASE sv' = {}
      BY <1>4, <2>1 DEF Permit!Next, Permit!Stop
    <2>2. CASE sv' # {}
      BY <1>3, <1>4, <2>2 DEF Permit!Next, Permit!Serve
    <2> QED BY <2>1, <2>2
  <1>5. CASE Quiet(e)
    <2>1. ow' = ow /\ ph' = ph
      BY <1>1, <1>5 DEF Quiet
    <2> QED BY <1>4, <2>1
  <1>6. CASE Requests(e)
    <2>1. ph = "unrequested" /\ ph' = "request_issued" /\ ow' = {e}
      BY <1>1, <1>6 DEF Requests, IInv
    <2>2. sv = {} /\ sv' = {}
      BY <1>2, <1>3, <2>1
    <2> HIDE DEF ph, ow, sv
    <2> QED BY <2>1, <2>2 DEF Permit!Next, Permit!Request, ph, ow, sv
  <1>7. CASE Extends(e)
    <2>1. ow' = ow /\ ph = "request_issued" /\ ph' \in {"request_issued", "resolved"}
      BY <1>1, <1>7 DEF Extends, IInv
    <2>2. sv = {} /\ sv' = {}
      BY <1>2, <1>3, <2>1
    <2> QED BY <1>4, <2>1, <2>2 DEF Permit!Next, Permit!Resolve
  <1>8. CASE Closes(e)
    <2>1. ow' = ow /\ ph = "resolved" /\ ph' = "transport_closed"
      BY <1>1, <1>8 DEF Closes
    <2>2. sv = {}
      BY <1>2, <2>1
    <2>3. sv' = {}
      BY <1>1, <1>8, <2>2 DEF Closes
    <2> QED BY <2>1, <2>2, <2>3 DEF Permit!Next, Permit!CloseTransport
  <1> QED BY <1>5, <1>6, <1>7, <1>8 DEF StepOf

\* The reducers of a process, of all versions, implement BootPermit: one engine is
\* given the extension, and only that one, after its outcome is known and its transport
\* closed, comes to serve (BootTransitionEngine, ...V2, ...V3).
THEOREM ReducersImplementPermit == Spec => PermitSpec
  <1>1. Init => Permit!Init
    <2> SUFFICES ASSUME Init PROVE Permit!Init
      OBVIOUS
    <2>1. IInv
      BY InitIInv
    <2> QED BY <2>1, Apart DEF Init, IInv, Permit!Init
  <1>2. IInv /\ IInv' /\ [Next]_vars => [Permit!Next]_(Permit!vars)
    <2> SUFFICES ASSUME IInv, IInv', [Next]_vars PROVE [Permit!Next]_(Permit!vars)
      OBVIOUS
    <2>1. CASE UNCHANGED <<eng, latch, pcr, executed>>
      BY <2>1 DEF Permit!vars
    <2>2. CASE \E e \in Engines : StepOf(e)
      BY <2>2, StepImplements
    <2>3. CASE Next
      BY <2>1, <2>2, <2>3, StepKinds DEF IInv
    <2>4. CASE UNCHANGED vars
      BY <2>1, <2>4 DEF vars
    <2> QED BY <2>3, <2>4
  <1> QED BY BootInvariance, <1>1, <1>2, PTL DEF Spec, PermitSpec, Permit!Spec
=============================================================================
