----------------------------- MODULE BootChain -----------------------------
(***************************************************************************)
(* The boot reducers v1, v2 and v3 (BootTransitionEngine of                *)
(* conf_proc_spp_boot.py, BootTransitionEngineV2, BootTransitionEngineV3),  *)
(* several of which may live in one process and share its PCR-15 latch, and *)
(* FailureControllerV3.  A reducer emits the one effect of its state, a     *)
(* transport executes it, and the observation moves the state on or fails   *)
(* the boot.  What an observation must contain is abstracted to "good" and  *)
(* "bad"; PCR 15 is kept, as the sequence of the engines that extended it.  *)
(***************************************************************************)
EXTENDS Naturals, Sequences

CONSTANTS Engines,      \* the reducers constructed in this process
          Versions,     \* the versions they may be
          NItems        \* controls to close, and tmpfs roots to create

ASSUME VersionsAssumption == Versions \subseteq {"v1", "v2", "v2jit", "v3"}

Transports == {"boot", "failure", "activation", "other"}

VARIABLES eng,          \* the reducers
          latch,        \* _PCR_EXTEND_LATCH_STATE
          pcr,          \* PCR 15 of the TPM
          executed,     \* history: extend effects a transport executed
          ctl           \* FailureControllerV3

vars == <<eng, latch, pcr, executed, ctl>>

V1Chain ==
    <<"cmdline", "pcr15_zero", "disk_locators", "runtime_map", "runtime_verify",
      "runtime_mapping_identity", "models_map", "models_verify", "models_mapping_identity",
      "runtime_mount", "runtime_executable_confinement", "models_mount", "mutable_roots", "tmpfs",
      "modules", "modules_disabled", "mutable_controls", "pcr15_extend", "pcr15_readback",
      "transport_closed", "serving_ready", "serving">>

V2Chain(jit) ==
    <<"bootstrap_proc", "bootstrap_sysfs", "bootstrap_devtmpfs", "bootstrap_run",
      "initial_network_apply", "initial_network_readback", "cmdline", "pcr15_zero", "disk_locators",
      "runtime_map", "runtime_verify", "runtime_mapping_identity", "models_map", "models_verify",
      "models_mapping_identity", "runtime_mount", "runtime_executable_confinement", "models_mount",
      "mutable_roots_pre", "tmpfs_create", "mutable_roots_post", "modules", "modules_disabled",
      "mutable_control", "pcr15_extend", "pcr15_readback", "boot_transport_closed",
      "serving_transport_claimed", "jit_inputs_checked">>
    \o (IF jit THEN <<"jit_prepare", "jit_outputs_checked">> ELSE <<"jit_disabled">>) \o
    <<"serving_network_apply", "serving_network_readback", "listener_create", "listener_bind",
      "service_start", "serving_ready", "network_activate", "serving_available">>

V3Chain ==
    <<"pid1_identity_established", "adapter_constructed", "bootstrap_mounted",
      "network_preflight_started", "nic_census_established", "early_modules_loaded",
      "nic_census_revalidated", "network_deny_installed", "cmdline_sealed", "pcr15_zero_confirmed",
      "disk_identified", "root_model_verity_mapped", "root_model_mounted", "c1_census_established",
      "final_run_created", "c2_census_established", "later_modules_loaded", "modules_disabled",
      "mutable_controls_enforced", "pcr15_extended", "tpm_boot_transport_closed",
      "device_monitor_sealed", "dev_tree_pruned", "device_monitor_reconciled",
      "securityfs_unmounted", "kernel_interfaces_moved", "c3_census_established", "handoff_sealed",
      "switch_root_completed", "stage2_admitted", "post_root_runtime_sealed",
      "launch_supervision_ready", "serving_available">>

Chain(v) == CASE v = "v1" -> V1Chain [] v = "v2" -> V2Chain(FALSE) []
                 v = "v2jit" -> V2Chain(TRUE) [] v = "v3" -> V3Chain

Successor(v, s) ==
    LET i == CHOOSE j \in 1..Len(Chain(v)) : Chain(v)[j] = s IN
    IF i < Len(Chain(v)) THEN Chain(v)[i + 1] ELSE s

ZeroStates == {"pcr15_zero", "pcr15_zero_confirmed"}
ExtendStates == {"pcr15_extend", "pcr15_extended"}
CloseStates == {"transport_closed", "boot_transport_closed", "tpm_boot_transport_closed"}
ServingStates == {"serving", "serving_available"}
RepeatedStates == {"mutable_controls", "mutable_control", "tmpfs_create"}

NewEngine(v) ==
    [v |-> v, at |-> Chain(v)[1], pending |-> FALSE, issued |-> FALSE, ext |-> "none",
     boot |-> "none", fail |-> "none", act |-> "none", idx |-> 0, kind |-> "none", served |-> FALSE]

Init ==
    /\ \E ver \in [Engines -> Versions] : eng = [e \in Engines |-> NewEngine(ver[e])]
    /\ latch = "unrequested" /\ pcr = <<>> /\ executed = 0
    /\ ctl = [stage |-> "diagnostic", attempts |-> 0, late |-> "none", poweroffs |-> 0]

IsV1(e) == eng[e].v = "v1"
IsV2(e) == eng[e].v \in {"v2", "v2jit"}
IsV3(e) == eng[e].v = "v3"

-----------------------------------------------------------------------------
(* _fail of v1 keeps a pending effect, the others drop it; v2 no longer      *)
(* fails once it serves.                                                    *)
Failed(x) ==
    CASE x.at \in {"failed_non_serving", "poweroff"} -> x
      [] x.v = "v1" -> [x EXCEPT !.at = "failed_non_serving", !.ext = "none", !.kind = "diagnostic"]
      [] x.v = "v3" -> [x EXCEPT !.at = "failed_non_serving", !.pending = FALSE]
      [] OTHER -> IF x.at \in ServingStates THEN x
                  ELSE [x EXCEPT !.at = "failed_non_serving", !.pending = FALSE,
                                 !.kind = "diagnostic"]

Drop(x) == [x EXCEPT !.pending = FALSE]
Put(e, x) == eng' = [eng EXCEPT ![e] = x]
OnlyEngine(e, x) == Put(e, x) /\ UNCHANGED <<latch, pcr, executed, ctl>>

(* The last serving step of v3 stays in its state.                          *)
Moved(x) ==
    IF x.at \in RepeatedStates /\ x.idx + 1 < NItems
    THEN [x EXCEPT !.idx = @ + 1, !.pending = FALSE]
    ELSE [x EXCEPT !.at = Successor(x.v, @), !.idx = 0, !.pending = FALSE,
                   !.served = x.at \in ServingStates,
                   !.ext = IF x.at \in CloseStates THEN "none" ELSE @]

ClaimLatchUnchecked(l) == TRUE

(* _claim_extend_transport                                                  *)
ClaimLatch(l) == l = "unrequested"

(* v2 needs its transports before it emits anything.                        *)
Ready(e) ==
    IsV2(e) => eng[e].boot # "none" /\ eng[e].at # "serving_transport_claimed"

CanEmit(e) ==
    /\ ~eng[e].pending /\ Ready(e)
    /\ eng[e].at \notin {"failed_non_serving", "poweroff"}
    /\ eng[e].at \in ServingStates => IsV3(e) /\ ~eng[e].served

(* next_effect: the effect of the state; for the extension v1 refuses here,  *)
(* v2 and v3 claim the latch of the process.                                *)
NextEffect(e) ==
    LET x == eng[e] IN
    /\ CanEmit(e)
    /\ \/ /\ x.at \notin ExtendStates
          /\ OnlyEngine(e, [x EXCEPT !.pending = TRUE])
       \/ /\ x.at \in ExtendStates /\ (IsV1(e) \/ ~ClaimLatch(latch))
          /\ OnlyEngine(e, Failed(x))
       \/ /\ x.at \in ExtendStates /\ ~IsV1(e) /\ ClaimLatch(latch)
          /\ Put(e, [x EXCEPT !.pending = TRUE, !.issued = TRUE,
                              !.ext = IF IsV2(e) THEN x.boot ELSE @])
          /\ latch' = "request_issued"
          /\ UNCHANGED <<pcr, executed, ctl>>

(* v1 claims the latch in advance, for the transport it is given.           *)
ClaimInAdvance(e, t) ==
    LET x == eng[e] IN
    /\ IsV1(e) /\ x.at \in ExtendStates /\ ~x.pending
    /\ \/ /\ ClaimLatch(latch)
          /\ Put(e, [x EXCEPT !.pending = TRUE, !.issued = TRUE, !.ext = t])
          /\ latch' = "request_issued"
          /\ UNCHANGED <<pcr, executed, ctl>>
       \/ /\ ~ClaimLatch(latch)
          /\ OnlyEngine(e, Failed(x))

(* claim_boot_transports and claim_activation_transport of v2.              *)
ClaimTransports(e) ==
    /\ IsV2(e)
    /\ \/ /\ eng[e].at = "bootstrap_proc" /\ eng[e].boot = "none"
          /\ OnlyEngine(e, [eng[e] EXCEPT !.boot = "boot", !.fail = "failure"])
       \/ /\ eng[e].at = "serving_transport_claimed"
          /\ OnlyEngine(e, [eng[e] EXCEPT !.act = "activation", !.at = "jit_inputs_checked"])

BeforeClosure(x) == x.act = "none"

(* The transport an effect must be executed with.                           *)
WrongTransport(e, t) ==
    LET x == eng[e] IN
    CASE IsV2(e) -> t # (IF BeforeClosure(x) THEN x.boot ELSE x.act)
      [] IsV1(e) -> x.at \in ExtendStates \cup CloseStates \cup {"pcr15_readback"} /\ t # x.ext
      [] IsV3(e) -> \/ x.at \in ExtendStates /\ x.ext # "none" /\ t # x.ext
                    \/ x.at \in CloseStates /\ t # x.ext

(* A bug: an acknowledged extension is not read back.                       *)
ExpectedUnread(e, r) ==
    /\ r = "good"
    /\ eng[e].at \in ZeroStates => pcr = <<>>
    /\ eng[e].at \in CloseStates => latch \in {"acknowledged", "ambiguous"}

(* Whether the observation is the expected one; a PCR is read as it is.     *)
Expected(e, r) ==
    LET x == eng[e] IN
    /\ r = "good"
    /\ x.at \in ZeroStates => pcr = <<>>
    /\ x.at = "pcr15_readback" => pcr = <<e>>
    /\ x.at \in CloseStates => latch \in {"acknowledged", "ambiguous"}

(* advance with the pending effect: transport, execution, accept.           *)
Advance(e, t, r) ==
    LET x == eng[e] IN
    /\ x.pending /\ x.at \notin {"failed_non_serving"} \cup ExtendStates
    /\ IF WrongTransport(e, t) \/ ~Expected(e, r)
       THEN OnlyEngine(e, Failed(Drop(x)))
       ELSE /\ Put(e, Moved(x))
            /\ latch' = IF x.at \in CloseStates THEN "transport_closed" ELSE latch
            /\ UNCHANGED <<pcr, executed, ctl>>

(* The extension: whatever the transport reports, the TPM may have done it;  *)
(* an exception is an ambiguous outcome to v1 and v3, a failure to v2.      *)
AdvanceExtend(e, t, r) ==
    LET x == eng[e]
        accepted == r \in {"good", "timeout"} \/ (r = "raise" /\ ~IsV2(e)) IN
    /\ x.pending /\ x.at \in ExtendStates
    /\ IF WrongTransport(e, t)
       THEN OnlyEngine(e, Failed(Drop(x)))
       ELSE /\ executed' = executed + 1
            /\ pcr' \in {Append(pcr, e)} \cup (IF r = "good" THEN {} ELSE {pcr})
            /\ Put(e, IF accepted THEN Moved([x EXCEPT !.ext = t]) ELSE Failed(Drop(x)))
            /\ latch' = IF ~accepted THEN latch
                        ELSE IF r = "good" THEN "acknowledged" ELSE "ambiguous"
            /\ UNCHANGED ctl

(* An observation given to accept without a transport (v3 has claimed none   *)
(* yet if only next_effect was called); without a pending effect it fails.  *)
Accept(e, r) ==
    LET x == eng[e] IN
    /\ x.at \notin {"failed_non_serving", "poweroff"}
    /\ IsV1(e) => CanEmit(e) \/ x.pending
    /\ IF \/ ~x.pending /\ (~IsV1(e) \/ x.at \in ExtendStates)
          \/ ~Expected(e, r)
          \/ x.at \in ExtendStates /\ (~x.issued \/ x.ext = "none")
          \/ IsV3(e) /\ x.at \in CloseStates /\ x.ext = "none"
       THEN OnlyEngine(e, Failed(Drop(x)))
       ELSE /\ Put(e, Moved(x))
            /\ latch' = CASE x.at \in CloseStates -> "transport_closed"
                          [] x.at \in ExtendStates -> "acknowledged"
                          [] OTHER -> latch
            /\ UNCHANGED <<pcr, executed, ctl>>

(* invoke_serving_action of v1: outside SERVING it fails the boot, and so    *)
(* does an action that is not observed as completed.                        *)
ServingAction(e, r) ==
    /\ IsV1(e)
    /\ eng[e].at \in ServingStates => r # "good"
    /\ OnlyEngine(e, Failed(eng[e]))

(* The failure protocol of v1 and v2; v2 takes only its failure transport.   *)
AcknowledgeFailure(e, t) ==
    LET x == eng[e]
        next == CASE x.kind = "diagnostic" -> "close_serving_network"
                  [] x.kind = "close_serving_network" -> "poweroff"
                  [] x.kind = "poweroff" -> "none" IN
    /\ x.at = "failed_non_serving" /\ ~x.pending /\ x.kind # "none"
    /\ IsV2(e) => t = x.fail
    /\ OnlyEngine(e, [x EXCEPT !.kind = next,
                               !.at = IF IsV2(e) /\ next = "none" THEN "poweroff" ELSE @])

(* A v1 engine failed by a serving action keeps its pending effect, and goes *)
(* on with it; only an extension, whose transport is gone, is dropped.       *)
DropStaleExtend(e) ==
    /\ IsV1(e) /\ eng[e].at = "failed_non_serving" /\ eng[e].pending
    /\ eng[e].issued /\ latch = "request_issued"
    /\ OnlyEngine(e, Drop(eng[e]))

-----------------------------------------------------------------------------
(* FailureControllerV3, which PID 1 runs after a failure of v3.              *)
Failing == \E e \in Engines : IsV3(e) /\ eng[e].at = "failed_non_serving"
ControllerStep(c) == Failing /\ ctl' = c /\ UNCHANGED <<eng, latch, pcr, executed>>

RenderDiagnostic ==
    /\ ctl.stage = "diagnostic"
    /\ ControllerStep([ctl EXCEPT !.stage = "close_serving_network"])

CloseAttempts == 3

AttemptNetworkClose(confirmed) ==
    /\ ctl.stage = "close_serving_network"
    /\ ControllerStep([ctl EXCEPT !.attempts = @ + 1,
                              !.late = IF confirmed THEN @ ELSE "network_close",
                              !.stage = IF ctl.attempts + 1 = CloseAttempts
                                        THEN "poweroff_requested" ELSE @])

(* dispatch_poweroff, and the fail-stop cycle: a poweroff that returns is a  *)
(* failure to be repeated.                                                  *)
DispatchPoweroff ==
    /\ ctl.stage \in {"poweroff_requested", "fail_stop"}
    /\ ControllerStep([ctl EXCEPT !.late = "poweroff_returned", !.stage = "fail_stop",
                              !.poweroffs = IF @ < 2 THEN @ + 1 ELSE @])

Next ==
    \/ \E e \in Engines :
         \/ NextEffect(e) \/ ClaimTransports(e) \/ DropStaleExtend(e)
         \/ \E t \in Transports : \/ ClaimInAdvance(e, t) \/ AcknowledgeFailure(e, t)
                                  \/ \E r \in {"good", "bad"} : Advance(e, t, r)
                                  \/ \E r \in {"good", "bad", "raise", "timeout"} : AdvanceExtend(e, t, r)
         \/ \E r \in {"good", "bad"} : Accept(e, r) \/ ServingAction(e, r)
    \/ RenderDiagnostic \/ DispatchPoweroff
    \/ \E confirmed \in BOOLEAN : AttemptNetworkClose(confirmed)

Spec == Init /\ [][Next]_vars

-----------------------------------------------------------------------------
(* The process issues one PCR-15 extension, however many reducers of which   *)
(* versions run in it and however they fail (boot.py, 1285-1320).            *)
ExtendedOnce == executed <= 1 /\ Len(pcr) <= 1

(* An engine of v1 or v2 that serves has read back the PCR its own           *)
(* measurement predicts, even when the extension timed out or raised, and a  *)
(* second engine cannot take its place (boot.py, 1381-1416, 1586-1594).      *)
ServingIsMeasured ==
    \A e \in Engines : ~IsV3(e) /\ eng[e].at \in ServingStates => pcr = <<e>>

(* One extension of PCR 15 in a process, whatever reducers run in it, and an *)
(* engine of v1 or v2 that serves has read back what its own measurement     *)
(* predicts (_claim_extend_transport, the readback after an ambiguous        *)
(* extension).                                                               *)
MeasuredOnce == ExtendedOnce /\ ServingIsMeasured

(* The same of v3.                                                           *)
ServingIsMeasuredV3 ==
    \A e \in Engines : IsV3(e) /\ eng[e].at \in ServingStates => pcr = <<e>>

(* The reducers of a process implement the permit: one engine extends, its   *)
(* outcome is known, its transport closed, and only then that engine serves. *)
Permit == INSTANCE BootPermit WITH
    phase <- IF latch \in {"acknowledged", "ambiguous"} THEN "resolved" ELSE latch,
    owner <- {e \in Engines : eng[e].issued},
    serving <- {e \in Engines : eng[e].at \in ServingStates}

PermitSpec == Permit!Spec
=============================================================================
