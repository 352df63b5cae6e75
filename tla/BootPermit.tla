----------------------------- MODULE BootPermit -----------------------------
(* What the boot reducers promise together: in one process PCR 15 is        *)
(* extended for one engine, and only that engine, once the extension has an *)
(* outcome and its transport is closed, comes to serve.                     *)

CONSTANT Engines
VARIABLES phase, owner, serving

vars == <<phase, owner, serving>>

Init == phase = "unrequested" /\ owner = {} /\ serving = {}

Request(e) ==
    /\ phase = "unrequested" /\ phase' = "request_issued"
    /\ owner' = {e} /\ UNCHANGED serving

Resolve == phase = "request_issued" /\ phase' = "resolved" /\ UNCHANGED <<owner, serving>>

CloseTransport == phase = "resolved" /\ phase' = "transport_closed" /\ UNCHANGED <<owner, serving>>

Serve == phase = "transport_closed" /\ serving' = owner /\ UNCHANGED <<phase, owner>>

Stop == serving' = {} /\ UNCHANGED <<phase, owner>>

Next == (\E e \in Engines : Request(e)) \/ Resolve \/ CloseTransport \/ Serve \/ Stop

Spec == Init /\ [][Next]_vars
=============================================================================
