--------------------------- MODULE ServingAdmission ---------------------------
(***************************************************************************)
(* Admission and revocation of the v3 serving authority, by several        *)
(* threads of PID 1 (conf_proc_spp_boot_v3.py, ..._boot_v3_resource.py).   *)
(*                                                                         *)
(* One binding and the engine that claimed it.  A thread runs one public   *)
(* call at a time; a step of the model is what the code does between two   *)
(* points where another thread can run, so the registry lock and the       *)
(* capability and cleanup conditions, which are never held while waiting   *)
(* for something else, do not appear.  The launch transition lock and the  *)
(* wrapper's operation lock do: they are held across calls.  The stack of  *)
(* a thread holds the labels that its calls return to.                     *)
(*                                                                         *)
(* A capability constructs at most one wrapper, so one index stands for    *)
(* both.  `writable' says whether anything can change the bytes of the     *)
(* binding in this behaviour; the code never does, and detects it.         *)
(***************************************************************************)
EXTENDS Naturals, Sequences, FiniteSets

CONSTANTS Threads,    \* the threads of PID 1 that call the engine
          MaxCaps,    \* bound: admission capabilities minted
          MaxOps,     \* bound: public calls one thread makes
          NRoles      \* len(LaunchReadinessBarrierV3._ROLE_ORDER)

Nil == 0
Caps == 1..MaxCaps

VARIABLES eng,        \* state, _serving_authority, eligibility and barrier of the engine
          reg,        \* the binding's registry record, and the capabilities minted
          changed,    \* the binding's bytes differ from the fingerprint
          writable,   \* TRUE where something may change them
          cap,        \* ServingAdmissionCapabilityV3
          wr,         \* ServingAuthorityWrapperV3
          launch,     \* owner of the launch transition lock
          oplock,     \* owners of the wrappers' operation locks
          pc, stk,    \* label and return labels of each thread
          cur,        \* the capability a thread works on
          tgt,        \* what its cleanup works on: wrapper and mismatch flag
          exc,        \* the call that returned raised
          ops         \* public calls made

vars == <<eng, reg, changed, writable, cap, wr, launch, oplock, pc, stk, cur, tgt, exc, ops>>
auth == <<eng, reg, changed, writable, cap, wr>>     \* all but the threads and locks
thr  == <<pc, stk, cur, tgt, exc, ops>>

NewCap == [phase |-> "none", owner |-> Nil, retOwner |-> Nil,
           con |-> FALSE, pub |-> FALSE, retired |-> FALSE]
NewWrapper == [made |-> "no", builder |-> Nil, cancelled |-> FALSE, phase |-> "active",
               owner |-> Nil, mismatch |-> FALSE, err |-> FALSE, sessions |-> 0, revokes |-> 0]

Init ==
    /\ eng = [st |-> "serving", auth |-> Nil, eligible |-> FALSE,
              bar |-> [st |-> "none", idx |-> 0, probe |-> FALSE]]
    /\ reg = [live |-> TRUE, cap |-> Nil, minted |-> 0]
    /\ changed = FALSE
    /\ writable \in BOOLEAN
    /\ cap = [c \in Caps |-> NewCap]
    /\ wr = [c \in Caps |-> NewWrapper]
    /\ launch = Nil
    /\ oplock = [c \in Caps |-> Nil]
    /\ pc = [t \in Threads |-> "idle"]
    /\ stk = [t \in Threads |-> <<>>]
    /\ cur = [t \in Threads |-> Nil]
    /\ tgt = [t \in Threads |-> [w |-> Nil, mm |-> FALSE]]
    /\ exc = [t \in Threads |-> FALSE]
    /\ ops = [t \in Threads |-> 0]

-----------------------------------------------------------------------------
(* Control of a thread.                                                    *)

Goto(t, l) == pc' = [pc EXCEPT ![t] = l] /\ UNCHANGED <<stk, exc>>

Call(t, l, ret) ==
    /\ pc' = [pc EXCEPT ![t] = l]
    /\ stk' = [stk EXCEPT ![t] = <<ret>> \o @]
    /\ UNCHANGED exc

Return(t, raised) ==
    /\ pc' = [pc EXCEPT ![t] = Head(stk[t])]
    /\ stk' = [stk EXCEPT ![t] = Tail(@)]
    /\ exc' = [exc EXCEPT ![t] = raised]

At(t, l) == pc[t] = l
Same == UNCHANGED <<cur, tgt, ops>>

(* The locked decorators enter with the launch transition lock.            *)
TakeLaunch(t) == launch = Nil /\ launch' = t
FreeLaunch == launch' = Nil

(* A public call begins; every one of them starts by verifying the binding.*)
Begin(t, l) ==
    /\ At(t, "idle") /\ ops[t] < MaxOps
    /\ ops' = [ops EXCEPT ![t] = @ + 1]
    /\ Call(t, "verify", l)

-----------------------------------------------------------------------------
(* _verified_engine_record_v3 with _binding_record_v3: an unchanged, issued *)
(* binding passes; a changed one is tombstoned, its admission retired; a    *)
(* lost one only revokes the wrapper that the engine serves with.           *)

Verified == reg.live /\ ~changed

VerifyStep(t) ==
    /\ At(t, "verify")
    /\ UNCHANGED <<eng, changed, writable, wr, launch, oplock, cur, ops>>
    /\ \/ /\ Verified
          /\ Return(t, FALSE)
          /\ UNCHANGED <<reg, cap, tgt>>
       \/ /\ ~reg.live
          /\ pc' = [pc EXCEPT ![t] = "mismatch"]
          /\ exc' = [exc EXCEPT ![t] = FALSE]
          /\ UNCHANGED <<reg, cap, tgt, stk>>
       \/ /\ reg.live /\ changed
          /\ reg' = [reg EXCEPT !.live = FALSE]
          /\ tgt' = [tgt EXCEPT ![t] = [w |-> reg.cap, mm |-> TRUE]]
          /\ UNCHANGED cap
          /\ Call(t, "retire", "mismatch")

(* _retire_record_admission_v3 of the record just removed.  A published     *)
(* wrapper is cleaned, one under construction is discarded.                *)
RetireAdmission(t) ==
    LET c == tgt[t].w IN
    /\ At(t, "retire")
    /\ Same /\ UNCHANGED <<eng, reg, changed, writable, wr, launch, oplock>>
    /\ \/ /\ c = Nil
          /\ Return(t, FALSE) /\ UNCHANGED cap
       \/ /\ c # Nil
          /\ cap' = [cap EXCEPT ![c] =
                [cap[c] EXCEPT !.retOwner = IF cap[c].phase = "constructing" THEN cap[c].owner ELSE @,
                               !.retired = TRUE, !.phase = "retired", !.owner = Nil,
                               !.con = @ /\ cap[c].pub]]
          /\ CASE cap[c].pub -> Goto(t, "clean")
               [] ~cap[c].pub /\ cap[c].con -> Goto(t, "discard")
               [] OTHER -> Return(t, FALSE)

(* engine._binding_mismatch_cleanup_v3, then the rejection.                *)
MismatchCleanup(t) ==
    /\ At(t, "mismatch")
    /\ UNCHANGED <<auth, launch, oplock, cur, ops>>
    /\ IF eng.auth = Nil \/ exc[t]
       THEN Return(t, TRUE) /\ UNCHANGED tgt
       ELSE /\ tgt' = [tgt EXCEPT ![t] = [w |-> eng.auth, mm |-> TRUE]]
            /\ Call(t, "clean", "reject")

Reject(t) ==
    /\ At(t, "reject")
    /\ Return(t, TRUE)
    /\ Same /\ UNCHANGED <<auth, launch, oplock>>

-----------------------------------------------------------------------------
(* ServingAuthorityWrapperV3._run_cleanup_v3 of tgt[t].w.                  *)

Raises(w) == wr[w].err /\ ~wr[w].mismatch

EnterCleanup(t) ==
    LET w == tgt[t].w
        mm == wr[w].mismatch \/ tgt[t].mm IN
    /\ At(t, "clean")
    /\ \/ /\ wr[w].phase = "complete"
          /\ wr' = [wr EXCEPT ![w].mismatch = mm]
          /\ Return(t, wr[w].err /\ ~mm)
       \/ /\ wr[w].phase = "cleaning" /\ wr[w].owner = t
          /\ wr' = [wr EXCEPT ![w].mismatch = mm]
          /\ Return(t, mm)
       \/ /\ wr[w].phase = "cleaning" /\ wr[w].owner # t
          /\ wr' = [wr EXCEPT ![w].mismatch = mm]
          /\ Goto(t, "cleanWait")
       \/ /\ wr[w].phase = "active"
          /\ wr' = [wr EXCEPT ![w].mismatch = mm, ![w].phase = "cleaning", ![w].owner = t]
          /\ Goto(t, "cleanRevoke")
    /\ Same /\ UNCHANGED <<eng, reg, changed, writable, cap, launch, oplock>>

AwaitCleanup(t) ==
    /\ At(t, "cleanWait")
    /\ wr[tgt[t].w].phase # "cleaning"
    /\ Return(t, Raises(tgt[t].w))
    /\ Same /\ UNCHANGED <<auth, launch, oplock>>

(* Under the operation lock: sessions, reducers and the ledger are cleared. *)
CleanRevoke(t) ==
    LET w == tgt[t].w IN
    /\ At(t, "cleanRevoke")
    /\ oplock[w] = Nil
    /\ wr' = [wr EXCEPT ![w].revokes = @ + 1, ![w].sessions = 0]
    /\ Goto(t, IF wr[w].mismatch THEN "cleanClose" ELSE "cleanFault")
    /\ Same /\ UNCHANGED <<eng, reg, changed, writable, cap, launch, oplock>>

(* on_global_fault = engine._on_wrapper_global_fault, a locked transition.  *)
CleanFault(t) ==
    /\ At(t, "cleanFault")
    /\ TakeLaunch(t)
    /\ Call(t, "verify", "fault")
    /\ Same /\ UNCHANGED <<auth, oplock>>

(* BootTransitionEngineV3._fail: the barrier fails with the engine.        *)
BarrierAfterFail(b) ==
    IF b.st \in {"collecting", "candidate", "complete"}
    THEN [b EXCEPT !.st = "failed", !.probe = FALSE] ELSE b
Failed(e) == [e EXCEPT !.st = "failed", !.eligible = FALSE, !.bar = BarrierAfterFail(e.bar)]

CleanFaulted(t) ==
    LET w == tgt[t].w IN
    /\ At(t, "fault")
    /\ FreeLaunch
    /\ eng' = IF exc[t] THEN eng ELSE Failed(eng)
    /\ wr' = [wr EXCEPT ![w].err = @ \/ exc[t]]
    /\ Goto(t, "cleanClose")
    /\ Same /\ UNCHANGED <<reg, changed, writable, cap, oplock>>

(* The reducers' close callbacks run without a lock; one may raise.        *)
CleanClose(t) ==
    LET w == tgt[t].w IN
    /\ At(t, "cleanClose")
    /\ \E raised \in BOOLEAN :
         LET mm == wr[w].mismatch \/ tgt[t].mm
             err == (wr[w].err \/ raised) /\ ~mm IN
         /\ wr' = [wr EXCEPT ![w].mismatch = mm, ![w].err = err,
                             ![w].phase = "complete", ![w].owner = Nil]
         /\ Return(t, err)
    /\ Same /\ UNCHANGED <<eng, reg, changed, writable, cap, launch, oplock>>

(* _discard_unpublished_construction_v3: waits for the builder, unless the  *)
(* builder itself is asking.                                               *)
Discard(t) ==
    LET w == tgt[t].w IN
    /\ At(t, "discard")
    /\ wr' = [wr EXCEPT ![w].cancelled = TRUE]
    /\ IF wr[w].made = "building" /\ wr[w].builder = t
       THEN Return(t, FALSE)
       ELSE Goto(t, "discardWait")
    /\ Same /\ UNCHANGED <<eng, reg, changed, writable, cap, launch, oplock>>

AwaitDiscard(t) ==
    LET w == tgt[t].w IN
    /\ At(t, "discardWait")
    /\ wr[w].made \in {"complete", "failed"}
    /\ IF wr[w].made = "failed" THEN Return(t, FALSE) ELSE Goto(t, "clean")
    /\ Same /\ UNCHANGED <<auth, launch, oplock>>

-----------------------------------------------------------------------------
(* ServingAuthorityWrapperV3.global_revoke of cur[t].                      *)

Revoke(t) ==
    LET w == cur[t] IN
    /\ At(t, "revoke")
    /\ IF wr[w].phase = "complete" /\ wr[w].mismatch
       THEN Return(t, TRUE)
       ELSE Call(t, "verify", "revokeChecked")
    /\ Same /\ UNCHANGED <<auth, launch, oplock>>

(* _verify_serving_wrapper_v3 with allow_complete, then the cleanup.       *)
RevokeChecked(t) ==
    LET w == cur[t]
        admitted == /\ ~exc[t] /\ reg.live /\ reg.cap = w
                    /\ cap[w].pub /\ cap[w].phase \in {"admitted", "retired"} IN
    /\ At(t, "revokeChecked")
    /\ \/ /\ admitted
          /\ tgt' = [tgt EXCEPT ![t] = [w |-> w, mm |-> FALSE]]
          /\ Call(t, "clean", "revokeDone")
       \/ /\ ~admitted
          /\ Return(t, TRUE) /\ UNCHANGED tgt
    /\ UNCHANGED <<auth, launch, oplock, cur, ops>>

(* finally: _retire_serving_admission_v3.                                  *)
RevokeDone(t) ==
    LET w == cur[t] IN
    /\ At(t, "revokeDone")
    /\ cap' = [cap EXCEPT ![w].phase = "retired", ![w].retired = TRUE, ![w].owner = Nil]
    /\ Return(t, exc[t])
    /\ Same /\ UNCHANGED <<eng, reg, changed, writable, wr, launch, oplock>>

(* The holder of a published wrapper revokes it.                           *)
GlobalRevoke(t) ==
    /\ At(t, "idle") /\ ops[t] < MaxOps
    /\ \E w \in Caps : cap[w].pub /\ cur' = [cur EXCEPT ![t] = w]
    /\ ops' = [ops EXCEPT ![t] = @ + 1]
    /\ Call(t, "revoke", "idle")
    /\ UNCHANGED <<auth, launch, oplock, tgt>>

-----------------------------------------------------------------------------
(* An operation of a published wrapper: _active_operation_v3 guards before  *)
(* and after it gets the operation lock.                                   *)

UseWrapper(t) ==
    /\ Begin(t, "useChecked")
    /\ \E w \in Caps : cap[w].pub /\ cur' = [cur EXCEPT ![t] = w]
    /\ UNCHANGED <<auth, launch, oplock, tgt>>

UseGuard(t) ==
    LET w == cur[t] IN
    /\ At(t, "useChecked")
    /\ wr[w].phase # "cleaning"
    /\ IF ~exc[t] /\ cap[w].phase = "admitted" /\ wr[w].phase = "active"
       THEN Goto(t, "useLock") ELSE Goto(t, "idle")
    /\ Same /\ UNCHANGED <<auth, launch, oplock>>

UseLock(t) ==
    /\ At(t, "useLock")
    /\ oplock[cur[t]] = Nil
    /\ oplock' = [oplock EXCEPT ![cur[t]] = t]
    /\ Goto(t, "useBody")
    /\ Same /\ UNCHANGED <<auth, launch>>

(* _guard_active_after_operation_lock_v3, and the guarded body: a session   *)
(* is opened or released, or advanced, which executes an effect on the      *)
(* session's transport with the operation lock held.                        *)
GuardAfterLockMissing(w) == TRUE

GuardAfterLock(w) == wr[w].phase = "active"

UseGuardAfter(t) ==
    LET w == cur[t] IN
    /\ At(t, "useBody")
    /\ IF GuardAfterLock(w) THEN Goto(t, "useRun") ELSE Goto(t, "useUnlock")
    /\ Same /\ UNCHANGED <<auth, launch, oplock>>

UseRun(t) ==
    LET w == cur[t] IN
    /\ At(t, "useRun")
    /\ \E n \in 0..1 : wr' = [wr EXCEPT ![w].sessions = n]
    /\ Goto(t, "useUnlock")
    /\ Same /\ UNCHANGED <<eng, reg, changed, writable, cap, launch, oplock>>

UseUnlock(t) ==
    /\ At(t, "useUnlock")
    /\ oplock' = [oplock EXCEPT ![cur[t]] = Nil]
    /\ Goto(t, "idle")
    /\ Same /\ UNCHANGED <<auth, launch>>

-----------------------------------------------------------------------------
(* report_controller_terminal_v3, and any other locked engine call, which   *)
(* succeeds without a change or fails the engine (and with it the barrier). *)

ReportTerminal(t) ==
    /\ Begin(t, "terminal") /\ TakeLaunch(t)
    /\ UNCHANGED <<auth, oplock, cur, tgt>>

(* After the lock is free, the wrapper the engine served with is revoked.   *)
RevokeServed(t) ==
    IF eng.auth = Nil
    THEN Goto(t, "idle") /\ UNCHANGED cur
    ELSE Call(t, "revoke", "idle") /\ cur' = [cur EXCEPT ![t] = eng.auth]

BarrierFailed(e) == [e EXCEPT !.bar.st = "failed", !.bar.probe = FALSE]

Terminal(t) ==
    /\ At(t, "terminal")
    /\ FreeLaunch
    /\ \/ exc[t] /\ Goto(t, "idle") /\ UNCHANGED <<cur, eng>>
       \/ ~exc[t] /\ eng' = Failed(eng) /\ RevokeServed(t)
       \/ /\ ~exc[t] /\ eng.auth = Nil /\ eng.bar.st # "none"
          /\ eng' = BarrierFailed(Failed(eng))
          /\ Goto(t, "idle") /\ UNCHANGED cur
    /\ UNCHANGED <<reg, changed, writable, cap, wr, oplock, tgt, ops>>

EngineCall(t) ==
    /\ Begin(t, "called") /\ TakeLaunch(t)
    /\ UNCHANGED <<auth, oplock, cur, tgt>>

Called(t) ==
    /\ At(t, "called")
    /\ FreeLaunch
    /\ \/ ~exc[t] /\ Goto(t, "idle") /\ UNCHANGED <<cur, eng>>
       \/ ~exc[t] /\ eng' = Failed(eng) /\ RevokeServed(t)
       \/ /\ ~exc[t] /\ eng.bar.st # "none"
          /\ eng' = BarrierFailed(Failed(eng)) /\ RevokeServed(t)
       \/ /\ exc[t] /\ UNCHANGED eng
          /\ IF eng.st = "failed" THEN RevokeServed(t) ELSE Goto(t, "idle") /\ UNCHANGED cur
    /\ UNCHANGED <<reg, changed, writable, cap, wr, oplock, tgt, ops>>

-----------------------------------------------------------------------------
(* admit_serving_authority.  Serving needs a consumed readiness census.     *)

Eligible == eng.st = "serving" /\ eng.eligible /\ eng.bar.st = "consumed"

Admit(t) ==
    /\ Begin(t, "admitChecked") /\ TakeLaunch(t)
    /\ UNCHANGED <<auth, oplock, cur, tgt>>

AdmitChecked(t) ==
    /\ At(t, "admitChecked")
    /\ FreeLaunch
    /\ \/ exc[t] /\ Goto(t, "idle") /\ UNCHANGED eng
       \/ /\ ~exc[t] /\ ~Eligible
          /\ eng' = IF eng.auth # Nil THEN eng ELSE Failed(eng)
          /\ Goto(t, "idle")
       \/ ~exc[t] /\ Eligible /\ Call(t, "verify", "admitCap") /\ UNCHANGED eng
    /\ Same /\ UNCHANGED <<reg, changed, writable, cap, wr, oplock>>

(* A bug: a capability is minted for every admission.                       *)
AdmitCapAlwaysMints(t) ==
    /\ At(t, "admitCap")
    /\ IF exc[t] \/ ~reg.live \/ reg.minted = MaxCaps
       THEN Goto(t, "idle") /\ UNCHANGED <<reg, cur>>
       ELSE /\ reg' = [reg EXCEPT !.cap = reg.minted + 1, !.minted = @ + 1]
            /\ cur' = [cur EXCEPT ![t] = reg.minted + 1]
            /\ Goto(t, "admitPhase")
    /\ UNCHANGED <<eng, changed, writable, cap, wr, launch, oplock, tgt, ops>>

(* _serving_admission_capability_v3: the record's capability, minted once.  *)
AdmitCap(t) ==
    /\ At(t, "admitCap")
    /\ \/ exc[t] /\ Goto(t, "idle") /\ UNCHANGED <<reg, cur>>
       \/ ~exc[t] /\ ~reg.live /\ Call(t, "mismatch", "idle") /\ UNCHANGED <<reg, cur>>
       \/ /\ ~exc[t] /\ reg.live /\ reg.cap # Nil
          /\ cur' = [cur EXCEPT ![t] = reg.cap]
          /\ Goto(t, "admitPhase") /\ UNCHANGED reg
       \/ /\ ~exc[t] /\ reg.live /\ reg.cap = Nil /\ reg.minted < MaxCaps
          /\ reg' = [reg EXCEPT !.cap = reg.minted + 1, !.minted = @ + 1]
          /\ cur' = [cur EXCEPT ![t] = reg.minted + 1]
          /\ Goto(t, "admitPhase")
    /\ UNCHANGED <<eng, changed, writable, cap, wr, launch, oplock, tgt, ops>>

AdmitPhase(t) ==
    LET c == cur[t] IN
    /\ At(t, "admitPhase")
    /\ CASE cap[c].phase = "failed" -> Call(t, "verify", "admitCap") /\ UNCHANGED cap
         [] cap[c].phase = "retired" -> Goto(t, "idle") /\ UNCHANGED cap
         [] cap[c].phase = "admitted" -> Goto(t, "admitLock") /\ UNCHANGED cap
         [] cap[c].phase = "constructing" -> Goto(t, "admitWait") /\ UNCHANGED cap
         [] cap[c].phase = "none" ->
              /\ cap' = [cap EXCEPT ![c] = [@ EXCEPT !.phase = "constructing", !.owner = t,
                                                     !.retOwner = Nil, !.con = FALSE]]
              /\ Goto(t, "build")
    /\ Same /\ UNCHANGED <<eng, reg, changed, writable, wr, launch, oplock>>

AdmitWait(t) ==
    /\ At(t, "admitWait")
    /\ cap[cur[t]].phase # "constructing"
    /\ Call(t, "verify", "admitCap")
    /\ Same /\ UNCHANGED <<auth, launch, oplock>>

AdmitLock(t) ==
    /\ At(t, "admitLock")
    /\ TakeLaunch(t)
    /\ Call(t, "verify", "admitReturn")
    /\ Same /\ UNCHANGED <<auth, oplock>>

(* _return_admitted_wrapper_v3, with the launch lock held.                  *)
AdmitReturn(t) ==
    LET c == cur[t]
        valid == reg.live /\ reg.cap = c /\ cap[c].phase = "admitted" /\ cap[c].pub IN
    /\ At(t, "admitReturn")
    /\ \/ exc[t] /\ FreeLaunch /\ Goto(t, "idle") /\ UNCHANGED eng
       \/ ~exc[t] /\ ~Eligible /\ FreeLaunch /\ eng' = Failed(eng) /\ Goto(t, "idle")
       \/ ~exc[t] /\ Eligible /\ valid /\ FreeLaunch /\ Goto(t, "idle")
             /\ eng' = [eng EXCEPT !.auth = c]
       \/ /\ ~exc[t] /\ Eligible /\ ~valid
          /\ Call(t, "mismatch", "unlock") /\ UNCHANGED <<eng, launch>>
    /\ Same /\ UNCHANGED <<reg, changed, writable, cap, wr, oplock>>

Unlock(t) ==
    /\ At(t, "unlock")
    /\ FreeLaunch
    /\ Goto(t, "idle")
    /\ Same /\ UNCHANGED <<auth, oplock>>

-----------------------------------------------------------------------------
(* The construction of a wrapper by the thread that owns the capability.    *)

Build(t) ==
    LET c == cur[t]
        owns == cap[c].phase = "constructing" /\ cap[c].owner = t IN
    /\ At(t, "build")
    /\ wr' = [wr EXCEPT ![c].made = IF owns THEN "building" ELSE "failed", ![c].builder = t]
    /\ IF owns THEN Call(t, "verify", "claim") ELSE Goto(t, "abandon")
    /\ Same /\ UNCHANGED <<eng, reg, changed, writable, cap, launch, oplock>>

(* The end of _claim_serving_wrapper_construction_v3.                       *)
Claim(t) ==
    LET c == cur[t]
        claims == /\ ~exc[t] /\ reg.live /\ reg.cap = c
                  /\ cap[c].phase = "constructing" /\ cap[c].owner = t IN
    /\ At(t, "claim")
    /\ IF claims
       THEN /\ cap' = [cap EXCEPT ![c].con = TRUE]
            /\ Goto(t, "finish") /\ UNCHANGED wr
       ELSE /\ wr' = [wr EXCEPT ![c].made = "failed"]
            /\ Goto(t, "abandon") /\ UNCHANGED cap
    /\ Same /\ UNCHANGED <<eng, reg, changed, writable, launch, oplock>>

Finish(t) ==
    LET c == cur[t] IN
    /\ At(t, "finish")
    /\ wr' = [wr EXCEPT ![c].made = "complete"]
    /\ IF wr[c].cancelled
       THEN /\ tgt' = [tgt EXCEPT ![t] = [w |-> c, mm |-> TRUE]]
            /\ Call(t, "clean", "abandon")
       ELSE Goto(t, "publishLock") /\ UNCHANGED tgt
    /\ UNCHANGED <<eng, reg, changed, writable, cap, launch, oplock, cur, ops>>

PublishLock(t) ==
    /\ At(t, "publishLock")
    /\ TakeLaunch(t)
    /\ Call(t, "verify", "publish")
    /\ Same /\ UNCHANGED <<auth, oplock>>

(* Readiness is checked again, under the lock, before a wrapper is published.*)
PublishGuardMissing(t) == TRUE

PublishGuard(t) == Eligible

(* _publish_serving_wrapper_v3.                                             *)
Publish(t) ==
    LET c == cur[t]
        valid == /\ reg.live /\ reg.cap = c
                 /\ cap[c].phase = "constructing" /\ cap[c].owner = t /\ cap[c].con IN
    /\ At(t, "publish")
    /\ FreeLaunch
    /\ \/ exc[t] /\ Goto(t, "undo") /\ UNCHANGED <<eng, cap>>
       \/ ~exc[t] /\ ~PublishGuard(t) /\ eng' = Failed(eng) /\ Goto(t, "undo") /\ UNCHANGED cap
       \/ ~exc[t] /\ PublishGuard(t) /\ ~valid /\ Goto(t, "undo") /\ UNCHANGED <<eng, cap>>
       \/ /\ ~exc[t] /\ PublishGuard(t) /\ valid
          /\ eng' = [eng EXCEPT !.auth = c]
          /\ cap' = [cap EXCEPT ![c] = [@ EXCEPT !.phase = "admitted", !.pub = TRUE, !.owner = Nil]]
          /\ Goto(t, "idle")
    /\ Same /\ UNCHANGED <<reg, changed, writable, wr, oplock>>

(* A bug: the capability is abandoned and the wrapper forgotten.            *)
UndoLeaks(t) ==
    /\ At(t, "undo")
    /\ Goto(t, "abandon")
    /\ Same /\ UNCHANGED <<auth, launch, oplock>>

(* The exception path of admit: discard the wrapper, abandon the capability.*)
Undo(t) ==
    LET c == cur[t] IN
    /\ At(t, "undo")
    /\ wr' = [wr EXCEPT ![c].cancelled = TRUE]
    /\ tgt' = [tgt EXCEPT ![t] = [w |-> c, mm |-> TRUE]]
    /\ Call(t, "clean", "abandon")
    /\ UNCHANGED <<eng, reg, changed, writable, cap, launch, oplock, cur, ops>>

Abandon(t) ==
    LET c == cur[t]
        mine == cap[c].phase = "constructing" /\ cap[c].owner = t
        current == reg.live /\ reg.cap = c
        dropped == [cap[c] EXCEPT !.con = FALSE,
                                  !.retOwner = IF @ = t THEN Nil ELSE @] IN
    /\ At(t, "abandon")
    /\ cap' = [cap EXCEPT ![c] =
          IF ~mine THEN dropped
          ELSE [dropped EXCEPT !.phase = IF current THEN "failed" ELSE "retired",
                               !.retired = ~current, !.owner = Nil]]
    /\ reg' = IF mine /\ current THEN [reg EXCEPT !.cap = Nil] ELSE reg
    /\ Goto(t, "idle")
    /\ Same /\ UNCHANGED <<eng, changed, writable, wr, launch, oplock>>

-----------------------------------------------------------------------------
(* LaunchReadinessBarrierV3: the census of the roles that precedes serving. *)
(* Its calls hold the launch lock and call nothing that waits; here is what *)
(* an accepted call does, EngineCall has the rejected ones.                 *)

Census(t, e) ==
    /\ At(t, "idle") /\ launch = Nil /\ Verified
    /\ eng' = e
    /\ UNCHANGED <<reg, changed, writable, cap, wr, launch, oplock>> /\ UNCHANGED thr

BeginCensus(t) ==
    /\ eng.st = "serving" /\ eng.bar.st = "none"
    /\ Census(t, [eng EXCEPT !.bar.st = "collecting"])

NextProbe(t) ==
    /\ eng.bar.st = "collecting" /\ ~eng.bar.probe
    /\ Census(t, [eng EXCEPT !.bar.probe = TRUE])

AcceptResult(t) ==
    /\ eng.bar.st = "collecting" /\ eng.bar.probe
    /\ Census(t, [eng EXCEPT !.bar = [st |-> IF @.idx + 1 = NRoles THEN "candidate" ELSE @.st,
                                      idx |-> @.idx + 1, probe |-> FALSE]])

Complete(t) ==
    /\ eng.bar.st = "candidate"
    /\ Census(t, [eng EXCEPT !.bar.st = "complete"])

(* consume_launch_readiness_completion_v3                                   *)
Consume(t) ==
    /\ eng.st = "serving" /\ eng.bar.st = "complete"
    /\ Census(t, [eng EXCEPT !.bar.st = "consumed", !.eligible = TRUE])

-----------------------------------------------------------------------------
(* Something outside the reducer changes the binding, or puts it back.      *)
ChangeBinding ==
    /\ writable
    /\ changed' = ~changed
    /\ UNCHANGED <<eng, reg, writable, cap, wr, launch, oplock>> /\ UNCHANGED thr

Calls(t) == \/ GlobalRevoke(t) \/ UseWrapper(t) \/ ReportTerminal(t) \/ EngineCall(t) \/ Admit(t)
            \/ BeginCensus(t) \/ NextProbe(t) \/ AcceptResult(t) \/ Complete(t) \/ Consume(t)

Runs(t) ==
    \/ VerifyStep(t) \/ RetireAdmission(t) \/ MismatchCleanup(t) \/ Reject(t)
    \/ EnterCleanup(t) \/ AwaitCleanup(t) \/ CleanRevoke(t) \/ CleanFault(t)
    \/ CleanFaulted(t) \/ Discard(t) \/ AwaitDiscard(t)
    \/ Revoke(t) \/ RevokeChecked(t) \/ RevokeDone(t)
    \/ UseGuard(t) \/ UseLock(t) \/ UseGuardAfter(t) \/ UseUnlock(t)
    \/ Terminal(t) \/ Called(t)
    \/ AdmitChecked(t) \/ AdmitCap(t) \/ AdmitPhase(t) \/ AdmitWait(t) \/ AdmitLock(t)
    \/ AdmitReturn(t) \/ Unlock(t)
    \/ Build(t) \/ Claim(t) \/ Finish(t) \/ PublishLock(t) \/ Publish(t) \/ Undo(t) \/ Abandon(t)

(* A transport's execute or a reducer's close callback returns: the code    *)
(* sets neither a time limit.                                               *)
Returns(t) == UseRun(t) \/ CleanClose(t)

Outside(t) == At(t, "useRun") \/ At(t, "cleanClose")

Next == (\E t \in Threads : Calls(t) \/ Runs(t) \/ Returns(t)) \/ ChangeBinding

(* The threads of a process are scheduled: a call that can go on does.  A   *)
(* call that has left for a transport or a callback need not return.        *)
Spec == Init /\ [][Next]_vars /\ \A t \in Threads : WF_vars(Runs(t))

-----------------------------------------------------------------------------
(* Whatever races with it, the cleanup of a wrapper runs exactly once, and  *)
(* no operation that was waiting for the operation lock leaves a session    *)
(* open in a wrapper that has been cleaned (resource.py, 559-604).          *)
CleanupIsFinal ==
    \A w \in Caps : wr[w].phase = "complete" => wr[w].revokes = 1 /\ wr[w].sessions = 0

(* Two admissions that race publish one wrapper, and it is the one that the *)
(* engine revokes when it fails (boot_v3.py, 2496-2590).                    *)
OneAuthority ==
    \A w \in Caps : cap[w].pub => eng.auth = w

(* Once the registry has rejected the binding and every call has returned,  *)
(* no wrapper built for it is still active, published or not.               *)
DeadBindingServesNobody ==
    (~reg.live /\ \A t \in Threads : pc[t] = "idle") =>
        \A w \in Caps : wr[w].made = "complete" => wr[w].phase = "complete"

(* A report of the controller's terminal transition returns, if transports  *)
(* and callbacks do: it does not deadlock with a concurrent cleanup of the  *)
(* wrapper.                                                                 *)
TerminalReturns ==
    (\A t \in Threads : []<>~Outside(t)) =>
        \A t \in Threads : (pc[t] = "verify" /\ stk[t] = <<"terminal">>) ~> pc[t] = "idle"
=============================================================================
