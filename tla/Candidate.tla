------------------------------ MODULE Candidate ------------------------------
(***************************************************************************)
(* PID1 of the candidate appliance: CandidateController with its children  *)
(* (conf_proc_spp_candidate_controller.py), the finite cold interval       *)
(* (..._finite.py, ..._cold.py), the start of the serving cohort           *)
(* (..._serving.py, ..._launch.py) and CandidateSessionOwner               *)
(* (..._session.py), which owns the sockets of the sessions of the         *)
(* ServingLedger.                                                          *)
(*                                                                         *)
(* PID1 is one thread.  It blocks only in the selector, so an action is    *)
(* what it does between two waits; children, the kernel, the devices and   *)
(* the clock move at any time.  Where the code raises inside step, a cold  *)
(* run, a serving start or a serving check, it ends in fail_stop (Stop).   *)
(***************************************************************************)
EXTENDS ServingLedger, Sequences

CONSTANTS
  Sockets,      \* connected sockets, by identity
  MaxSockets,   \* MAX_SESSION_SOCKETS
  Lease,        \* MAX_LEASE_NS
  Handshake,    \* MAX_HANDSHAKE_NS
  MaxWait,      \* longest selector wait
  Budget,       \* COLD_BUDGET_NS, STARTUP_NS
  SealPhase,    \* the phase of SEAL (15); the one before is the empty final one
  MaxTime       \* bound on the clock

VARIABLES
  now,       \* time.monotonic_ns
  failed,    \* controller.failed
  limits,    \* controller.cgroups is not None
  disturbed, \* the resource-pressure or device events that have happened
  procs,     \* the process of each role, as waitid would report it
  orphan,    \* an adopted process has exited and is not reaped
  children,  \* controller.children, by role
  results,   \* controller.results: the reaped roles that exited with 0
  pc,        \* what PID1 is doing
  back,      \* where it continues after the selector
  wake,      \* when the selector's timeout ends
  until,     \* deadline of the cold run or serving start in progress
  eof,       \* the cold result's pipe is at its end
  phase,     \* CandidateFiniteInterval.phase; 0 when it has not run
  cold,      \* CandidateColdWorkloads.results
  cohort,    \* CandidateServingWorkloads.identities
  owned      \* CandidateSessionOwner._sessions

process == <<disturbed, procs, orphan>>

running == <<pc, back, wake, until, eof, phase, cold, cohort>>

vars == <<ledger, now, failed, limits, process, children, results, running, owned>>

Order == <<"inference", "asr">> \* ROLES

ColdOrder == <<"cold-inference", "cold-asr">>

Serving == {"inference", "asr"}

ColdRoles == {"cold-inference", "cold-asr"}

Roles == Serving \cup ColdRoles

Owned == [deadline : Nat, authorized : BOOLEAN, sockets : SUBSET Sockets]

ASSUME CandidateAssumption ==
  /\ {MaxSockets, Lease, Handshake, MaxWait, Budget, MaxTime} \subseteq Nat
  /\ SealPhase \in Nat /\ SealPhase > 4
  /\ None \notin Owned

TypeOK ==
  /\ LedgerTypeOK
  /\ now \in 0..MaxTime
  /\ {failed, limits, orphan, eof} \subseteq BOOLEAN
  /\ disturbed \subseteq {"cgroup", "device"}
  /\ procs \in [Roles -> {"none", "running", "exited", "crashed"}]
  /\ children \subseteq Roles /\ results \subseteq Roles
  /\ pc \in {"idle", "finite", "cold", "serve", "select"}
  /\ back \in {"idle", "cold", "serve"}
  /\ wake \in Nat /\ until \in Nat
  /\ phase \in 0..SealPhase
  /\ cold \in 0..2 /\ cohort \in 0..2
  /\ owned \in [Sessions -> Owned \cup {None}]

Init ==
  /\ LedgerInit
  /\ now = 0
  /\ failed = FALSE /\ limits = FALSE /\ disturbed = {} /\ orphan = FALSE
  /\ procs = [r \in Roles |-> "none"]
  /\ children = {} /\ results = {}
  /\ pc = "idle" /\ back = "idle" /\ wake = 0 /\ until = 0 /\ eof = FALSE
  /\ phase = 0 /\ cold = 0 /\ cohort = 0
  /\ owned = [s \in Sessions |-> None]

-----------------------------------------------------------------------------
(* The session owner and fail_stop *)

OwnedSessions == {s \in Sessions : owned[s] # None}

Overdue == {s \in OwnedSessions : now >= owned[s].deadline}

\* revoke_all: every socket is shut down and closed before the ledger forgets
\* the grants.
RevokeAll == owned' = [s \in Sessions |-> None] /\ global_revoke

\* release of a set of sessions, as far as nothing goes wrong.
Drop(gone) ==
  /\ owned' = [s \in Sessions |-> IF s \in gone THEN None ELSE owned[s]]
  /\ session_release(gone)

\* The ledger refuses to release a session.
Unreleasable(s) == sessions[s] = None \/ HoldsCollector(s)

\* release: a refusal of the ledger, or an unexpected error of a shutdown,
\* revokes every session.
Release(s) ==
  \/ (Unreleasable(s) \/ owned[s].sockets # {}) /\ RevokeAll
  \/ ~Unreleasable(s) /\ Drop({s})

\* The locals of a cold run, a serving start and a wait that has returned.
NoLocals == back' = "idle" /\ wake' = 0 /\ until' = 0 /\ eof' = FALSE

\* fail_stop: the grants first, then every descendant is killed.
Stop ==
  /\ failed' = TRUE
  /\ RevokeAll
  /\ procs' = [r \in Roles |-> IF procs[r] = "running" THEN "crashed" ELSE procs[r]]
  /\ pc' = "idle" /\ NoLocals
  /\ UNCHANGED <<now, limits, disturbed, orphan, results, children, phase, cold, cohort>>

-----------------------------------------------------------------------------
(* Children *)

Ended == {r \in Roles : procs[r] \in {"exited", "crashed"}}

\* An exit that _reap answers with fail_stop: of an unregistered process, of a
\* serving role, or any that was not a clean one (a status other than 0, or
\* descendants left in the cgroup).
BadExit == orphan \/ \E r \in Ended : r \in Serving \/ procs[r] = "crashed"

\* _reap when there is none.
Reap ==
  /\ ~BadExit
  /\ procs' = [r \in Roles |-> IF r \in Ended THEN "none" ELSE procs[r]]
  /\ children' = children \ Ended
  /\ results' = results \cup Ended

\* launch_workload: fork, register, place in the cgroup, open the gate.
Launch(role) ==
  /\ procs' = [procs EXCEPT ![role] = "running"]
  /\ children' = children \cup {role}
  /\ until' = now + Budget

\* CandidateColdWorkloads._quiescent
Quiescent ==
  /\ ~failed /\ limits /\ disturbed = {} /\ ~orphan
  /\ children = {} /\ LiveSessions = {} /\ \A r \in Roles : procs[r] = "none"

-----------------------------------------------------------------------------
(* The event loop *)

\* Mutant: the wait does not look at the leases.
Timeouts_Fixed == {now + MaxWait}

\* CandidateSessionOwner.wait: the selector waits for the earliest of these.
Timeouts == {now + MaxWait} \cup {owned[s].deadline : s \in OwnedSessions \ Overdue}

Earliest == {t \in Timeouts : \A u \in Timeouts : t <= u}

\* expire in a step: the first session that cannot be released ends in Stop.
Expirable == \A s \in Overdue : ~Unreleasable(s)

ExpireFails == \E s \in Overdue : Unreleasable(s) \/ owned[s].sockets # {}

\* step up to the selector: device and cgroup checks, _reap, expire.
StepBegin(from) ==
  \/ (disturbed # {} \/ BadExit \/ ExpireFails) /\ Stop
  \/ /\ disturbed = {}
     /\ Reap
     /\ Expirable /\ Drop(Overdue)
     /\ pc' = "select" /\ back' = from /\ wake' \in Earliest
     /\ UNCHANGED <<now, failed, limits, disturbed, orphan, until, eof, phase, cold, cohort>>

Step == pc = "idle" /\ ~failed /\ StepBegin("idle")

\* step after the selector: expire, device check, signals.  A termination
\* signal, or an event that a cold run or serving start does not expect, stops.
SelectReturns ==
  /\ pc = "select"
  /\ \/ Stop
     \/ /\ "device" \notin disturbed
        /\ Expirable /\ Drop(Overdue)
        /\ Reap
        /\ pc' = back /\ back' = "idle" /\ wake' = 0
        /\ UNCHANGED <<now, failed, limits, disturbed, orphan, until, eof, phase, cold, cohort>>

-----------------------------------------------------------------------------
(* Start-up: limits, cold interval, serving cohort *)

InstallLimits ==
  /\ pc = "idle" /\ ~failed /\ ~limits /\ children = {}
  /\ \/ Stop
     \/ /\ limits' = TRUE
        /\ UNCHANGED <<ledger, now, failed, process, children, results, running, owned>>

\* CandidateFiniteInterval.run; a second one is refused by stopping.
FiniteRun ==
  /\ pc = "idle" /\ ~failed
  /\ \/ phase # 0 /\ Stop
     \/ /\ phase = 0
        /\ phase' = 1 /\ pc' = "finite"
        /\ UNCHANGED <<ledger, now, failed, limits, process, children, results, back, wake,
                       until, eof, cold, cohort, owned>>

\* _command: phases 2 to 4 ask for quiescence first.  The kernel may refuse.
Commanded == (phase + 1 \in 2..4 => Quiescent) /\ phase' = phase + 1

\* Phases 2 and 3 go on with CandidateColdWorkloads.run of one role.
ColdRun ==
  /\ pc = "finite" /\ phase < 3
  /\ \/ Stop
     \/ /\ Commanded /\ cold = phase - 1 /\ ColdOrder[phase] \notin results
        /\ Launch(ColdOrder[phase])
        /\ pc' = "cold" /\ eof' = FALSE
        /\ UNCHANGED <<ledger, now, failed, limits, disturbed, orphan, results, back, wake, cold,
                       cohort, owned>>

\* The direct controls of phases 4 and later and the empty final phase.
DirectControl ==
  /\ pc = "finite" /\ phase \in 3..SealPhase - 2
  /\ \/ Stop
     \/ /\ Commanded
        /\ UNCHANGED <<ledger, now, failed, limits, process, children, results, pc, back, wake,
                       until, eof, cold, cohort, owned>>

\* SEAL, the read of the sealed stream, and the quiescence asked for after it.
Seal ==
  /\ pc = "finite" /\ phase = SealPhase - 1
  /\ \/ Stop
     \/ /\ Quiescent /\ cold = 2
        /\ phase' = SealPhase /\ pc' = "idle"
        /\ UNCHANGED <<ledger, now, failed, limits, process, children, results, back, wake,
                       until, eof, cold, cohort, owned>>

\* The role of the cold run in progress.
ColdRole == ColdOrder[phase - 1]

\* The child closes its end of the result pipe, before or when it exits.
PipeEnds ==
  /\ "cold" \in {pc, back} /\ pc \in {"cold", "select"} /\ ~eof
  /\ eof' = TRUE
  /\ UNCHANGED <<ledger, now, failed, limits, process, children, results, pc, back, wake, until,
                 phase, cold, cohort, owned>>

Complete == eof /\ ColdRole \in results \cup Ended

\* The last round of CandidateColdWorkloads.run: the pipe is at its end and _reap
\* has seen the exit.  The outputs may be refused.
ColdAccept ==
  /\ pc = "cold" /\ Complete
  /\ \/ Stop
     \/ /\ now < until /\ disturbed = {} /\ LiveSessions = {}
        /\ Reap /\ children' = {}
        /\ cold' = cold + 1 /\ pc' = "finite" /\ NoLocals
        /\ UNCHANGED <<ledger, now, failed, limits, disturbed, orphan, phase, cohort, owned>>

\* Any other round.  The deadline may have passed and the result may be too long.
ColdWait ==
  /\ pc = "cold" /\ ~Complete
  /\ Stop \/ (now < until /\ StepBegin("cold"))

\* Mutant: the cold results are not asked for.
MayServe_Anytime ==
  /\ limits /\ LiveSessions = {} /\ cohort < 2
  /\ children = {Order[i] : i \in 1..cohort}

\* What CandidateServingWorkloads.start asks for before it launches.
MayServe ==
  /\ limits /\ LiveSessions = {} /\ cohort < 2
  /\ children = {Order[i] : i \in 1..cohort}
  /\ ColdRoles \subseteq results

\* _check finds the cohort as it was: alive, reaped nobody, undisturbed.
CohortHolds == disturbed = {} /\ \A i \in 1..cohort : procs[Order[i]] = "running"

StartServing ==
  /\ pc = "idle" /\ ~failed
  /\ \/ Stop
     \/ /\ MayServe
        /\ ~BadExit /\ CohortHolds
        /\ Launch(Order[cohort + 1])
        /\ pc' = "serve"
        /\ UNCHANGED <<ledger, now, failed, limits, disturbed, orphan, results, back, wake, eof,
                       phase, cold, cohort, owned>>

\* CandidateServingWorkloads.start receives the readiness of a live process of
\* the expected identity.
ServingReady ==
  /\ pc = "serve"
  /\ \/ Stop
     \/ /\ now < until
        /\ ~BadExit /\ CohortHolds /\ procs[Order[cohort + 1]] = "running"
        /\ cohort' = cohort + 1 /\ pc' = "idle" /\ NoLocals
        /\ UNCHANGED <<ledger, now, failed, limits, process, children, results, phase, cold, owned>>

ServingWait == pc = "serve" /\ now < until /\ StepBegin("serve")

\* CandidateServingWorkloads.check: anything but the cohort it knows stops; when
\* all is well it changes nothing.
CheckServing == pc = "idle" /\ ~failed /\ cohort > 0 /\ Stop

-----------------------------------------------------------------------------
(* Handlers between two steps *)

Rest == <<now, failed, limits, process, children, results, running>>

\* _adopt: a socket that is not connected, or that is pinned already, costs the
\* session its place in the ledger.
Adopted(s, k, d, authorized) ==
  /\ sessions[s] # None /\ owned[s] = None
  /\ \/ Unreleasable(s) /\ RevokeAll
     \/ ~Unreleasable(s) /\ Drop({s})
     \/ /\ \A t \in OwnedSessions : k \notin owned[t].sockets
        /\ owned' = [owned EXCEPT ![s] = [deadline |-> d, authorized |-> authorized,
                                          sockets |-> {k}]]
        /\ UNCHANGED ledger

begin_handshake(s, k) == Adopted(s, k, now + Handshake, FALSE)

adopt(s, k) == \E d \in now + 1 .. now + Lease : Adopted(s, k, d, TRUE)

\* The checks of authorize, request_acquire and attach on the deadline.
InTime(s) == owned[s] # None /\ s \notin Overdue

TooLate(s) == s \in Overdue /\ Release(s)

authorize(s) ==
  /\ InTime(s) /\ ~owned[s].authorized
  /\ \E d \in now + 1 .. now + Lease :
       owned' = [owned EXCEPT ![s].deadline = d, ![s].authorized = TRUE]
  /\ UNCHANGED ledger

\* Mutant: a session in its handshake may ask for a request.
owner_request_acquire_Unappraised(s, r) ==
  InTime(s) /\ request_acquire(s, r) /\ UNCHANGED owned

owner_request_acquire(s, r) ==
  InTime(s) /\ owned[s].authorized /\ request_acquire(s, r) /\ UNCHANGED owned

attach(s, k) ==
  /\ InTime(s)
  /\ Cardinality(owned[s].sockets) < MaxSockets
  /\ \A t \in OwnedSessions : k \notin owned[t].sockets
  /\ owned' = [owned EXCEPT ![s].sockets = @ \cup {k}]
  /\ UNCHANGED ledger

\* detach of a completed upstream; an unexpected error revokes everything.
detach(s, k) ==
  /\ owned[s] # None /\ k \in owned[s].sockets
  /\ \/ RevokeAll
     \/ owned' = [owned EXCEPT ![s].sockets = @ \ {k}] /\ UNCHANGED ledger

\* The calls a handler makes on the ledger alone.
OnLedger(s) ==
  \/ session_acquire(s)
  \/ collector_acquire(s) \/ collector_finish(s) \/ collector_abort(s)
  \/ work_begin(s) \/ work_finish(s) \/ request_release(s)

Handler(s) ==
  /\ pc = "idle" /\ UNCHANGED Rest
  /\ \/ OnLedger(s) /\ UNCHANGED owned
     \/ \E k \in Sockets : begin_handshake(s, k) \/ adopt(s, k) \/ attach(s, k) \/ detach(s, k)
     \/ authorize(s)
     \/ \E r \in Routes : owner_request_acquire(s, r)
     \/ TooLate(s)
     \/ owned[s] # None /\ Release(s)

-----------------------------------------------------------------------------
(* The environment, up to a fail_stop: PID1 does nothing after it. *)

Tick ==
  /\ now < MaxTime /\ ~failed
  /\ pc = "select" => now < wake
  /\ now' = now + 1
  /\ UNCHANGED <<ledger, failed, limits, process, children, results, running, owned>>

\* A child exits: cleanly, or with a status or descendants that are not.
ChildEnds(r) ==
  /\ procs[r] = "running"
  /\ procs' \in {[procs EXCEPT ![r] = e] : e \in {"exited", "crashed"}}
  /\ UNCHANGED <<ledger, now, failed, limits, disturbed, orphan, children, results, running, owned>>

OrphanEnds ==
  /\ ~failed /\ ~orphan /\ orphan' = TRUE
  /\ UNCHANGED <<ledger, now, failed, limits, disturbed, procs, children, results, running, owned>>

Disturb ==
  /\ ~failed /\ disturbed = {}
  /\ \E d \in {"device"} \cup (IF limits THEN {"cgroup"} ELSE {}) : disturbed' = {d}
  /\ UNCHANGED <<ledger, now, failed, limits, procs, orphan, children, results, running, owned>>

Controller ==
  \/ Step \/ SelectReturns \/ InstallLimits
  \/ FiniteRun \/ ColdRun \/ ColdAccept \/ ColdWait \/ DirectControl \/ Seal
  \/ StartServing \/ ServingReady \/ ServingWait \/ CheckServing

Environment ==
  \/ Tick \/ PipeEnds \/ OrphanEnds \/ Disturb
  \/ \E r \in Roles : ChildEnds(r)

Next == Controller \/ Environment \/ \E s \in Sessions : Handler(s)

Spec == Init /\ [][Next]_vars

-----------------------------------------------------------------------------
(* Properties *)

\* A request permit, and with it a route's slot, is held only by a session whose
\* sockets the owner holds under an appraised lease and for which both
\* collector generations were consumed; an owned session is one of the ledger.
GrantsUnderALease ==
  \A s \in Sessions :
    /\ owned[s] # None => sessions[s] # None
    /\ sessions[s] # None /\ sessions[s].request =>
         /\ owned[s] # None /\ owned[s].authorized
         /\ sessions[s].generation = EXPORTER

\* While PID1 waits, no session's deadline has passed: its sockets are cut at the
\* deadline although the event loop sleeps.
NobodyOverstays == pc = "select" => \A s \in OwnedSessions : now <= owned[s].deadline

\* After fail_stop nothing is left to use, nor can a handler that still runs
\* bring it back: no session, no grant, no pinned socket, no process.
StoppedLeavesNothing ==
  failed => /\ LiveSessions \cup OwnedSessions = {} /\ holder = None
            /\ \A r \in Roles : procs[r] # "running"

\* Serving processes exist only after the trace was sealed over two accepted cold
\* runs, and the cohort that is admitted is registered.
ServingAfterTheSeal ==
  ~failed => /\ (\E r \in Serving : procs[r] # "none") => phase = SealPhase /\ cold = 2
             /\ \A i \in 1..cohort : Order[i] \in children
=============================================================================
