------------------------------ MODULE TraceCore ------------------------------
(***************************************************************************)
(* The in-kernel diagnostic trace core                                     *)
(* (spp-diag-trace-core-src/security/spp_diag_trace_core): the bootstrap   *)
(* gate that denies userspace until two IMA records are measured           *)
(* (release.c, gate.c), the runtime producer that turns task, exec, file,  *)
(* mapping and network hooks into frames of an append-only stream          *)
(* (core.c), and the ADVANCE / SEAL commands of the securityfs control     *)
(* file, which end in a measured, readable stream.                         *)
(*                                                                         *)
(* Every core function runs under one spinlock, so one call is one action. *)
(* The exceptions are modelled as the code has them: SEAL drops the lock   *)
(* around the IMA measurement, the boot thread calls the core between      *)
(* measurements, and a hook checks runtime_is_sealed before it takes the   *)
(* lock.  Hooks of different tasks come in any order, also in orders the   *)
(* core answers with its sticky failure.                                   *)
(*                                                                         *)
(* A frame is its event, task, operation and phase; payloads are dropped,  *)
(* and the hash chain of a prefix of the stream is that prefix.  `fits`    *)
(* is FALSE when the field checks or the byte cap reject a frame.          *)
(***************************************************************************)
EXTENDS Integers, Sequences, FiniteSets

CONSTANTS
  Tokens,      \* task_struct addresses of user tasks; reused after an exit
  Root,        \* the address of pid 1
  Files,       \* struct file addresses
  Decided,     \* the operation kinds a policy decision opens, of those below
  None,        \* a NULL pointer
  Finalize,    \* PHASE_EVIDENCE_FINALIZE (14): the last phase before SEALED
  MaxTasks,    \* runtime_task_cap
  MaxOps,      \* runtime_op_cap
  MaxFrames,   \* max_frames_op
  TokenLimit,  \* reservation tokens count modulo this (2^32)
  MaxRows      \* bound: the passes of one exec, the rows of one mprotect

VARIABLES
  boot,     \* the boot thread: the next step of spp_diag_trace_bootstrap_release
  stage,    \* core.bootstrap_stage; RELEASED iff core.bootstrap_released
  ready,    \* core.runtime_ready
  failed,   \* core.failed
  stream,   \* core.stream
  phase,    \* core.runtime_phase
  sealed,   \* core.runtime_sealed
  command,  \* the SEAL command in progress: "idle", or where it is
  saved,    \* SEAL's saved_frames (saved_seq and saved_bytes move with it)
  tasks,    \* core.runtime_tasks; a task's ordinal is its index
  ops,      \* core.runtime_ops; an operation's ordinal is its index + 1
  nextToken,\* core.runtime_next_exec_reservation_token
  commits,  \* core.committed_exec_count
  inflight, \* tasks in a hook with a bad argument, past the sealed check
  ima,      \* the records IMA measured, in order
  userspace \* history: the exec gate let an exec pass

bootVars == <<boot, stage, ready, ima>>

runtime == <<phase, sealed, command, saved, tasks, ops, nextToken, commits, inflight>>

vars == <<boot, stage, ready, failed, stream, phase, sealed, command, saved, tasks,
          ops, nextToken, commits, inflight, ima, userspace>>

PRE_RELEASE == 0
INIT == 1
SEALED == Finalize + 1

ASSUME CapAssumption ==
  /\ Finalize \in Nat /\ Finalize > INIT
  /\ MaxTasks \in Nat \ {0} /\ MaxOps \in Nat /\ MaxFrames \in Nat \ {0}
  /\ TokenLimit \in Nat /\ TokenLimit > 1 /\ MaxRows \in Nat

ASSUME DecidedAssumption == Decided \subseteq {"MMAP", "MPROTECT", "CONNECT", "SENDMSG"}

ASSUME TokenAssumption == Root \in Tokens /\ None \notin Tokens /\ None \notin Files

Kinds == {"FILE_OPEN", "MMAP", "MPROTECT", "CONNECT", "SENDMSG", "EXEC", "TASK_ALLOC"}

Boots == {"runtime_init", "ima_ready", "canary", "ready", "measure_ready", "ready_state",
          "prepare_release", "measure_release", "release_state", "publish", "bind_root",
          "running", "panicked"}

Stages == {"CORE_READY", "IMA_AVAILABLE", "DENIED", "READY_APPENDED", "READY_MEASURED",
           "RELEASE_APPENDED", "RELEASE_MEASURED", "RELEASED"}

Events == {"CORE_INIT", "EXEC_DENIED", "IMA_READY", "USERSPACE_RELEASE", "EXEC_ATTEMPT",
           "EXEC_COMMIT", "TASK_ALLOC_ATTEMPT", "TASK_CREATED", "PHASE_MARKER", "TERMINAL",
           "FILE_OPEN_ATTEMPT", "POLICY_DECISION", "OPERATION_RETURN", "TASK_EXIT"}

Frame == [event : Events, task : Nat, op : Nat, phase : PRE_RELEASE..SEALED]

TaskRecord == [token : Tokens \cup {None}, parent : Nat,
               flags : {"none", "LIVE", "EXITED"}, open : Nat,
               reservation : 0..TokenLimit - 1]

OpRecord == [task : Nat, kind : Kinds, state : {"OPEN", "COMMITTED", "CLOSED"},
             passes : Nat, policies : Nat, denied : BOOLEAN, child : Nat,
             file : Files \cup {None}, reservation : 0..TokenLimit - 1]

Record == [kind : {"READY", "RELEASED", "SEALED"}, chain : Seq(Frame), commits : Nat]

\* spp_diag_trace_core_init has published the CORE_INIT frame; if it fails,
\* spp_diag_trace_bootstrap_init panics before anything else runs.
Init ==
  /\ boot = "runtime_init" /\ stage = "CORE_READY" /\ ready = FALSE
  /\ failed = FALSE
  /\ stream = <<[event |-> "CORE_INIT", task |-> 0, op |-> 0, phase |-> PRE_RELEASE]>>
  /\ phase = PRE_RELEASE /\ sealed = FALSE /\ command = "idle" /\ saved = 0
  /\ tasks = <<>> /\ ops = <<>> /\ nextToken = 0 /\ commits = 0
  /\ inflight = {} /\ ima = <<>> /\ userspace = FALSE

\* fail_sticky on an otherwise untouched core.
Refuse == failed' = TRUE /\ UNCHANGED <<bootVars, stream, runtime, userspace>>

\* append_locked of one frame.  Callers have checked that failed is FALSE.
Emit(event, task, op, ph, fits) ==
  LET taken == fits /\ Len(stream) < MaxFrames
      frame == [event |-> event, task |-> task, op |-> op, phase |-> ph]
  IN /\ stream' = IF taken THEN Append(stream, frame) ELSE stream
     /\ failed' = ~taken

------------------------------------------------------------------------------
(* Bootstrap: release.c, gate.c and the bootstrap functions of core.c. *)

\* The boot thread's next step, or the panic of fail_stop: a failed core makes
\* every later call of the sequence return an error.
Proceed(next) == boot' = next /\ UNCHANGED userspace

Panic ==
  /\ boot' = "panicked" /\ failed' = TRUE
  /\ UNCHANGED <<stage, ready, ima, stream, runtime, userspace>>

\* spp_diag_trace_runtime_init at fs_initcall: the arrays are installed, or an
\* allocation or the securityfs nodes fail and the core is marked failed.
RuntimeInit ==
  /\ boot = "runtime_init"
  /\ \/ ~failed /\ ready' = TRUE /\ nextToken' = 1 /\ UNCHANGED failed
     \/ failed' = TRUE /\ UNCHANGED <<ready, nextToken>>
  /\ Proceed("ima_ready")
  /\ UNCHANGED <<stage, ima, stream, phase, sealed, command, saved, tasks, ops, commits,
                 inflight>>

ImaReady ==
  /\ boot = "ima_ready"
  /\ \/ (failed \/ stage # "CORE_READY") /\ Panic
     \/ /\ ~failed /\ stage = "CORE_READY"
        /\ stage' = "IMA_AVAILABLE"
        /\ Proceed("canary")
        /\ UNCHANGED <<ready, ima, failed, stream, runtime>>

\* spp_diag_trace_core_bootstrap_gate, the bprm check of every exec.  Before the
\* release exactly one exec, the canary's, is denied and recorded; any other
\* breaks the trace.
Gate(path) ==
  /\ \/ failed /\ UNCHANGED <<failed, stream, stage, userspace>>
     \/ ~failed /\ stage = "RELEASED" /\ userspace' = TRUE /\ UNCHANGED <<failed, stream, stage>>
     \/ /\ ~failed /\ stage # "RELEASED"
        /\ ~(stage = "IMA_AVAILABLE" /\ path = "canary")
        /\ failed' = TRUE /\ UNCHANGED <<stream, stage, userspace>>
     \/ /\ ~failed /\ stage = "IMA_AVAILABLE" /\ path = "canary"
        /\ \E fits \in BOOLEAN : Emit("EXEC_DENIED", 0, 1, PRE_RELEASE, fits)
        /\ stage' = IF failed' THEN stage ELSE "DENIED"
        /\ UNCHANGED userspace

\* Some other task runs an exec: a usermode helper before the release, any
\* process after it.
Exec ==
  /\ boot # "panicked"
  /\ \E path \in {"canary", "other"} : Gate(path)
  /\ UNCHANGED <<boot, ready, ima, runtime>>

\* call_usermodehelper(canary, UMH_WAIT_PROC): the helper's exec meets the gate,
\* or it could not be started at all.
Canary ==
  /\ boot = "canary"
  /\ \/ Panic
     \/ Gate("canary") /\ boot' = "ready" /\ UNCHANGED <<ready, ima, runtime>>

\* bootstrap_prepare_ready and bootstrap_prepare_release: append a frame and
\* encode the record of the stream that ends with it.
Prepare(here, event, task, from, to, next) ==
  /\ boot = here
  /\ \/ (failed \/ stage # from) /\ Panic
     \/ /\ ~failed /\ stage = from
        /\ \E fits \in BOOLEAN : Emit(event, task, 0, PRE_RELEASE, fits)
        /\ stage' = IF failed' THEN stage ELSE to
        /\ Proceed(IF failed' THEN "panicked" ELSE next)
        /\ UNCHANGED <<ready, ima, runtime>>

PrepareReady ==
  Prepare("ready", "IMA_READY", 0, "DENIED", "READY_APPENDED", "measure_ready")

PrepareRelease ==
  Prepare("prepare_release", "USERSPACE_RELEASE", 1, "READY_MEASURED", "RELEASE_APPENDED",
          "measure_release")

\* Mutant: a measurement error is ignored.
Measure_ErrorsIgnored(here, kind, next) ==
  /\ boot = here
  /\ \/ UNCHANGED ima
     \/ ima' = Append(ima, [kind |-> kind, chain |-> stream, commits |-> commits])
  /\ Proceed(next)
  /\ UNCHANGED <<stage, ready, failed, stream, runtime>>

\* ima_measure_critical_data of the record, outside the lock.
Measure(here, kind, next) ==
  /\ boot = here
  /\ \/ Panic
     \/ /\ ima' = Append(ima, [kind |-> kind, chain |-> stream, commits |-> commits])
        /\ Proceed(next)
        /\ UNCHANGED <<stage, ready, failed, stream, runtime>>

MeasureReady == Measure("measure_ready", "READY", "ready_state")

MeasureRelease == Measure("measure_release", "RELEASED", "release_state")

\* bootstrap_ready_measured and bootstrap_release_measured.
Confirm(here, from, to, next) ==
  /\ boot = here
  /\ \/ (failed \/ stage # from) /\ Panic
     \/ /\ ~failed /\ stage = from
        /\ stage' = to
        /\ Proceed(next)
        /\ UNCHANGED <<ready, ima, failed, stream, runtime>>

ReadyMeasured == Confirm("ready_state", "READY_APPENDED", "READY_MEASURED", "prepare_release")

ReleaseMeasured == Confirm("release_state", "RELEASE_APPENDED", "RELEASE_MEASURED", "publish")

\* spp_diag_trace_runtime_ready, then bootstrap_publish.
Publish ==
  /\ boot = "publish"
  /\ \/ (~ready \/ failed \/ stage # "RELEASE_MEASURED") /\ Panic
     \/ /\ ready /\ ~failed /\ stage = "RELEASE_MEASURED"
        /\ stage' = "RELEASED"
        /\ Proceed("bind_root")
        /\ UNCHANGED <<ready, ima, failed, stream, runtime>>

\* runtime_bind_root: pid 1 becomes task 1 and the traced interval opens.
BindRoot ==
  /\ boot = "bind_root"
  /\ \/ (failed \/ stage # "RELEASED" \/ ~ready \/ phase # PRE_RELEASE) /\ Panic
     \/ /\ ~failed /\ stage = "RELEASED" /\ ready /\ phase = PRE_RELEASE
        /\ tasks' = <<[token |-> Root, parent |-> 0, flags |-> "LIVE", open |-> 0,
                       reservation |-> 0]>>
        /\ phase' = INIT
        /\ Proceed("running")
        /\ UNCHANGED <<stage, ready, failed, stream, sealed, command, saved, ops, nextToken,
                       commits, inflight, ima>>

------------------------------------------------------------------------------
(* The runtime producer. *)

\* core.runtime_sealing: set from the TERMINAL frame to the check after the
\* measurement.
Sealing == command # "idle"

\* interval_status_locked returns WIRE_OK.
Active == ~sealed /\ ~Sealing /\ ~failed /\ phase \in INIT..Finalize

Live(t) == {i \in DOMAIN tasks : tasks[i].token = t /\ tasks[i].flags = "LIVE"}

\* A tracked task that is free to make a call: its previous hook has returned.
Caller(t, i) == i \in Live(t) /\ t \notin inflight

OpenStates == {"OPEN", "COMMITTED"}

\* find_active_op_locked: the indices of the active operations of a task.
ActiveOps(i, kind, states) ==
  {j \in DOMAIN ops : ops[j].task = i /\ ops[j].kind = kind /\ ops[j].state \in states}

\* Mutant: the operation table's cap is not checked.
CanOpen_NoCap(i, kind) == ActiveOps(i, kind, OpenStates) = {}

\* open_op_locked succeeds.
CanOpen(i, kind) == ActiveOps(i, kind, OpenStates) = {} /\ Len(ops) < MaxOps

NewOp(i, kind) ==
  [task |-> i, kind |-> kind, state |-> "OPEN", passes |-> 0, policies |-> 0,
   denied |-> FALSE, child |-> 0, file |-> None, reservation |-> 0]

Opened(i) == [tasks EXCEPT ![i].open = @ + 1]

Released(i) == [tasks EXCEPT ![i].open = IF @ > 0 THEN @ - 1 ELSE @]

OrdinalOf(j) == j + 1

\* What no hook touches.
producer == <<bootVars, phase, sealed, command, saved, inflight, userspace>>

\* A hook the core cannot place: it runs while the seal is being measured, its
\* task is neither tracked nor an exempt kernel thread, it reports an operation
\* the trace does not support, or it brings a bad argument before pid 1 is bound.
UntrackedHook ==
  /\ boot # "panicked" /\ ~failed /\ ~sealed
  /\ Refuse

\* A hook, or a write to the control file, finds runtime_is_sealed false, and
\* only later marks the failure its NULL or oversized argument deserves.
EnterBadHook(t) ==
  /\ boot = "running" /\ ~sealed
  /\ \E i \in DOMAIN tasks : Caller(t, i)
  /\ t = Root => ~Sealing
  /\ inflight' = inflight \cup {t}
  /\ UNCHANGED <<bootVars, failed, stream, phase, sealed, command, saved, tasks, ops, nextToken,
                 commits, userspace>>

MarkFailure(t) ==
  /\ t \in inflight
  /\ failed' = TRUE
  /\ inflight' = inflight \ {t}
  /\ UNCHANGED <<bootVars, stream, phase, sealed, command, saved, tasks, ops, nextToken,
                 commits, userspace>>

TaskAllocAttempt(t, fits) ==
  \E i \in DOMAIN tasks :
    /\ Active /\ Caller(t, i)
    /\ IF Len(tasks) < MaxTasks /\ CanOpen(i, "TASK_ALLOC")
       THEN /\ tasks' = Append(Opened(i), [token |-> None, parent |-> i, flags |-> "none",
                                           open |-> 0, reservation |-> 0])
            /\ ops' = Append(ops, [NewOp(i, "TASK_ALLOC") EXCEPT !.child = Len(tasks) + 1])
            /\ Emit("TASK_ALLOC_ATTEMPT", Len(tasks) + 1, OrdinalOf(Len(ops) + 1), phase, fits)
            /\ UNCHANGED <<producer, nextToken, commits>>
       ELSE Refuse

\* child is the fresh task_struct the kernel has just built.
TaskCreated(t, child, fits) ==
  \E i \in DOMAIN tasks :
    /\ Active /\ Caller(t, i) /\ Live(child) = {}
    /\ LET mine == {j \in ActiveOps(i, "TASK_ALLOC", {"OPEN"}) :
                      /\ ops[j].child \in DOMAIN tasks
                      /\ tasks[ops[j].child].parent = i
                      /\ tasks[ops[j].child].flags = "none"} IN
       IF mine # {}
       THEN \E j \in mine :
              /\ tasks' = [Released(i) EXCEPT ![ops[j].child].token = child,
                                              ![ops[j].child].flags = "LIVE"]
              /\ ops' = [ops EXCEPT ![j].state = "CLOSED"]
              /\ Emit("TASK_CREATED", ops[j].child, OrdinalOf(j), phase, fits)
              /\ UNCHANGED <<producer, nextToken, commits>>
       ELSE Refuse

\* A task that exits inside an operation or with an exec reserved breaks the
\* trace, and so does the exit of pid 1, whose parent ordinal 0 no TASK_EXIT
\* frame may carry.
TaskExit(t, fits) ==
  \E i \in DOMAIN tasks :
    /\ Active /\ Caller(t, i)
    /\ IF tasks[i].open = 0 /\ tasks[i].reservation = 0
       THEN /\ tasks' = [tasks EXCEPT ![i].flags = "EXITED"]
            /\ Emit("TASK_EXIT", i, 0, phase, fits /\ tasks[i].parent \notin {0, i})
            /\ UNCHANGED <<producer, ops, nextToken, commits>>
       ELSE Refuse

\* append_exec_attempt_locked: one more pass of an exec operation.
AttemptFrame(i, j, opsNow, fits) ==
  /\ opsNow[j].passes < MaxRows
  /\ ops' = [opsNow EXCEPT ![j].passes = @ + 1]
  /\ Emit("EXEC_ATTEMPT", i, OrdinalOf(j), phase, fits)

\* exec_attempt: a further pass of the open operation, or a new operation that
\* holds no reservation.
ExecAttempt(t, fits) ==
  \E i \in DOMAIN tasks :
    /\ Active /\ Caller(t, i)
    /\ LET mine == ActiveOps(i, "EXEC", OpenStates) IN
       IF mine = {}
       THEN IF CanOpen(i, "EXEC")
            THEN /\ AttemptFrame(i, Len(ops) + 1, Append(ops, NewOp(i, "EXEC")), fits)
                 /\ tasks' = Opened(i)
                 /\ UNCHANGED <<producer, nextToken, commits>>
            ELSE Refuse
       ELSE \E j \in mine :
              IF ops[j].state = "OPEN"
              THEN AttemptFrame(i, j, ops, fits)
                   /\ UNCHANGED <<producer, tasks, nextToken, commits>>
              ELSE Refuse

ExecReserve(t) ==
  \E i \in DOMAIN tasks :
    /\ Active /\ Caller(t, i)
    /\ IF /\ tasks[i].reservation = 0 /\ ActiveOps(i, "EXEC", OpenStates) = {}
          /\ nextToken # 0
       THEN /\ tasks' = [tasks EXCEPT ![i].reservation = nextToken]
            /\ nextToken' = (nextToken + 1) % TokenLimit
            /\ UNCHANGED <<producer, failed, stream, ops, commits>>
       ELSE Refuse

\* exec_pass: the first pass of a reserved exec opens its operation and moves
\* the reservation to it.
ExecPass(t, fits) ==
  \E i \in DOMAIN tasks :
    /\ Active /\ Caller(t, i)
    /\ LET mine == ActiveOps(i, "EXEC", {"OPEN"}) IN
       IF mine # {}
       THEN \E j \in mine : AttemptFrame(i, j, ops, fits)
                            /\ UNCHANGED <<producer, tasks, nextToken, commits>>
       ELSE IF tasks[i].reservation # 0 /\ CanOpen(i, "EXEC")
       THEN /\ AttemptFrame(i, Len(ops) + 1,
                            Append(ops, [NewOp(i, "EXEC") EXCEPT
                                           !.reservation = tasks[i].reservation]), fits)
            /\ tasks' = [Opened(i) EXCEPT ![i].reservation = 0]
            /\ UNCHANGED <<producer, nextToken, commits>>
       ELSE Refuse

ExecCommit(t, fits) ==
  \E i \in DOMAIN tasks :
    /\ Active /\ Caller(t, i)
    /\ LET mine == {j \in ActiveOps(i, "EXEC", {"OPEN"}) : ops[j].passes # 0} IN
       IF mine # {}
       THEN \E j \in mine :
              /\ ops' = [ops EXCEPT ![j].state = "COMMITTED"]
              /\ Emit("EXEC_COMMIT", i, OrdinalOf(j), phase, fits)
              /\ commits' = IF failed' THEN commits ELSE commits + 1
              /\ UNCHANGED <<producer, tasks, nextToken>>
       ELSE Refuse

\* append_return_locked: the operation is closed whether or not its frame fits.
Return(i, j, fits) ==
  /\ Emit("OPERATION_RETURN", i, OrdinalOf(j), phase, fits)
  /\ ops' = [ops EXCEPT ![j].state = "CLOSED"]
  /\ tasks' = Released(i)
  /\ UNCHANGED <<producer, nextToken, commits>>

\* operation_return and operation_return_raw, called with the ordinal a lookup
\* returned earlier.  An exec that did not commit may only return an error.
OperationReturn(t, o, error, fits) ==
  \E i \in DOMAIN tasks :
    /\ Active /\ Caller(t, i)
    /\ LET j == o - 1 IN
       IF /\ j \in DOMAIN ops
          /\ ops[j].task = i /\ ops[j].kind # "TASK_ALLOC"
          /\ \/ ops[j].state = "OPEN" /\ (ops[j].kind = "EXEC" => error)
             \/ ops[j].state = "COMMITTED" /\ ops[j].kind = "EXEC"
       THEN Return(i, j, fits)
       ELSE Refuse

\* exec_return: the reservation token names the operation.  Its two critical
\* sections are one action, because the first changes nothing when it succeeds
\* and only the task itself can move its own operation between them.
ExecReturn(t, token, error, fits) ==
  \E i \in DOMAIN tasks :
    /\ Active /\ Caller(t, i)
    /\ IF tasks[i].reservation # 0
       THEN /\ tasks' = IF tasks[i].reservation = token
                        THEN [tasks EXCEPT ![i].reservation = 0]
                        ELSE tasks
            /\ failed' = TRUE
            /\ UNCHANGED <<producer, stream, ops, nextToken, commits>>
       ELSE IF \E j \in ActiveOps(i, "EXEC", OpenStates) :
                 /\ token # 0 /\ ops[j].reservation = token
                 /\ ops[j].state = "OPEN" => error
       THEN \E j \in ActiveOps(i, "EXEC", OpenStates) : Return(i, j, fits)
       ELSE Refuse

FileOpenAttempt(t, fits) ==
  \E i \in DOMAIN tasks :
    /\ Active /\ Caller(t, i)
    /\ IF CanOpen(i, "FILE_OPEN")
       THEN /\ tasks' = Opened(i)
            /\ ops' = Append(ops, NewOp(i, "FILE_OPEN"))
            /\ Emit("FILE_OPEN_ATTEMPT", i, OrdinalOf(Len(ops) + 1), phase, fits)
            /\ UNCHANGED <<producer, nextToken, commits>>
       ELSE Refuse

\* An open file operation of the caller that has no decision yet.
Undecided(i, j) ==
  /\ j \in DOMAIN ops
  /\ ops[j].task = i /\ ops[j].kind = "FILE_OPEN" /\ ops[j].state = "OPEN"
  /\ ops[j].policies = 0

FilePolicyDecision(t, o, deny, fits) ==
  \E i \in DOMAIN tasks :
    /\ Active /\ Caller(t, i)
    /\ IF Undecided(i, o - 1)
       THEN /\ Emit("POLICY_DECISION", i, o, phase, fits)
            /\ ops' = IF failed' THEN ops
                      ELSE [ops EXCEPT ![o - 1].policies = 1, ![o - 1].denied = deny]
            /\ UNCHANGED <<producer, tasks, nextToken, commits>>
       ELSE Refuse

\* file_gate_observation remembers the file; its frame waits for the return.
FileGateObservation(t, o, file) ==
  \E i \in DOMAIN tasks :
    /\ Active /\ Caller(t, i)
    /\ IF Undecided(i, o - 1)
       THEN /\ ops' = [ops EXCEPT ![o - 1].policies = 1, ![o - 1].file = file]
            /\ UNCHANGED <<producer, failed, stream, tasks, nextToken, commits>>
       ELSE Refuse

\* file_open_return of an error, and of a file: the latter appends the decision
\* that was observed and then the return.
FileOpenReturn(t, file, fits, fits2) ==
  \E i \in DOMAIN tasks :
    /\ Active /\ Caller(t, i)
    /\ LET mine == ActiveOps(i, "FILE_OPEN", {"OPEN"}) IN
       IF file = None /\ \E j \in mine : ops[j].policies = 0
       THEN \E j \in mine : Return(i, j, fits)
       ELSE IF file # None /\ \E j \in mine : ops[j].policies = 1 /\ ops[j].file = file
       THEN \E j \in mine :
              LET decision == [event |-> "POLICY_DECISION", task |-> i, op |-> OrdinalOf(j),
                               phase |-> phase]
                  return == [decision EXCEPT !.event = "OPERATION_RETURN"]
                  first == fits /\ Len(stream) < MaxFrames
                  second == first /\ fits2 /\ Len(stream) + 1 < MaxFrames
              IN /\ stream' = stream \o (IF second THEN <<decision, return>>
                                         ELSE IF first THEN <<decision>> ELSE <<>>)
                 /\ failed' = ~second
                 /\ ops' = IF first THEN [ops EXCEPT ![j].state = "CLOSED"] ELSE ops
                 /\ tasks' = IF first THEN Released(i) ELSE tasks
                 /\ UNCHANGED <<producer, nextToken, commits>>
       ELSE Refuse

\* mapping_policy_decision and network_policy_decision: the decision opens the
\* operation; only a further mprotect row may join one, until a row is denied.
PolicyDecision(t, kind, deny, fits) ==
  \E i \in DOMAIN tasks :
    /\ Active /\ Caller(t, i)
    /\ LET rows == IF kind = "MPROTECT" THEN ActiveOps(i, kind, {"OPEN"}) ELSE {} IN
       IF rows # {}
       THEN \E j \in rows :
              IF ops[j].denied THEN Refuse
              ELSE /\ ops[j].policies < MaxRows
                   /\ Emit("POLICY_DECISION", i, OrdinalOf(j), phase, fits)
                   /\ ops' = IF failed' THEN ops
                             ELSE [ops EXCEPT ![j].policies = @ + 1, ![j].denied = deny]
                   /\ UNCHANGED <<producer, tasks, nextToken, commits>>
       ELSE IF CanOpen(i, kind)
       THEN /\ Emit("POLICY_DECISION", i, OrdinalOf(Len(ops) + 1), phase, fits)
            /\ tasks' = Opened(i)
            /\ ops' = Append(ops, IF failed' THEN NewOp(i, kind)
                                  ELSE [NewOp(i, kind) EXCEPT !.policies = 1, !.denied = deny])
            /\ UNCHANGED <<producer, nextToken, commits>>
       ELSE Refuse

------------------------------------------------------------------------------
(* The control file: runtime_fs.c and handle_command. *)

\* Mutant: a committed exec counts as finished.
Quiescent_CommittedIsDone ==
  /\ \A i \in DOMAIN tasks : tasks[i].reservation = 0
  /\ \A i \in DOMAIN tasks : i # 1 => tasks[i].flags # "LIVE"
  /\ \A j \in DOMAIN ops : ops[j].state # "OPEN"

\* Mutant: live tasks without an operation are overlooked.
Quiescent_IdleTasksIgnored ==
  /\ \A i \in DOMAIN tasks : tasks[i].reservation = 0
  /\ \A j \in DOMAIN ops : ops[j].state \notin OpenStates

\* is_quiescent_locked: only pid 1 is left, and nothing is under way.
Quiescent ==
  /\ \A i \in DOMAIN tasks : tasks[i].reservation = 0
  /\ \A i \in DOMAIN tasks : i # 1 => tasks[i].flags # "LIVE"
  /\ \A j \in DOMAIN ops : ops[j].state \notin OpenStates

\* The command passes every check up to the root identity check.
FromRoot == ~sealed /\ ~failed /\ ready /\ ~Sealing /\ 1 \in Live(Root) /\ Root \notin inflight

AdvancePhase(requested, fits) ==
  /\ boot = "running" /\ FromRoot
  /\ IF requested \in INIT + 1..Finalize /\ requested = phase + 1 /\ Quiescent
     THEN /\ Emit("PHASE_MARKER", 1, 0, requested, fits)
          /\ phase' = IF failed' THEN phase ELSE requested
          /\ UNCHANGED <<bootVars, sealed, command, saved, tasks, ops, nextToken, commits,
                         inflight, userspace>>
     ELSE Refuse

\* SEAL up to the unlock: the TERMINAL frame ends the stream.
SealBegin(fits) ==
  /\ boot = "running" /\ FromRoot
  /\ IF phase = Finalize /\ Quiescent
     THEN /\ Emit("TERMINAL", 0, 0, SEALED, fits)
          /\ phase' = IF failed' THEN phase ELSE SEALED
          /\ command' = IF failed' THEN "idle" ELSE "measuring"
          /\ saved' = IF failed' THEN saved ELSE Len(stream')
          /\ UNCHANGED <<bootVars, sealed, tasks, ops, nextToken, commits, inflight, userspace>>
     ELSE Refuse

\* Mutant: the record is encoded before the TERMINAL frame is appended.
SealedRecord_BeforeTerminal ==
  [kind |-> "SEALED", chain |-> SubSeq(stream, 1, saved - 1), commits |-> commits]

\* The record encode_sealed_record_locked encodes before the unlock.
SealedRecord ==
  [kind |-> "SEALED", chain |-> SubSeq(stream, 1, saved), commits |-> commits]

\* ima_measure_critical_data, with the lock released.
SealMeasure ==
  /\ boot = "running" /\ command = "measuring"
  /\ \/ ima' = Append(ima, SealedRecord) /\ command' = "measured"
     \/ command' = "unmeasured" /\ UNCHANGED ima
  /\ UNCHANGED <<boot, stage, ready, failed, stream, phase, sealed, saved, tasks, ops, nextToken,
                 commits, inflight, userspace>>

\* Mutant: failures marked during the measurement are not looked for.
SealEnd_NoRecheck ==
  /\ boot = "running" /\ command \in {"measured", "unmeasured"}
  /\ command' = "idle"
  /\ IF command = "unmeasured" \/ Len(stream) # saved
     THEN failed' = TRUE /\ UNCHANGED sealed
     ELSE sealed' = TRUE /\ UNCHANGED failed
  /\ UNCHANGED <<bootVars, stream, phase, saved, tasks, ops, nextToken, commits, inflight,
                 userspace>>

\* SEAL after the lock is taken again.
SealEnd ==
  /\ boot = "running" /\ command \in {"measured", "unmeasured"}
  /\ command' = "idle"
  /\ IF failed \/ command = "unmeasured" \/ Len(stream) # saved
     THEN failed' = TRUE /\ UNCHANGED sealed
     ELSE sealed' = TRUE /\ UNCHANGED failed
  /\ UNCHANGED <<bootVars, stream, phase, saved, tasks, ops, nextToken, commits, inflight,
                 userspace>>

\* A command that is malformed, is not addressed to this run, does not come
\* from pid 1, or arrives while another seals.
BadCommand ==
  /\ boot = "running" /\ ~sealed /\ ~failed
  /\ Refuse

------------------------------------------------------------------------------
Boot == RuntimeInit \/ ImaReady \/ Canary \/ PrepareReady \/ MeasureReady \/ ReadyMeasured
        \/ PrepareRelease \/ MeasureRelease \/ ReleaseMeasured \/ Publish \/ BindRoot

Ordinals == 2..Len(ops) + 2

Hook(t) ==
  \/ EnterBadHook(t)
  \/ MarkFailure(t)
  \/ ExecReserve(t)
  \/ \E o \in Ordinals, file \in Files : FileGateObservation(t, o, file)
  \/ \E fits \in BOOLEAN :
       \/ TaskAllocAttempt(t, fits)
       \/ \E child \in Tokens : TaskCreated(t, child, fits)
       \/ TaskExit(t, fits)
       \/ ExecAttempt(t, fits)
       \/ ExecPass(t, fits)
       \/ ExecCommit(t, fits)
       \/ FileOpenAttempt(t, fits)
       \/ \E o \in Ordinals, error \in BOOLEAN : OperationReturn(t, o, error, fits)
       \/ \E token \in 0..TokenLimit - 1, error \in BOOLEAN : ExecReturn(t, token, error, fits)
       \/ \E o \in Ordinals, deny \in BOOLEAN : FilePolicyDecision(t, o, deny, fits)
       \/ \E kind \in Decided, deny \in BOOLEAN :
            PolicyDecision(t, kind, deny, fits)
       \/ \E file \in Files \cup {None}, fits2 \in BOOLEAN :
            FileOpenReturn(t, file, fits, fits2)

Control ==
  \/ \E requested \in 0..SEALED, fits \in BOOLEAN : AdvancePhase(requested, fits)
  \/ \E fits \in BOOLEAN : SealBegin(fits)
  \/ SealMeasure
  \/ SealEnd
  \/ BadCommand

Next ==
  \/ Boot
  \/ Exec
  \/ UntrackedHook
  \/ \E t \in Tokens : Hook(t)
  \/ Control

Spec == Init /\ [][Next]_vars

------------------------------------------------------------------------------
(* Properties. *)

TypeOK ==
  /\ boot \in Boots /\ stage \in Stages /\ ready \in BOOLEAN /\ failed \in BOOLEAN
  /\ stream \in Seq(Frame) /\ phase \in PRE_RELEASE..SEALED /\ sealed \in BOOLEAN
  /\ command \in {"idle", "measuring", "measured", "unmeasured"} /\ saved \in Nat
  /\ tasks \in Seq(TaskRecord) /\ ops \in Seq(OpRecord)
  /\ nextToken \in 0..TokenLimit - 1 /\ commits \in Nat
  /\ inflight \subseteq Tokens /\ ima \in Seq(Record) /\ userspace \in BOOLEAN
  /\ Len(tasks) <= MaxTasks /\ Len(ops) <= MaxOps /\ Len(stream) <= MaxFrames

Closing == {"OPERATION_RETURN", "TASK_CREATED"}

\* A stream that can be read is the whole story of the run: the TERMINAL frame
\* ends it, every operation it shows is closed by its last frame and lies within
\* one phase, every task it creates exits, and EXEC_COMMIT frames are counted.
SealedStreamIsComplete ==
  sealed =>
    /\ stream[Len(stream)].event = "TERMINAL"
    /\ \A m \in DOMAIN stream : stream[m].op > 1 =>
         \E n \in m..Len(stream) :
           /\ stream[n].op = stream[m].op /\ stream[n].event \in Closing
           /\ stream[n].phase = stream[m].phase
           /\ \A k \in n + 1..Len(stream) : stream[k].op # stream[m].op
    /\ \A m \in DOMAIN stream : stream[m].event = "TASK_CREATED" =>
         \E n \in m + 1..Len(stream) :
           stream[n].event = "TASK_EXIT" /\ stream[n].task = stream[m].task
    /\ commits = Cardinality({m \in DOMAIN stream : stream[m].event = "EXEC_COMMIT"})

\* What stream_read returns is exactly what IMA measured: the last record is
\* the SEALED one, and its chain and commit count are those of the stream.
MeasuredIsWhatIsRead ==
  sealed => /\ ima # <<>>
            /\ ima[Len(ima)] = [kind |-> "SEALED", chain |-> stream, commits |-> commits]

\* A sealed core stays green: no hook that looked at runtime_is_sealed before
\* the seal marks a failure after it.
SealedStaysGreen == sealed => ~failed

\* Exactly one frame of the chain is a denied exec.
OneDenial(chain) ==
  \E m \in DOMAIN chain : \A n \in DOMAIN chain : (chain[n].event = "EXEC_DENIED") <=> (n = m)

\* The first userspace exec passes only after the READY and the RELEASED record
\* were measured, in that order, and the second covers exactly one denied exec.
ReleasedOnlyAfterMeasurement ==
  userspace =>
    /\ Len(ima) >= 2 /\ ima[1].kind = "READY" /\ ima[2].kind = "RELEASED"
    /\ OneDenial(ima[2].chain)

\* The failure is sticky: a failed core records nothing more, never seals and
\* lets no exec pass.  Nor does a sealed one ever change its stream.
FailureIsFinal ==
  [][/\ failed => failed' /\ stream' = stream /\ sealed' = sealed /\ userspace' = userspace
     /\ sealed => sealed' /\ stream' = stream]_vars
==============================================================================
