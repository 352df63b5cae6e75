----------------------------- MODULE Appraiser -----------------------------
(***************************************************************************)
(* The offline appraiser of a sealed trace stream                          *)
(* (conf_proc_spp_diag_trace_semantics.py): _Reducer.consume folds the     *)
(* frames into tasks, operations and phases, and accepts only a stream     *)
(* that tells one complete run of the control plan.  Anything else is      *)
(* refused with a reason, which is left out here: `ok' is FALSE for good.  *)
(*                                                                         *)
(* A frame carries its event, task, parent, operation and phase, and of    *)
(* its payload what the reducer looks at: the kind of operation, the path  *)
(* or object, whether a policy denied, and the sign of the result.  The    *)
(* plan names one path per control, so a path is "plan" (the one this      *)
(* phase's control names) or "other"; the process and thread ids follow    *)
(* the task.  The producer writes any frames, within the bounds.           *)
(***************************************************************************)
EXTENDS Naturals, Sequences, FiniteSets

CONSTANTS
  Cold, Model, Jit,         \* the phases cold_start, synthetic_inference, jit_cache
  Poison, Remote, Denied,   \* the phases of each kind of refusal
  Final,                    \* evidence_finalize, the last phase
  MaxTasks,                 \* bound: task ordinals
  Budget,                   \* bound: operations of each phase
  MaxOpen,                  \* bound: operations open at a time
  MaxRows,                  \* bound: passes of an exec, rows of a policy
  None

VARIABLES
  r,     \* the reducer's state
  log,   \* history: the frames of the current phase that bear on its control
  story  \* history: every closed phase shows its control

vars == <<r, log, story>>

Controls == Poison \cup Remote \cup Denied

Fresh ==
  [ok |-> TRUE, stage |-> 0, phase |-> 0, root |-> 0, tasks |-> <<>>, open |-> <<>>,
   used |-> {}, hits |-> 0, cold |-> {}, object |-> None, jit |-> 0,
   terminal |-> FALSE]

-----------------------------------------------------------------------------
IsLive(s, t) == t \in DOMAIN s.tasks /\ s.tasks[t].live /\ ~s.tasks[t].doomed

OthersLive(s) == \E t \in DOMAIN s.tasks : t # s.root /\ s.tasks[t].live

OpensOf(s, t) == {o \in DOMAIN s.open : s.open[o].task = t}

\* _operation: an open operation of this kind, task and phase.
Mine(s, f, kind) ==
  /\ f.op \in DOMAIN s.open
  /\ s.open[f.op].kind = kind /\ s.open[f.op].task = f.task /\ s.open[f.op].phase = f.phase

NewOp(f, kind) ==
  [kind |-> kind, task |-> f.task, parent |-> f.parent, phase |-> f.phase, path |-> f.path,
   passes |-> 0, committed |-> FALSE, denied |-> FALSE, rows |-> 0, objects |-> {}]

Put(m, k, v) == [x \in DOMAIN m \cup {k} |-> IF x = k THEN v ELSE m[x]]
Drop(m, k) == [x \in DOMAIN m \ {k} |-> m[x]]

\* _mint_operation
CanMint(s, f) == f.op \notin s.used
Mint(s, f, kind) == [s EXCEPT !.used = @ \cup {f.op}, !.open = Put(@, f.op, NewOp(f, kind))]

Close(s, o) == [s EXCEPT !.open = Drop(@, o)]

\* One more policy row; a file keeps the object it was decided on.
Row(s, f) ==
  LET op == s.open[f.op]
  IN [s EXCEPT !.open[f.op] = [op EXCEPT !.rows = op.rows + 1, !.denied = f.deny,
                                         !.objects = op.objects \cup {f.object}]]

-----------------------------------------------------------------------------
\* What each handler requires of a frame, and what it then does.

AllocOk(s, f) ==
  s.phase \notin Controls /\ IsLive(s, f.parent) /\ f.task \notin DOMAIN s.tasks /\ CanMint(s, f)

Alloc(s, f) == Mint(s, f, "task_alloc")

\* The parent of the allocation must be live still, and be the parent now.
CreatedOk(s, f) ==
  /\ s.phase \notin Controls
  /\ Mine(s, f, "task_alloc") /\ s.open[f.op].parent = f.parent
  /\ IsLive(s, f.parent) /\ f.task \notin DOMAIN s.tasks

Created(s, f) ==
  Close([s EXCEPT !.tasks = Put(@, f.task, [parent |-> f.parent, live |-> TRUE,
                                            doomed |-> FALSE, minted |-> f.phase])], f.op)

\* _exec_attempt mints or continues.
AttemptOk(s, f) ==
  /\ s.phase \notin Poison \cup Remote
  /\ IsLive(s, f.task)
  /\ IF f.op \in DOMAIN s.open
     THEN Mine(s, f, "exec") /\ ~s.open[f.op].committed /\ s.open[f.op].path = f.path
     ELSE CanMint(s, f)
  /\ s.phase \in Denied => f.path = "plan"

Attempt(s, f) ==
  LET t == IF f.op \in DOMAIN s.open THEN s ELSE Mint(s, f, "exec")
  IN [t EXCEPT !.open[f.op].passes = @ + 1]

CommitOk(s, f) ==
  s.phase \notin Controls /\ IsLive(s, f.task) /\ Mine(s, f, "exec") /\ ~s.open[f.op].committed

Commit(s, f) == [s EXCEPT !.open[f.op].committed = TRUE]

FileAttemptOk(s, f) ==
  /\ s.phase \notin Remote \cup Denied
  /\ IsLive(s, f.task) /\ CanMint(s, f)
  /\ s.phase \in Poison => f.path = "plan"

FilePolicyOk(s, f) ==
  /\ s.phase \notin Controls
  /\ IsLive(s, f.task) /\ Mine(s, f, "file_open") /\ s.open[f.op].rows = 0

\* The jit object is remembered from its file's decision (the model's only
\* labels rows of the ledger).
FilePolicy(s, f) ==
  IF s.phase = Jit /\ s.open[f.op].path = "plan"
  THEN [Row(s, f) EXCEPT !.object = f.object] ELSE Row(s, f)

MappingPolicyOk(s, f) ==
  /\ s.phase \notin Controls
  /\ f.kind \in {"mmap", "mprotect"}
  /\ IsLive(s, f.task)
  /\ IF f.op \in DOMAIN s.open
     THEN Mine(s, f, "mprotect") /\ f.kind = "mprotect" /\ ~s.open[f.op].denied
     ELSE CanMint(s, f)

MappingPolicy(s, f) == Row(IF f.op \in DOMAIN s.open THEN s ELSE Mint(s, f, f.kind), f)

\* In a remote phase the decision must be the denial of the plan's endpoint.
NetworkPolicyOk(s, f) ==
  /\ s.phase \notin Poison \cup Denied
  /\ IsLive(s, f.task) /\ CanMint(s, f)
  /\ s.phase \in Remote => f.path = "plan" /\ f.deny

NetworkPolicy(s, f) == Row(Mint(s, f, "connect"), f)

\* _policy_result: a denied operation returns its denial.
PolicyResultOk(op, f) == op.denied => ~f.success

ReturnOk(s, f) ==
  /\ IsLive(s, f.task) /\ Mine(s, f, f.kind)
  /\ LET op == s.open[f.op] IN
     CASE f.kind = "exec" ->
            /\ f.success => op.committed
            /\ s.phase \in Denied => ~op.committed /\ op.passes = 1 /\ op.path = "plan"
            /\ s.phase = Cold /\ op.path = "plan" /\ f.success => f.task \notin s.cold
            /\ ~f.success /\ op.committed => f.task # s.root
       [] f.kind = "file_open" ->
            IF op.rows = 0
            THEN s.phase \in Poison /\ op.path = "plan" /\ ~f.success
            ELSE PolicyResultOk(op, f)
       [] f.kind \in {"mmap", "mprotect"} ->
            /\ op.rows > 0
            /\ PolicyResultOk(op, f)
            /\ s.phase = Jit /\ s.object # None /\ op.objects = {s.object} /\ f.success =>
                 \/ f.kind = "mmap" /\ s.jit = 1
                 \/ f.kind = "mprotect" /\ s.jit = 2
       [] f.kind = "connect" -> op.rows = 1 /\ ~f.success
       [] OTHER -> FALSE

\* The return completes a control of its phase; and how far it gets the jit object.
Completes(s, f) ==
  LET op == s.open[f.op] IN
  CASE f.kind = "exec" -> s.phase \in Denied
    [] f.kind = "file_open" ->
         \/ op.rows = 0
         \/ s.phase \in {Model, Jit} /\ op.path = "plan" /\ f.success
    [] f.kind = "connect" -> s.phase \in Remote
    [] OTHER -> FALSE

JitStage(s, f) ==
  LET op == s.open[f.op]
      same == s.object # None /\ op.objects = {s.object}
  IN IF s.phase # Jit \/ ~f.success THEN s.jit
     ELSE IF f.kind = "file_open" /\ op.path = "plan" THEN 1
     ELSE IF same /\ f.kind = "mmap" THEN 2
     ELSE IF same /\ f.kind = "mprotect" THEN 3
     ELSE s.jit

Return(s, f) ==
  LET op == s.open[f.op]
  IN [Close(s, f.op) EXCEPT
        !.hits = @ + (IF Completes(s, f) THEN 1 ELSE 0),
        !.jit = JitStage(s, f),
        !.cold = IF f.kind = "exec" /\ s.phase = Cold /\ op.path = "plan" /\ f.success
                 THEN @ \cup {f.task} ELSE @,
        !.tasks[f.task].doomed = @ \/ (f.kind = "exec" /\ ~f.success /\ op.committed)]

ExitOk(s, f) ==
  /\ s.phase \notin Controls
  /\ f.task \in DOMAIN s.tasks /\ s.tasks[f.task].live
  /\ f.task # s.root /\ s.tasks[f.task].parent = f.parent /\ s.tasks[f.task].minted = f.phase
  /\ OpensOf(s, f.task) = {}
  /\ s.tasks[f.task].doomed => ~f.success
  /\ f.task \in s.cold => s.phase = Cold /\ f.success

Exit(s, f) ==
  [s EXCEPT !.tasks[f.task].live = FALSE,
            !.hits = @ + (IF f.task \in s.cold THEN 1 ELSE 0)]

\* Mutant: a control that was seen twice closes its phase all the same.
ControlClosed_AtLeastOnce(s) ==
  s.phase = 1 \/ (s.hits >= 1 /\ (s.phase = Jit => s.jit = 3))

\* _phase_control_closed
ControlClosed(s) == s.phase = 1 \/ (s.hits = 1 /\ (s.phase = Jit => s.jit = 3))

MarkerOk(s, f) ==
  /\ f.task = s.root /\ f.phase = s.phase + 1 /\ s.phase < Final
  /\ DOMAIN s.open = {} /\ ~OthersLive(s)
  /\ ControlClosed(s)

Marker(s, f) == [s EXCEPT !.phase = f.phase, !.hits = 0]

\* The last phase holds the terminal frame and no other (see RuntimeOk).
TerminalOk(s, f) == s.phase = Final /\ DOMAIN s.open = {} /\ ~OthersLive(s)

RuntimeOk(s, f) ==
  \/ f.event = "PHASE_MARKER" /\ MarkerOk(s, f)
  \/ f.event = "TERMINAL" /\ TerminalOk(s, f)
  \/ /\ f.phase = s.phase /\ s.phase # Final
     /\ \/ f.event = "TASK_ALLOC_ATTEMPT" /\ AllocOk(s, f)
        \/ f.event = "TASK_CREATED" /\ CreatedOk(s, f)
        \/ f.event = "EXEC_ATTEMPT" /\ AttemptOk(s, f)
        \/ f.event = "EXEC_COMMIT" /\ CommitOk(s, f)
        \/ f.event = "FILE_OPEN_ATTEMPT" /\ FileAttemptOk(s, f)
        \/ f.event = "FILE_POLICY" /\ FilePolicyOk(s, f)
        \/ f.event = "MAPPING_POLICY" /\ MappingPolicyOk(s, f)
        \/ f.event = "NETWORK_POLICY" /\ NetworkPolicyOk(s, f)
        \/ f.event = "OPERATION_RETURN" /\ ReturnOk(s, f)
        \/ f.event = "TASK_EXIT" /\ ExitOk(s, f)

Runtime(s, f) ==
  CASE f.event = "PHASE_MARKER" -> Marker(s, f)
    [] f.event = "TERMINAL" -> [s EXCEPT !.terminal = TRUE]
    [] f.event = "TASK_ALLOC_ATTEMPT" -> Alloc(s, f)
    [] f.event = "TASK_CREATED" -> Created(s, f)
    [] f.event = "EXEC_ATTEMPT" -> Attempt(s, f)
    [] f.event = "EXEC_COMMIT" -> Commit(s, f)
    [] f.event = "FILE_OPEN_ATTEMPT" -> Mint(s, f, "file_open")
    [] f.event = "FILE_POLICY" -> FilePolicy(s, f)
    [] f.event = "MAPPING_POLICY" -> MappingPolicy(s, f)
    [] f.event = "NETWORK_POLICY" -> NetworkPolicy(s, f)
    [] f.event = "OPERATION_RETURN" -> Return(s, f)
    [] f.event = "TASK_EXIT" -> Exit(s, f)

\* The four frames of the bootstrap, in order.
Bootstrap == <<"CORE_INIT", "EXEC_DENIED", "IMA_READY", "USERSPACE_RELEASE">>

Staged(s, f) ==
  [s EXCEPT !.stage = @ + 1,
            !.used = IF s.stage = 1 THEN @ \cup {f.op} ELSE @,
            !.root = IF s.stage = 3 THEN f.task ELSE @,
            !.phase = IF s.stage = 3 THEN 1 ELSE 0,
            !.tasks = IF s.stage = 3
                      THEN Put(@, f.task, [parent |-> 0, live |-> TRUE, doomed |-> FALSE,
                                           minted |-> 0]) ELSE @]

\* consume
Consume(s, f) ==
  IF ~s.ok THEN s
  ELSE IF s.terminal THEN [s EXCEPT !.ok = FALSE]
  ELSE IF s.stage < 4
  THEN IF f.event = Bootstrap[s.stage + 1] THEN Staged(s, f) ELSE [s EXCEPT !.ok = FALSE]
  ELSE IF RuntimeOk(s, f) THEN Runtime(s, f) ELSE [s EXCEPT !.ok = FALSE]

-----------------------------------------------------------------------------
\* The producer: any frame within the bounds, of a fresh or an earlier operation.
Blank ==
  [event |-> "", task |-> 1, parent |-> 0, op |-> 0, phase |-> r.phase, kind |-> "none",
   path |-> "other", object |-> None, deny |-> FALSE, success |-> FALSE]

\* Ordinals: the open ones, and to mint the next of this phase or a used one.
Known == DOMAIN r.open

Mintable ==
  LET free == {10 * r.phase + k : k \in 1 .. Budget[r.phase]} \ r.used
  IN {1} \cup (IF Cardinality(DOMAIN r.open) < MaxOpen
               THEN {o \in free : \A q \in free : o <= q} ELSE {})

WithinRows(s) == \A o \in DOMAIN s.open : s.open[o].passes <= MaxRows /\ s.open[o].rows <= MaxRows

Paths == {"plan", "other"}
Kinds == {"exec", "file_open", "mmap", "mprotect", "connect"}
Objects == {"file", "elsewhere"}

Frames ==
  LET In(ops) == {[Blank EXCEPT !.task = t, !.op = o] : t \in 1 .. MaxTasks, o \in ops}
  IN      {[f EXCEPT !.event = "TASK_ALLOC_ATTEMPT", !.parent = p] :
             f \in In(Mintable), p \in {0, 1}}
     \cup {[f EXCEPT !.event = "TASK_CREATED", !.parent = 1] : f \in In(Known)}
     \cup {[f EXCEPT !.event = "EXEC_ATTEMPT", !.path = p] :
             f \in In(Known \cup Mintable), p \in Paths}
     \cup {[f EXCEPT !.event = "EXEC_COMMIT"] : f \in In(Known)}
     \cup {[f EXCEPT !.event = "FILE_OPEN_ATTEMPT", !.path = p] :
             f \in In(Mintable), p \in Paths}
     \cup {[f EXCEPT !.event = "FILE_POLICY", !.object = x, !.deny = d] :
             f \in In(Known), x \in Objects, d \in BOOLEAN}
     \cup {[f EXCEPT !.event = "MAPPING_POLICY", !.kind = k, !.object = x, !.deny = d] :
             f \in In(Known \cup Mintable), k \in {"mmap", "mprotect"}, x \in Objects,
             d \in BOOLEAN}
     \cup {[f EXCEPT !.event = "NETWORK_POLICY", !.path = p, !.deny = d] :
             f \in In(Mintable), p \in Paths, d \in BOOLEAN}
     \cup {[f EXCEPT !.event = "OPERATION_RETURN", !.kind = k, !.success = b] :
             f \in In(Known), k \in Kinds, b \in BOOLEAN}
     \cup {[Blank EXCEPT !.event = "TASK_EXIT", !.task = t, !.parent = 1, !.success = b] :
             t \in 1 .. MaxTasks, b \in BOOLEAN}
     \cup {[Blank EXCEPT !.event = "PHASE_MARKER", !.phase = n] : n \in {r.phase, r.phase + 1}}
     \cup {[Blank EXCEPT !.event = "TERMINAL"]}

BootFrames == {[Blank EXCEPT !.event = e, !.op = 1] : e \in {Bootstrap[i] : i \in 1 .. 4}}

Init == r = Fresh /\ log = <<>> /\ story = TRUE

\* The frames that bear on the control of a phase.
Bears(phase, f) ==
  CASE phase \in Controls -> TRUE
    [] phase = Cold ->
         \/ f.event \in {"EXEC_ATTEMPT", "TASK_EXIT"}
         \/ f.event = "OPERATION_RETURN" /\ f.kind = "exec"
    [] phase = Model ->
         \/ f.event = "FILE_OPEN_ATTEMPT"
         \/ f.event = "OPERATION_RETURN" /\ f.kind = "file_open"
    [] phase = Jit ->
         \/ f.event \in {"FILE_OPEN_ATTEMPT", "FILE_POLICY", "MAPPING_POLICY"}
         \/ f.event = "OPERATION_RETURN" /\ f.kind \notin {"exec", "connect"}
    [] OTHER -> FALSE

\* What the frames l of a phase show, read without the reducer: the i-th is of an
\* operation attempted on the path of the plan,
OfThePlan(l, i) ==
  \E j \in 1 .. i - 1 : /\ l[j].event \in {"EXEC_ATTEMPT", "FILE_OPEN_ATTEMPT"}
                         /\ l[j].op = l[i].op /\ l[j].path = "plan"

\* it returns from an operation of this kind with success,
Returns(l, i, kind) == l[i].event = "OPERATION_RETURN" /\ l[i].kind = kind /\ l[i].success

Succeeded(l, kind) == {i \in 1 .. Len(l) : Returns(l, i, kind) /\ OfThePlan(l, i)}

\* and it mapped an object that was looked up at the plan's path, every row allowing it.
Mapped(l, kind) ==
  {i \in 1 .. Len(l) :
     /\ Returns(l, i, kind)
     /\ \E d \in 1 .. i - 1 :
          /\ l[d].event = "FILE_POLICY" /\ OfThePlan(l, d)
          /\ \A j \in 1 .. i - 1 : l[j].op = l[i].op => l[j].object = l[d].object /\ ~l[j].deny}

\* Two frames: the attempt on the plan's path, and its failure.
Refused(l, event) ==
  /\ Len(l) = 2
  /\ l[1].event = event /\ l[1].path = "plan"
  /\ l[2].event = "OPERATION_RETURN" /\ ~l[2].success /\ l[2].op = l[1].op

Shows(l, root, phase) ==
  CASE phase \in Poison -> Refused(l, "FILE_OPEN_ATTEMPT")
    [] phase \in Remote -> Refused(l, "NETWORK_POLICY") /\ l[1].deny
    [] phase \in Denied -> Refused(l, "EXEC_ATTEMPT")
    [] phase = Cold ->
         \E i \in 1 .. Len(l) :
           /\ {i} = {j \in Succeeded(l, "exec") : l[j].task # root}
           /\ \E j \in i + 1 .. Len(l) :
                l[j].event = "TASK_EXIT" /\ l[j].task = l[i].task /\ l[j].success
    [] phase = Model -> \E i \in 1 .. Len(l) : {i} = Succeeded(l, "file_open")
    [] phase = Jit ->
         \E i \in 1 .. Len(l) :
           /\ {i} = Succeeded(l, "file_open")
           /\ \E j \in Mapped(l, "mmap"), k \in Mapped(l, "mprotect") : i < j /\ j < k
    [] OTHER -> TRUE

Feed ==
  /\ r.ok /\ ~r.terminal
  /\ \E f \in IF r.stage < 4 THEN BootFrames ELSE Frames :
       LET next == Consume(r, f) IN
       /\ WithinRows(next)
       /\ r' = IF next.ok THEN next ELSE [Fresh EXCEPT !.ok = FALSE]
       /\ log' = IF ~next.ok \/ next.phase # r.phase THEN <<>>
                 ELSE IF Bears(r.phase, f) THEN Append(log, f) ELSE log
       /\ story' = (story /\ (next.ok /\ next.phase # r.phase /\ r.phase > 0 => Shows(log, r.root, r.phase)))

\* A frame after the end of the run.
FeedMore ==
  /\ r.terminal /\ r.ok
  /\ r' = Consume(r, [Blank EXCEPT !.event = "TERMINAL"])
  /\ UNCHANGED <<log, story>>

Next == Feed \/ FeedMore

-----------------------------------------------------------------------------
\* An accepted stream tells the whole control plan: every closed phase showed its
\* control, exactly once and with nothing that would excuse it (a poison path
\* looked up in vain, a planned exec and a planned endpoint refused, one cold
\* start by a child that ran to a clean exit, one model load, the jit path opened
\* once, then an object looked up there mapped and then one made executable), and
\* at the end nothing is left open (_Reducer.consume and the handlers under it).
AcceptedTellsThePlan ==
  r.ok => /\ story
          /\ r.terminal => r.phase = Final /\ DOMAIN r.open = {} /\ ~OthersLive(r)
=============================================================================
