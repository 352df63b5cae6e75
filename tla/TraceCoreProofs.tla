--------------------------- MODULE TraceCoreProofs ---------------------------
(***************************************************************************)
(* Proofs about the trace core, for every number of tasks, operations,     *)
(* frames and phases.  Every hook keeps a small contract (Keeps): it       *)
(* leaves the boot, seal and phase state alone, only extends the stream,   *)
(* and neither drops a task that is inside another hook nor touches pid    *)
(* 1's identity.  The inductive invariant IInv is proved from that         *)
(* contract and from the boot and control actions.                         *)
(*                                                                         *)
(* The second half proves that the stream a sealed core hands out is the   *)
(* whole story of the run.  Told says what the stream tells while the core *)
(* is green, also in the middle of the run, and a second contract (Tells)  *)
(* relates the frames a step adds to the tables it changes.                *)
(*                                                                         *)
(* The last part is about the appraiser, which reads any stream: what its  *)
(* counters mean for the frames it has read (Good), in every phase.        *)
(***************************************************************************)
EXTENDS Trace, FiniteSetTheorems, TLAPS

\* The call of a task inside a hook has not returned: it is still tracked.
BusyIsLive == \A t \in inflight : Live(t) # {}

\* Slot 0 holds pid 1 from the moment the interval opens.
RootFirst ==
  tasks # <<>> => /\ tasks[1].token = Root /\ tasks[1].parent = 0
                  /\ boot = "running"

\* From the TERMINAL frame on nothing but pid 1 is alive, so no hook is in
\* flight that could still mark a failure.
SealIsQuiet ==
  command # "idle" \/ sealed =>
    /\ phase = SEALED /\ inflight = {}
    /\ \A i \in DOMAIN tasks : i # 1 => tasks[i].flags # "LIVE"

\* What SEAL saved before the unlock still describes the stream.
SealIsExact ==
  /\ command # "idle" => saved = Len(stream)
  /\ command = "measured" \/ sealed =>
       /\ ima # <<>>
       /\ ima[Len(ima)] = [kind |-> "SEALED", chain |-> stream, commits |-> commits]
  /\ sealed => command = "idle" /\ ~failed

Early == {"CORE_READY", "IMA_AVAILABLE"}

NoDenial(chain) == \A m \in DOMAIN chain : chain[m].event # "EXEC_DENIED"

DenialMatchesStage ==
  IF stage \in Early THEN NoDenial(stream) ELSE OneDenial(stream)

ReleaseRecords ==
  /\ Len(ima) >= 2 /\ ima[1].kind = "READY" /\ ima[2].kind = "RELEASED"
  /\ OneDenial(ima[2].chain)

\* How far the boot thread is tells what has been measured.
BootMatchesRecords ==
  /\ phase # PRE_RELEASE \/ inflight # {} => boot = "running"
  /\ boot \in {"bind_root", "running"} => stage = "RELEASED"
  /\ boot \in {"measure_ready", "ready_state", "prepare_release", "measure_release",
               "release_state", "publish"} => stage \notin Early
  /\ boot \in {"runtime_init", "ima_ready", "canary", "ready", "measure_ready"} => ima = <<>>
  /\ boot \in {"ready_state", "prepare_release", "measure_release"} =>
       Len(ima) = 1 /\ ima[1].kind = "READY"
  /\ boot \in {"release_state", "publish"} \/ stage = "RELEASED" => ReleaseRecords
  /\ userspace => stage = "RELEASED"

IInv ==
  /\ TypeOK /\ BusyIsLive /\ RootFirst /\ SealIsQuiet /\ SealIsExact
  /\ DenialMatchesStage /\ BootMatchesRecords

------------------------------------------------------------------------------
(* The contract of a hook. *)

Grew ==
  /\ stream' \in Seq(Frame) /\ Len(stream') <= MaxFrames /\ Len(stream) <= Len(stream')
  /\ \A m \in 1..Len(stream) : stream'[m] = stream[m]
  /\ \A m \in Len(stream) + 1..Len(stream') : stream'[m].event # "EXEC_DENIED"

TasksKept ==
  /\ tasks' \in Seq(TaskRecord) /\ Len(tasks') <= MaxTasks
  /\ tasks = <<>> => tasks' = <<>>
  /\ tasks # <<>> => tasks'[1].token = tasks[1].token /\ tasks'[1].parent = tasks[1].parent
  /\ \A u \in inflight : Live(u) # {} => Live(u)' # {}

OpsKept == ops' \in Seq(OpRecord) /\ Len(ops') <= MaxOps

CountersKept == nextToken' \in 0..TokenLimit - 1 /\ commits' \in Nat

Keeps ==
  /\ UNCHANGED producer /\ failed' \in BOOLEAN
  /\ Grew /\ TasksKept /\ OpsKept /\ CountersKept

\* Appending keeps a sequence of frames, and shows only the new frame.
LEMMA AppendFrame ==
  ASSUME NEW s \in Seq(Frame), NEW f \in Frame
  PROVE  /\ Append(s, f) \in Seq(Frame) /\ Len(Append(s, f)) = Len(s) + 1
         /\ \A m \in 1..Len(s) : Append(s, f)[m] = s[m]
         /\ Append(s, f)[Len(s) + 1] = f
  OBVIOUS

\* append_locked extends the stream by at most the given frame.
LEMMA EmitGrows ==
  ASSUME TypeOK, NEW event \in Events, event # "EXEC_DENIED", NEW task \in Nat, NEW op \in Nat,
         NEW ph \in PRE_RELEASE..SEALED, NEW fits \in BOOLEAN,
         Emit(event, task, op, ph, fits)
  PROVE  Grew /\ failed' \in BOOLEAN
<1> DEFINE f == [event |-> event, task |-> task, op |-> op, phase |-> ph]
           taken == fits /\ Len(stream) < MaxFrames
<1>1. f \in Frame /\ f.event # "EXEC_DENIED"  BY DEF Frame
<1>2. stream \in Seq(Frame) /\ Len(stream) <= MaxFrames /\ Len(stream) \in Nat /\ MaxFrames \in Nat
  BY CapAssumption DEF TypeOK
<1>3. stream' = (IF taken THEN Append(stream, f) ELSE stream) /\ failed' = ~taken
  BY DEF Emit
<1> HIDE DEF f
<1>4. CASE taken
  BY <1>1, <1>2, <1>3, <1>4, AppendFrame DEF Grew
<1>5. CASE ~taken
  BY <1>2, <1>3, <1>5 DEF Grew
<1> QED  BY <1>3, <1>4, <1>5

\* A hook that changes no task's token, parent or flags keeps the table.
LEMMA SameIdentity ==
  ASSUME TypeOK, tasks' \in Seq(TaskRecord), Len(tasks') <= MaxTasks,
         Len(tasks) <= Len(tasks'), tasks = <<>> => tasks' = <<>>,
         \A k \in DOMAIN tasks : /\ tasks'[k].token = tasks[k].token
                                 /\ tasks'[k].parent = tasks[k].parent
                                 /\ tasks'[k].flags = tasks[k].flags
  PROVE  TasksKept
<1>1. tasks \in Seq(TaskRecord) /\ DOMAIN tasks = 1..Len(tasks) /\ DOMAIN tasks' = 1..Len(tasks')
  BY DEF TypeOK
<1>2. tasks # <<>> => 1 \in DOMAIN tasks
  BY <1>1
<1>3. ASSUME NEW u \in inflight, Live(u) # {} PROVE Live(u)' # {}
  <2>1. PICK i \in DOMAIN tasks : tasks[i].token = u /\ tasks[i].flags = "LIVE"
    BY <1>3 DEF Live
  <2>2. i \in DOMAIN tasks' /\ tasks'[i].token = u /\ tasks'[i].flags = "LIVE"
    BY <1>1, <2>1
  <2> QED  BY <2>2 DEF Live
<1> QED  BY <1>2, <1>3 DEF TasksKept

\* An operation's or a task's record is replaced by one of the same type.
LEMMA ReplaceOp ==
  ASSUME NEW s \in Seq(OpRecord), NEW j \in DOMAIN s, NEW e \in OpRecord
  PROVE  [s EXCEPT ![j] = e] \in Seq(OpRecord) /\ Len([s EXCEPT ![j] = e]) = Len(s)
  OBVIOUS

LEMMA ReplaceTask ==
  ASSUME NEW s \in Seq(TaskRecord), NEW j \in DOMAIN s, NEW e \in TaskRecord
  PROVE  /\ [s EXCEPT ![j] = e] \in Seq(TaskRecord) /\ Len([s EXCEPT ![j] = e]) = Len(s)
         /\ DOMAIN [s EXCEPT ![j] = e] = DOMAIN s
         /\ [s EXCEPT ![j] = e][j] = e
         /\ \A k \in DOMAIN s \ {j} : [s EXCEPT ![j] = e][k] = s[k]
  OBVIOUS

\* Counting an operation in or out changes only the count.
LEMMA CountTypes ==
  ASSUME TypeOK, NEW i \in DOMAIN tasks,
         NEW T, T = Opened(i) \/ T = Released(i)
  PROVE  /\ T \in Seq(TaskRecord) /\ Len(T) = Len(tasks) /\ DOMAIN T = DOMAIN tasks
         /\ \A k \in DOMAIN tasks : /\ T[k].token = tasks[k].token
                                    /\ T[k].parent = tasks[k].parent
                                    /\ T[k].flags = tasks[k].flags
                                    /\ T[k].reservation = tasks[k].reservation
                                    /\ T[k] \in TaskRecord
<1>1. tasks \in Seq(TaskRecord) /\ tasks[i] \in TaskRecord  BY DEF TypeOK
<1>2. PICK n \in Nat : T = [tasks EXCEPT ![i] = [tasks[i] EXCEPT !.open = n]]
  <2>1. tasks[i].open \in Nat  BY <1>1 DEF TaskRecord
  <2>2. CASE T = Opened(i)
    <3>1. T = [tasks EXCEPT ![i] = [tasks[i] EXCEPT !.open = tasks[i].open + 1]]
      BY <2>2 DEF Opened
    <3>2. tasks[i].open + 1 \in Nat  BY <2>1
    <3> QED  BY <3>1, <3>2
  <2>3. CASE T = Released(i)
    <3> DEFINE n == IF tasks[i].open > 0 THEN tasks[i].open - 1 ELSE tasks[i].open
    <3>1. n \in Nat  BY <2>1
    <3>2. T = [tasks EXCEPT ![i] = [tasks[i] EXCEPT !.open = n]]
      BY <2>3 DEF Released
    <3> QED  BY <3>1, <3>2
  <2> QED  BY <2>2, <2>3
<1> DEFINE e == [tasks[i] EXCEPT !.open = n]
<1>3. e \in TaskRecord /\ e.token = tasks[i].token /\ e.parent = tasks[i].parent
      /\ e.flags = tasks[i].flags /\ e.reservation = tasks[i].reservation
  BY <1>1 DEF TaskRecord
<1> HIDE DEF e
<1>4. T = [tasks EXCEPT ![i] = e]  BY <1>2 DEF e
<1>5. \A k \in DOMAIN tasks : tasks[k] \in TaskRecord  BY <1>1
<1> QED  BY <1>1, <1>3, <1>4, <1>5, ReplaceTask

LEMMA RefuseKeeps ==
  ASSUME TypeOK, Refuse PROVE Keeps
<1>1. UNCHANGED <<stream, tasks, ops, nextToken, commits, producer>> /\ failed' = TRUE
  BY DEF Refuse, producer, bootVars, runtime
<1>2. TasksKept  BY <1>1, SameIdentity DEF TypeOK
<1>3. Grew  BY <1>1 DEF Grew, TypeOK
<1> QED  BY <1>1, <1>2, <1>3 DEF Keeps, OpsKept, CountersKept, TypeOK

\* A hook that leaves the task table alone, or only counts an operation.
LEMMA CountKeepsTasks ==
  ASSUME TypeOK, NEW i \in DOMAIN tasks,
         tasks' = tasks \/ tasks' = Opened(i) \/ tasks' = Released(i)
  PROVE  TasksKept
<1>1. tasks \in Seq(TaskRecord) /\ Len(tasks) <= MaxTasks /\ tasks # <<>>  BY DEF TypeOK
<1>2. CASE tasks' = tasks
  BY <1>1, <1>2, SameIdentity
<1>3. CASE tasks' = Opened(i) \/ tasks' = Released(i)
  <2>1. PICK T : T = tasks'  OBVIOUS
  <2>2. T = Opened(i) \/ T = Released(i)  BY <1>3, <2>1
  <2>3. /\ T \in Seq(TaskRecord) /\ Len(T) = Len(tasks)
        /\ \A k \in DOMAIN tasks : /\ T[k].token = tasks[k].token
                                   /\ T[k].parent = tasks[k].parent
                                   /\ T[k].flags = tasks[k].flags
    BY <2>2, CountTypes
  <2>4. Len(tasks) <= Len(T) /\ Len(T) <= MaxTasks  BY <1>1, <2>3
  <2> QED  BY <1>1, <2>1, <2>3, <2>4, SameIdentity
<1> QED  BY <1>2, <1>3

LEMMA NewOpType ==
  ASSUME TypeOK, NEW i \in DOMAIN tasks, NEW kind \in Kinds
  PROVE  /\ NewOp(i, kind) \in OpRecord
         /\ \A n \in Nat : [NewOp(i, kind) EXCEPT !.child = n] \in OpRecord
         /\ \A n \in Nat : [NewOp(i, kind) EXCEPT !.passes = n] \in OpRecord
         /\ \A r \in 0..TokenLimit - 1 : [NewOp(i, kind) EXCEPT !.reservation = r] \in OpRecord
         /\ \A d \in BOOLEAN : [NewOp(i, kind) EXCEPT !.policies = 1, !.denied = d] \in OpRecord
<1>1. i \in Nat  BY DEF TypeOK
<1>2. 0 \in 0..TokenLimit - 1  BY CapAssumption
<1> QED  BY <1>1, <1>2, TokenAssumption DEF NewOp, OpRecord, Kinds

\* A new operation fits the table that CanOpen found room in.
LEMMA AppendOp ==
  ASSUME TypeOK, Len(ops) < MaxOps, NEW e \in OpRecord
  PROVE  /\ Append(ops, e) \in Seq(OpRecord) /\ Len(Append(ops, e)) <= MaxOps
         /\ Len(ops) + 1 \in DOMAIN Append(ops, e)
         /\ Append(ops, e)[Len(ops) + 1] = e
<1>1. ops \in Seq(OpRecord) /\ Len(ops) \in Nat /\ MaxOps \in Nat  BY CapAssumption DEF TypeOK
<1> QED  BY <1>1

\* One record of the operation table changes within its type.
LEMMA UpdateOp ==
  ASSUME TypeOK, NEW j \in DOMAIN ops
  PROVE  /\ \A st \in {"OPEN", "COMMITTED", "CLOSED"} :
              /\ [ops EXCEPT ![j].state = st] \in Seq(OpRecord)
              /\ Len([ops EXCEPT ![j].state = st]) <= MaxOps
         /\ \A n \in Nat, d \in BOOLEAN :
              /\ [ops EXCEPT ![j].policies = n, ![j].denied = d] \in Seq(OpRecord)
              /\ Len([ops EXCEPT ![j].policies = n, ![j].denied = d]) <= MaxOps
         /\ \A f \in Files :
              /\ [ops EXCEPT ![j].policies = 1, ![j].file = f] \in Seq(OpRecord)
              /\ Len([ops EXCEPT ![j].policies = 1, ![j].file = f]) <= MaxOps
<1>1. ops \in Seq(OpRecord) /\ ops[j] \in OpRecord /\ Len(ops) <= MaxOps  BY DEF TypeOK
<1>2. ASSUME NEW st \in {"OPEN", "COMMITTED", "CLOSED"}
      PROVE  /\ [ops EXCEPT ![j].state = st] \in Seq(OpRecord)
             /\ Len([ops EXCEPT ![j].state = st]) <= MaxOps
  <2>1. PICK e : e = [ops[j] EXCEPT !.state = st]  OBVIOUS
  <2>2. e \in OpRecord  BY <1>1, <2>1 DEF OpRecord
  <2>3. [ops EXCEPT ![j].state = st] = [ops EXCEPT ![j] = e]  BY <2>1
  <2> QED  BY <1>1, <2>2, <2>3, ReplaceOp
<1>3. ASSUME NEW n \in Nat, NEW d \in BOOLEAN
      PROVE  /\ [ops EXCEPT ![j].policies = n, ![j].denied = d] \in Seq(OpRecord)
             /\ Len([ops EXCEPT ![j].policies = n, ![j].denied = d]) <= MaxOps
  <2>1. PICK e : e = [ops[j] EXCEPT !.policies = n]  OBVIOUS
  <2>2. e \in OpRecord  BY <1>1, <2>1 DEF OpRecord
  <2>3. PICK g : g = [e EXCEPT !.denied = d]  OBVIOUS
  <2>4. g \in OpRecord  BY <2>2, <2>3 DEF OpRecord
  <2>5. [ops EXCEPT ![j].policies = n, ![j].denied = d] = [ops EXCEPT ![j] = g]
    BY <1>1, <2>1, <2>3
  <2> QED  BY <1>1, <2>4, <2>5, ReplaceOp
<1>4. ASSUME NEW f \in Files
      PROVE  /\ [ops EXCEPT ![j].policies = 1, ![j].file = f] \in Seq(OpRecord)
             /\ Len([ops EXCEPT ![j].policies = 1, ![j].file = f]) <= MaxOps
  <2>1. PICK e : e = [ops[j] EXCEPT !.policies = 1]  OBVIOUS
  <2>2. e \in OpRecord  BY <1>1, <2>1 DEF OpRecord
  <2>3. PICK g : g = [e EXCEPT !.file = f]  OBVIOUS
  <2>4. g \in OpRecord  BY <2>2, <2>3 DEF OpRecord
  <2>5. [ops EXCEPT ![j].policies = 1, ![j].file = f] = [ops EXCEPT ![j] = g]
    BY <1>1, <2>1, <2>3
  <2> QED  BY <1>1, <2>4, <2>5, ReplaceOp
<1> QED  BY <1>2, <1>3, <1>4

\* Facts every hook of a tracked task starts from.
LEMMA CallerFacts ==
  ASSUME TypeOK, Active, NEW t \in Tokens, NEW i \in DOMAIN tasks, Caller(t, i)
  PROVE  /\ i \in Nat /\ phase \in PRE_RELEASE..SEALED /\ Len(ops) \in Nat
         /\ OrdinalOf(Len(ops) + 1) \in Nat
         /\ \A j \in DOMAIN ops : OrdinalOf(j) \in Nat
         /\ tasks[i] \in TaskRecord /\ tasks[i].token = t /\ t \notin inflight
         /\ tasks \in Seq(TaskRecord) /\ ops \in Seq(OpRecord) /\ Len(tasks) \in Nat
         /\ nextToken \in 0..TokenLimit - 1 /\ commits \in Nat
  BY DEF TypeOK, Caller, Live, OrdinalOf

LEMMA FileOpenAttemptKeeps ==
  ASSUME TypeOK, NEW t \in Tokens, NEW fits \in BOOLEAN, FileOpenAttempt(t, fits)
  PROVE  Active /\ Keeps
<1>1. PICK i \in DOMAIN tasks :
        /\ Active /\ Caller(t, i)
        /\ IF CanOpen(i, "FILE_OPEN")
           THEN /\ tasks' = Opened(i)
                /\ ops' = Append(ops, NewOp(i, "FILE_OPEN"))
                /\ Emit("FILE_OPEN_ATTEMPT", i, OrdinalOf(Len(ops) + 1), phase, fits)
                /\ UNCHANGED <<producer, nextToken, commits>>
           ELSE Refuse
  BY DEF FileOpenAttempt
<1>2. CASE CanOpen(i, "FILE_OPEN")
  <2>1. Grew /\ failed' \in BOOLEAN  BY <1>1, <1>2, CallerFacts, EmitGrows DEF Events
  <2>2. OpsKept  BY <1>1, <1>2, NewOpType, AppendOp DEF OpsKept, CanOpen, Kinds
  <2>3. TasksKept  BY <1>1, <1>2, CountKeepsTasks
  <2> QED  BY <1>1, <1>2, <2>1, <2>2, <2>3, CallerFacts DEF Keeps, CountersKept
<1>3. CASE ~CanOpen(i, "FILE_OPEN")  BY <1>1, <1>3, RefuseKeeps
<1> QED  BY <1>2, <1>3

\* append_return_locked.
LEMMA ReturnKeeps ==
  ASSUME TypeOK, Active, NEW t \in Tokens, NEW i \in DOMAIN tasks, Caller(t, i),
         NEW j \in DOMAIN ops, NEW fits \in BOOLEAN, Return(i, j, fits)
  PROVE  Keeps
<1>1. Grew /\ failed' \in BOOLEAN  BY CallerFacts, EmitGrows DEF Events, Return
<1>2. OpsKept  BY UpdateOp DEF OpsKept, Return
<1>3. TasksKept  BY CountKeepsTasks DEF Return
<1> QED  BY <1>1, <1>2, <1>3, CallerFacts DEF Keeps, CountersKept, Return

LEMMA OperationReturnKeeps ==
  ASSUME TypeOK, NEW t \in Tokens, NEW o \in Ordinals, NEW error \in BOOLEAN,
         NEW fits \in BOOLEAN, OperationReturn(t, o, error, fits)
  PROVE  Active /\ Keeps
<1>1. PICK i \in DOMAIN tasks :
        /\ Active /\ Caller(t, i)
        /\ (o - 1 \in DOMAIN ops /\ Return(i, o - 1, fits)) \/ Refuse
  BY DEF OperationReturn
<1> QED  BY <1>1, ReturnKeeps, RefuseKeeps

\* Reserving an exec, or dropping a reservation, changes only the reservation.
LEMMA SetReservation ==
  ASSUME TypeOK, NEW i \in DOMAIN tasks, NEW r \in 0..TokenLimit - 1,
         NEW T, T = tasks \/ T = Opened(i),
         tasks' = [T EXCEPT ![i].reservation = r]
  PROVE  TasksKept
<1>1. tasks \in Seq(TaskRecord) /\ Len(tasks) <= MaxTasks /\ tasks # <<>>
      /\ \A k \in DOMAIN tasks : tasks[k] \in TaskRecord
  BY DEF TypeOK
<1>2. /\ T \in Seq(TaskRecord) /\ Len(T) = Len(tasks) /\ DOMAIN T = DOMAIN tasks
      /\ \A k \in DOMAIN tasks : /\ T[k].token = tasks[k].token
                                 /\ T[k].parent = tasks[k].parent
                                 /\ T[k].flags = tasks[k].flags
                                 /\ T[k] \in TaskRecord
  BY <1>1, CountTypes
<1>3. PICK e : e = [T[i] EXCEPT !.reservation = r]  OBVIOUS
<1>4. e \in TaskRecord /\ e.token = T[i].token /\ e.parent = T[i].parent /\ e.flags = T[i].flags
  BY <1>2, <1>3 DEF TaskRecord
<1>5. tasks' = [T EXCEPT ![i] = e]  BY <1>3
<1>6. /\ tasks' \in Seq(TaskRecord) /\ Len(tasks') = Len(tasks)
      /\ \A k \in DOMAIN tasks : /\ tasks'[k].token = tasks[k].token
                                 /\ tasks'[k].parent = tasks[k].parent
                                 /\ tasks'[k].flags = tasks[k].flags
  BY <1>2, <1>4, <1>5, ReplaceTask
<1> QED  BY <1>1, <1>6, SameIdentity

LEMMA ExecReturnKeeps ==
  ASSUME TypeOK, NEW t \in Tokens, NEW token \in 0..TokenLimit - 1, NEW error \in BOOLEAN,
         NEW fits \in BOOLEAN, ExecReturn(t, token, error, fits)
  PROVE  Active /\ Keeps
<1>1. PICK i \in DOMAIN tasks :
        /\ Active /\ Caller(t, i)
        /\ \/ /\ tasks' = [tasks EXCEPT ![i].reservation = 0] \/ tasks' = tasks
              /\ failed' = TRUE
              /\ UNCHANGED <<producer, stream, ops, nextToken, commits>>
           \/ \E j \in DOMAIN ops : Return(i, j, fits)
           \/ Refuse
  BY DEF ExecReturn, ActiveOps
<1>2. CASE /\ tasks' = [tasks EXCEPT ![i].reservation = 0] \/ tasks' = tasks
           /\ failed' = TRUE
           /\ UNCHANGED <<producer, stream, ops, nextToken, commits>>
  <2>1. 0 \in 0..TokenLimit - 1  BY CapAssumption
  <2>2. TasksKept  BY <1>2, <2>1, SetReservation, CountKeepsTasks
  <2> QED  BY <1>1, <1>2, <2>2 DEF Keeps, Grew, OpsKept, CountersKept, TypeOK
<1> QED  BY <1>1, <1>2, ReturnKeeps, RefuseKeeps

LEMMA ExecReserveKeeps ==
  ASSUME TypeOK, NEW t \in Tokens, ExecReserve(t)
  PROVE  Active /\ Keeps
<1>1. PICK i \in DOMAIN tasks :
        /\ Active /\ Caller(t, i)
        /\ \/ /\ tasks' = [tasks EXCEPT ![i].reservation = nextToken]
              /\ nextToken' = (nextToken + 1) % TokenLimit
              /\ UNCHANGED <<producer, failed, stream, ops, commits>>
           \/ Refuse
  BY DEF ExecReserve
<1>2. CASE /\ tasks' = [tasks EXCEPT ![i].reservation = nextToken]
           /\ nextToken' = (nextToken + 1) % TokenLimit
           /\ UNCHANGED <<producer, failed, stream, ops, commits>>
  <2>1. nextToken \in 0..TokenLimit - 1  BY DEF TypeOK
  <2>2. TasksKept  BY <1>2, <2>1, SetReservation
  <2>3. nextToken' \in 0..TokenLimit - 1  BY <1>2, <2>1, CapAssumption
  <2> QED  BY <1>1, <1>2, <2>2, <2>3 DEF Keeps, Grew, OpsKept, CountersKept, TypeOK
<1> QED  BY <1>1, <1>2, RefuseKeeps

\* append_exec_attempt_locked on a table of operations.
LEMMA AttemptKeeps ==
  ASSUME TypeOK, Active, NEW t \in Tokens, NEW i \in DOMAIN tasks, Caller(t, i),
         NEW s \in Seq(OpRecord), Len(s) <= MaxOps, NEW j \in DOMAIN s,
         NEW fits \in BOOLEAN, AttemptFrame(i, j, s, fits)
  PROVE  Grew /\ failed' \in BOOLEAN /\ OpsKept
<1>1. j \in Nat /\ j + 1 \in Nat  OBVIOUS
<1>2. Emit("EXEC_ATTEMPT", i, j + 1, phase, fits) /\ ops' = [s EXCEPT ![j].passes = @ + 1]
  BY DEF AttemptFrame, OrdinalOf
<1>3. Grew /\ failed' \in BOOLEAN  BY <1>1, <1>2, CallerFacts, EmitGrows DEF Events
<1>4. s[j] \in OpRecord  OBVIOUS
<1>5. PICK n : n = s[j].passes + 1  OBVIOUS
<1>6. n \in Nat
  <2>1. s[j].passes \in Nat  BY ONLY <1>4 DEF OpRecord
  <2> QED  BY ONLY <1>5, <2>1
<1>7. PICK e : e = [s[j] EXCEPT !.passes = n]  OBVIOUS
<1>8. e \in OpRecord  BY <1>4, <1>6, <1>7 DEF OpRecord
<1>9. ops' = [s EXCEPT ![j] = e]  BY <1>2, <1>5, <1>7
<1> QED  BY <1>3, <1>8, <1>9, ReplaceOp DEF OpsKept

LEMMA ExecAttemptKeeps ==
  ASSUME TypeOK, NEW t \in Tokens, NEW fits \in BOOLEAN, ExecAttempt(t, fits)
  PROVE  Active /\ Keeps
<1>1. PICK i \in DOMAIN tasks :
        /\ Active /\ Caller(t, i)
        /\ \/ /\ CanOpen(i, "EXEC")
              /\ AttemptFrame(i, Len(ops) + 1, Append(ops, NewOp(i, "EXEC")), fits)
              /\ tasks' = Opened(i)
              /\ UNCHANGED <<producer, nextToken, commits>>
           \/ \E j \in DOMAIN ops : AttemptFrame(i, j, ops, fits)
                                    /\ UNCHANGED <<producer, tasks, nextToken, commits>>
           \/ Refuse
  BY DEF ExecAttempt, ActiveOps
<1>2. CASE /\ CanOpen(i, "EXEC")
           /\ AttemptFrame(i, Len(ops) + 1, Append(ops, NewOp(i, "EXEC")), fits)
           /\ tasks' = Opened(i)
           /\ UNCHANGED <<producer, nextToken, commits>>
  <2>1. NewOp(i, "EXEC") \in OpRecord  BY NewOpType DEF Kinds
  <2>2. Len(ops) < MaxOps  BY <1>2 DEF CanOpen
  <2>3. /\ Append(ops, NewOp(i, "EXEC")) \in Seq(OpRecord)
        /\ Len(Append(ops, NewOp(i, "EXEC"))) <= MaxOps
        /\ Len(ops) + 1 \in DOMAIN Append(ops, NewOp(i, "EXEC"))
    BY <2>1, <2>2, AppendOp
  <2>4. Grew /\ failed' \in BOOLEAN /\ OpsKept  BY <1>1, <1>2, <2>3, AttemptKeeps
  <2>5. TasksKept  BY <1>2, CountKeepsTasks
  <2> QED  BY <1>1, <1>2, <2>4, <2>5, CallerFacts DEF Keeps, CountersKept
<1>3. CASE \E j \in DOMAIN ops : AttemptFrame(i, j, ops, fits)
                                 /\ UNCHANGED <<producer, tasks, nextToken, commits>>
  <2>1. ops \in Seq(OpRecord) /\ Len(ops) <= MaxOps  BY DEF TypeOK
  <2>2. Grew /\ failed' \in BOOLEAN /\ OpsKept  BY <1>1, <1>3, <2>1, AttemptKeeps
  <2>3. TasksKept  BY <1>3, CountKeepsTasks
  <2> QED  BY <1>1, <1>3, <2>2, <2>3, CallerFacts DEF Keeps, CountersKept
<1> QED  BY <1>1, <1>2, <1>3, RefuseKeeps

LEMMA ExecPassKeeps ==
  ASSUME TypeOK, NEW t \in Tokens, NEW fits \in BOOLEAN, ExecPass(t, fits)
  PROVE  Active /\ Keeps
<1> DEFINE new(i) == [NewOp(i, "EXEC") EXCEPT !.reservation = tasks[i].reservation]
<1>1. PICK i \in DOMAIN tasks :
        /\ Active /\ Caller(t, i)
        /\ \/ /\ CanOpen(i, "EXEC")
              /\ AttemptFrame(i, Len(ops) + 1, Append(ops, new(i)), fits)
              /\ tasks' = [Opened(i) EXCEPT ![i].reservation = 0]
              /\ UNCHANGED <<producer, nextToken, commits>>
           \/ \E j \in DOMAIN ops : AttemptFrame(i, j, ops, fits)
                                    /\ UNCHANGED <<producer, tasks, nextToken, commits>>
           \/ Refuse
  BY DEF ExecPass, ActiveOps
<1>2. tasks[i] \in TaskRecord  BY <1>1, CallerFacts
<1>3. tasks[i].reservation \in 0..TokenLimit - 1  BY <1>2 DEF TaskRecord
<1>4. new(i) \in OpRecord  BY <1>3, NewOpType DEF Kinds
<1> HIDE DEF new
<1>5. CASE /\ CanOpen(i, "EXEC")
           /\ AttemptFrame(i, Len(ops) + 1, Append(ops, new(i)), fits)
           /\ tasks' = [Opened(i) EXCEPT ![i].reservation = 0]
           /\ UNCHANGED <<producer, nextToken, commits>>
  <2>1. Len(ops) < MaxOps  BY <1>5 DEF CanOpen
  <2>2. /\ Append(ops, new(i)) \in Seq(OpRecord) /\ Len(Append(ops, new(i))) <= MaxOps
        /\ Len(ops) + 1 \in DOMAIN Append(ops, new(i))
    BY <1>4, <2>1, AppendOp
  <2>3. Grew /\ failed' \in BOOLEAN /\ OpsKept  BY <1>1, <1>5, <2>2, AttemptKeeps
  <2>4. 0 \in 0..TokenLimit - 1  BY CapAssumption
  <2>5. TasksKept  BY <1>5, <2>4, SetReservation
  <2> QED  BY <1>1, <1>5, <2>3, <2>5, CallerFacts DEF Keeps, CountersKept
<1>6. CASE \E j \in DOMAIN ops : AttemptFrame(i, j, ops, fits)
                                 /\ UNCHANGED <<producer, tasks, nextToken, commits>>
  <2>1. ops \in Seq(OpRecord) /\ Len(ops) <= MaxOps  BY DEF TypeOK
  <2>2. Grew /\ failed' \in BOOLEAN /\ OpsKept  BY <1>1, <1>6, <2>1, AttemptKeeps
  <2>3. TasksKept  BY <1>6, CountKeepsTasks
  <2> QED  BY <1>1, <1>6, <2>2, <2>3, CallerFacts DEF Keeps, CountersKept
<1> QED  BY <1>1, <1>5, <1>6, RefuseKeeps

LEMMA ExecCommitKeeps ==
  ASSUME TypeOK, NEW t \in Tokens, NEW fits \in BOOLEAN, ExecCommit(t, fits)
  PROVE  Active /\ Keeps
<1>1. PICK i \in DOMAIN tasks :
        /\ Active /\ Caller(t, i)
        /\ \/ \E j \in DOMAIN ops :
                /\ ops' = [ops EXCEPT ![j].state = "COMMITTED"]
                /\ Emit("EXEC_COMMIT", i, OrdinalOf(j), phase, fits)
                /\ commits' = IF failed' THEN commits ELSE commits + 1
                /\ UNCHANGED <<producer, tasks, nextToken>>
           \/ Refuse
  BY DEF ExecCommit, ActiveOps
<1>2. CASE \E j \in DOMAIN ops :
                /\ ops' = [ops EXCEPT ![j].state = "COMMITTED"]
                /\ Emit("EXEC_COMMIT", i, OrdinalOf(j), phase, fits)
                /\ commits' = IF failed' THEN commits ELSE commits + 1
                /\ UNCHANGED <<producer, tasks, nextToken>>
  <2>1. PICK j \in DOMAIN ops :
                /\ ops' = [ops EXCEPT ![j].state = "COMMITTED"]
                /\ Emit("EXEC_COMMIT", i, OrdinalOf(j), phase, fits)
                /\ commits' = IF failed' THEN commits ELSE commits + 1
                /\ UNCHANGED <<producer, tasks, nextToken>>
    BY <1>2
  <2>2. Grew /\ failed' \in BOOLEAN  BY <1>1, <2>1, CallerFacts, EmitGrows DEF Events
  <2>3. OpsKept  BY <2>1, UpdateOp DEF OpsKept
  <2>4. TasksKept  BY <2>1, CountKeepsTasks
  <2>5. commits' \in Nat /\ nextToken' \in 0..TokenLimit - 1  BY <2>1 DEF TypeOK
  <2> QED  BY <1>1, <2>1, <2>2, <2>3, <2>4, <2>5 DEF Keeps, CountersKept
<1> QED  BY <1>1, <1>2, RefuseKeeps

LEMMA FilePolicyDecisionKeeps ==
  ASSUME TypeOK, NEW t \in Tokens, NEW o \in Ordinals, NEW deny \in BOOLEAN,
         NEW fits \in BOOLEAN, FilePolicyDecision(t, o, deny, fits)
  PROVE  Active /\ Keeps
<1>1. PICK i \in DOMAIN tasks :
        /\ Active /\ Caller(t, i)
        /\ \/ /\ o - 1 \in DOMAIN ops
              /\ Emit("POLICY_DECISION", i, o, phase, fits)
              /\ ops' = IF failed' THEN ops
                        ELSE [ops EXCEPT ![o - 1].policies = 1, ![o - 1].denied = deny]
              /\ UNCHANGED <<producer, tasks, nextToken, commits>>
           \/ Refuse
  BY DEF FilePolicyDecision, Undecided
<1>2. CASE /\ o - 1 \in DOMAIN ops
           /\ Emit("POLICY_DECISION", i, o, phase, fits)
           /\ ops' = IF failed' THEN ops
                     ELSE [ops EXCEPT ![o - 1].policies = 1, ![o - 1].denied = deny]
           /\ UNCHANGED <<producer, tasks, nextToken, commits>>
  <2>1. o \in Nat  BY DEF Ordinals, TypeOK
  <2>2. Grew /\ failed' \in BOOLEAN  BY <1>1, <1>2, <2>1, CallerFacts, EmitGrows DEF Events
  <2>3. 1 \in Nat /\ ops \in Seq(OpRecord) /\ Len(ops) <= MaxOps  BY DEF TypeOK
  <2>4. OpsKept  BY <1>2, <2>3, UpdateOp DEF OpsKept
  <2>5. TasksKept  BY <1>2, CountKeepsTasks
  <2> QED  BY <1>1, <1>2, <2>2, <2>4, <2>5, CallerFacts DEF Keeps, CountersKept
<1> QED  BY <1>1, <1>2, RefuseKeeps

LEMMA FileGateObservationKeeps ==
  ASSUME TypeOK, NEW t \in Tokens, NEW o \in Ordinals, NEW file \in Files,
         FileGateObservation(t, o, file)
  PROVE  Active /\ Keeps
<1>1. PICK i \in DOMAIN tasks :
        /\ Active /\ Caller(t, i)
        /\ \/ /\ o - 1 \in DOMAIN ops
              /\ ops' = [ops EXCEPT ![o - 1].policies = 1, ![o - 1].file = file]
              /\ UNCHANGED <<producer, failed, stream, tasks, nextToken, commits>>
           \/ Refuse
  BY DEF FileGateObservation, Undecided
<1>2. CASE /\ o - 1 \in DOMAIN ops
           /\ ops' = [ops EXCEPT ![o - 1].policies = 1, ![o - 1].file = file]
           /\ UNCHANGED <<producer, failed, stream, tasks, nextToken, commits>>
  <2>1. OpsKept  BY <1>2, UpdateOp DEF OpsKept
  <2>2. TasksKept  BY <1>2, CountKeepsTasks
  <2> QED  BY <1>1, <1>2, <2>1, <2>2 DEF Keeps, Grew, CountersKept, TypeOK
<1> QED  BY <1>1, <1>2, RefuseKeeps

LEMMA PolicyDecisionKeeps ==
  ASSUME TypeOK, NEW t \in Tokens, NEW kind \in Decided, NEW deny \in BOOLEAN,
         NEW fits \in BOOLEAN, PolicyDecision(t, kind, deny, fits)
  PROVE  Active /\ Keeps
<1> DEFINE Row(i, j) ==
             /\ Emit("POLICY_DECISION", i, OrdinalOf(j), phase, fits)
             /\ ops' = IF failed' THEN ops
                       ELSE [ops EXCEPT ![j].policies = @ + 1, ![j].denied = deny]
             /\ UNCHANGED <<producer, tasks, nextToken, commits>>
           New(i) ==
             /\ CanOpen(i, kind)
             /\ Emit("POLICY_DECISION", i, OrdinalOf(Len(ops) + 1), phase, fits)
             /\ tasks' = Opened(i)
             /\ ops' = Append(ops, IF failed' THEN NewOp(i, kind)
                                   ELSE [NewOp(i, kind) EXCEPT !.policies = 1, !.denied = deny])
             /\ UNCHANGED <<producer, nextToken, commits>>
<1>1. PICK i \in DOMAIN tasks :
        /\ Active /\ Caller(t, i)
        /\ (\E j \in DOMAIN ops : Row(i, j)) \/ New(i) \/ Refuse
  BY DEF PolicyDecision, ActiveOps
<1>2. CASE \E j \in DOMAIN ops : Row(i, j)
  <2>1. PICK j \in DOMAIN ops : Row(i, j)  BY <1>2
  <2>2. Grew /\ failed' \in BOOLEAN
    <3>1. Emit("POLICY_DECISION", i, OrdinalOf(j), phase, fits)  BY <2>1
    <3> HIDE DEF Row
    <3> QED  BY <1>1, <3>1, CallerFacts, EmitGrows DEF Events
  <2>3. ops \in Seq(OpRecord) /\ Len(ops) <= MaxOps /\ ops[j] \in OpRecord  BY DEF TypeOK
  <2>4. PICK n : n = ops[j].policies + 1  OBVIOUS
  <2>5. n \in Nat
    <3>1. ops[j].policies \in Nat  BY ONLY <2>3 DEF OpRecord
    <3> QED  BY ONLY <2>4, <3>1
  <2>6. ops' = ops \/ ops' = [ops EXCEPT ![j].policies = n, ![j].denied = deny]
    BY <2>1, <2>4
  <2>7. OpsKept
    <3>1. /\ [ops EXCEPT ![j].policies = n, ![j].denied = deny] \in Seq(OpRecord)
          /\ Len([ops EXCEPT ![j].policies = n, ![j].denied = deny]) <= MaxOps
      BY <2>5, UpdateOp
    <3> QED  BY <2>3, <2>6, <3>1 DEF OpsKept
  <2>8. TasksKept  BY <2>1, CountKeepsTasks
  <2> QED  BY <1>1, <2>1, <2>2, <2>7, <2>8, CallerFacts DEF Keeps, CountersKept
<1>3. CASE New(i)
  <2>1. Grew /\ failed' \in BOOLEAN  BY <1>1, <1>3, CallerFacts, EmitGrows DEF Events
  <2>2. kind \in Kinds  BY DecidedAssumption DEF Kinds
  <2>3. PICK e : e = IF failed' THEN NewOp(i, kind)
                     ELSE [NewOp(i, kind) EXCEPT !.policies = 1, !.denied = deny]
    OBVIOUS
  <2>4. e \in OpRecord  BY <2>2, <2>3, NewOpType
  <2>5. Len(ops) < MaxOps /\ ops' = Append(ops, e)  BY <1>3, <2>3 DEF CanOpen
  <2>6. OpsKept  BY <2>4, <2>5, AppendOp DEF OpsKept
  <2>7. TasksKept  BY <1>3, CountKeepsTasks
  <2> QED  BY <1>1, <1>3, <2>1, <2>6, <2>7, CallerFacts DEF Keeps, CountersKept
<1> QED  BY <1>1, <1>2, <1>3, RefuseKeeps

\* The two frames of a successful open are appended one after the other.
LEMMA FileOpenReturnKeeps ==
  ASSUME TypeOK, NEW t \in Tokens, NEW file \in Files \cup {None}, NEW fits \in BOOLEAN,
         NEW fits2 \in BOOLEAN, FileOpenReturn(t, file, fits, fits2)
  PROVE  Active /\ Keeps
<1> DEFINE decision(i, j) == [event |-> "POLICY_DECISION", task |-> i, op |-> OrdinalOf(j),
                              phase |-> phase]
           return(i, j) == [decision(i, j) EXCEPT !.event = "OPERATION_RETURN"]
           first == fits /\ Len(stream) < MaxFrames
           second == first /\ fits2 /\ Len(stream) + 1 < MaxFrames
           Both(i, j) ==
             /\ stream' = stream \o (IF second THEN <<decision(i, j), return(i, j)>>
                                     ELSE IF first THEN <<decision(i, j)>> ELSE <<>>)
             /\ failed' = ~second
             /\ ops' = IF first THEN [ops EXCEPT ![j].state = "CLOSED"] ELSE ops
             /\ tasks' = IF first THEN Released(i) ELSE tasks
             /\ UNCHANGED <<producer, nextToken, commits>>
<1>1. PICK i \in DOMAIN tasks :
        /\ Active /\ Caller(t, i)
        /\ (\E j \in DOMAIN ops : Return(i, j, fits)) \/ (\E j \in DOMAIN ops : Both(i, j)) \/ Refuse
  BY DEF FileOpenReturn, ActiveOps
<1>2. CASE \E j \in DOMAIN ops : Both(i, j)
  <2>1. PICK j \in DOMAIN ops : Both(i, j)  BY <1>2
  <2>2. PICK d : d = decision(i, j)  OBVIOUS
  <2>3. PICK r : r = return(i, j)  OBVIOUS
  <2>4. d \in Frame /\ d.event # "EXEC_DENIED"
    BY <1>1, <2>2, CallerFacts DEF Frame, Events
  <2>5. r = [event |-> "OPERATION_RETURN", task |-> i, op |-> OrdinalOf(j), phase |-> phase]
    BY <2>3
  <2>6. r \in Frame /\ r.event # "EXEC_DENIED"
    BY <1>1, <2>5, CallerFacts DEF Frame, Events
  <2>7. stream \in Seq(Frame) /\ Len(stream) \in Nat /\ MaxFrames \in Nat
        /\ Len(stream) <= MaxFrames
    BY CapAssumption DEF TypeOK
  <2>8. stream' = stream \o (IF second THEN <<d, r>> ELSE IF first THEN <<d>> ELSE <<>>)
    BY <2>1, <2>2, <2>3
  <2>9. Grew
    <3>1. CASE second
      <4>1. stream' = stream \o <<d, r>> /\ Len(stream) + 2 <= MaxFrames  BY <2>7, <2>8, <3>1
      <4>2. <<d, r>> \in Seq(Frame)  BY <2>4, <2>6
      <4>3. Len(stream') = Len(stream) + 2 /\ stream' \in Seq(Frame)
        BY <2>7, <4>1, <4>2
      <4>4. /\ \A m \in 1..Len(stream) : stream'[m] = stream[m]
            /\ stream'[Len(stream) + 1] = d /\ stream'[Len(stream) + 2] = r
        BY <2>7, <4>1, <4>2
      <4>5. \A m \in Len(stream) + 1..Len(stream') : m = Len(stream) + 1 \/ m = Len(stream) + 2
        BY <2>7, <4>3
      <4> QED  BY <2>4, <2>6, <2>7, <4>1, <4>3, <4>4, <4>5 DEF Grew
    <3>2. CASE first /\ ~second
      <4>1. stream' = stream \o <<d>> /\ Len(stream) + 1 <= MaxFrames  BY <2>7, <2>8, <3>2
      <4>2. stream' = Append(stream, d)  BY <2>4, <2>7, <4>1
      <4> QED  BY <2>4, <2>7, <4>1, <4>2, AppendFrame DEF Grew
    <3>3. CASE ~first
      <4>1. stream' = stream  BY <2>7, <2>8, <3>3
      <4> QED  BY <2>7, <4>1 DEF Grew
    <3> QED  BY <3>1, <3>2, <3>3
  <2>10. OpsKept
    <3>1. ops \in Seq(OpRecord) /\ Len(ops) <= MaxOps  BY DEF TypeOK
    <3> QED  BY <2>1, <3>1, UpdateOp DEF OpsKept
  <2>11. TasksKept  BY <2>1, CountKeepsTasks
  <2> HIDE DEF decision, return, first, second
  <2> QED  BY <1>1, <2>1, <2>9, <2>10, <2>11, CallerFacts DEF Keeps, CountersKept
<1> QED  BY <1>1, <1>2, ReturnKeeps, RefuseKeeps

LEMMA TaskAllocAttemptKeeps ==
  ASSUME TypeOK, NEW t \in Tokens, NEW fits \in BOOLEAN, TaskAllocAttempt(t, fits)
  PROVE  Active /\ Keeps
<1> DEFINE New(i) ==
             /\ Len(tasks) < MaxTasks /\ CanOpen(i, "TASK_ALLOC")
             /\ tasks' = Append(Opened(i), [token |-> None, parent |-> i, flags |-> "none",
                                            open |-> 0, reservation |-> 0])
             /\ ops' = Append(ops, [NewOp(i, "TASK_ALLOC") EXCEPT !.child = Len(tasks) + 1])
             /\ Emit("TASK_ALLOC_ATTEMPT", Len(tasks) + 1, OrdinalOf(Len(ops) + 1), phase, fits)
             /\ UNCHANGED <<producer, nextToken, commits>>
<1>1. PICK i \in DOMAIN tasks : Active /\ Caller(t, i) /\ (New(i) \/ Refuse)
  BY DEF TaskAllocAttempt
<1>2. CASE New(i)
  <2>1. Len(tasks) + 1 \in Nat  BY DEF TypeOK
  <2>2. Grew /\ failed' \in BOOLEAN  BY <1>1, <1>2, <2>1, CallerFacts, EmitGrows DEF Events
  <2>3. PICK e : e = [NewOp(i, "TASK_ALLOC") EXCEPT !.child = Len(tasks) + 1]  OBVIOUS
  <2>4. e \in OpRecord  BY <2>1, <2>3, NewOpType DEF Kinds
  <2>5. Len(ops) < MaxOps /\ ops' = Append(ops, e)  BY <1>2, <2>3 DEF CanOpen
  <2>6. OpsKept  BY <2>4, <2>5, AppendOp DEF OpsKept
  <2>7. TasksKept
    <3>1. PICK T : T = Opened(i)  OBVIOUS
    <3>2. /\ T \in Seq(TaskRecord) /\ Len(T) = Len(tasks) /\ DOMAIN T = DOMAIN tasks
          /\ \A k \in DOMAIN tasks : /\ T[k].token = tasks[k].token
                                     /\ T[k].parent = tasks[k].parent
                                     /\ T[k].flags = tasks[k].flags
      BY <3>1, CountTypes
    <3>3. PICK e1 : e1 = [token |-> None, parent |-> i, flags |-> "none", open |-> 0,
                          reservation |-> 0]
      OBVIOUS
    <3>4. 0 \in 0..TokenLimit - 1 /\ i \in Nat  BY <1>1, CapAssumption, CallerFacts
    <3>5. e1 \in TaskRecord  BY <3>3, <3>4 DEF TaskRecord
    <3>6. tasks' = Append(T, e1)  BY <1>2, <3>1, <3>3
    <3>7. tasks \in Seq(TaskRecord) /\ Len(tasks) \in Nat /\ DOMAIN tasks = 1..Len(tasks)
          /\ tasks # <<>> /\ MaxTasks \in Nat
      BY CapAssumption DEF TypeOK
    <3>8. tasks' \in Seq(TaskRecord) /\ Len(tasks') = Len(tasks) + 1
          /\ \A k \in DOMAIN tasks : tasks'[k] = T[k]
      BY <3>2, <3>5, <3>6, <3>7
    <3>9. Len(tasks') <= MaxTasks /\ Len(tasks) <= Len(tasks')  BY <1>2, <3>7, <3>8
    <3> QED  BY <3>2, <3>7, <3>8, <3>9, SameIdentity
  <2> HIDE DEF New
  <2> QED  BY <1>1, <1>2, <2>2, <2>6, <2>7, CallerFacts DEF Keeps, CountersKept, New
<1> QED  BY <1>1, <1>2, RefuseKeeps

\* The slot task_created fills belongs to nobody yet.
LEMMA TaskCreatedKeeps ==
  ASSUME TypeOK, RootFirst, NEW t \in Tokens, NEW child \in Tokens, NEW fits \in BOOLEAN,
         TaskCreated(t, child, fits)
  PROVE  Active /\ Keeps
<1> DEFINE New(i, j) ==
             /\ ops[j].child \in DOMAIN tasks /\ tasks[ops[j].child].parent = i
             /\ tasks[ops[j].child].flags = "none"
             /\ tasks' = [Released(i) EXCEPT ![ops[j].child].token = child,
                                             ![ops[j].child].flags = "LIVE"]
             /\ ops' = [ops EXCEPT ![j].state = "CLOSED"]
             /\ Emit("TASK_CREATED", ops[j].child, OrdinalOf(j), phase, fits)
             /\ UNCHANGED <<producer, nextToken, commits>>
<1>1. PICK i \in DOMAIN tasks : Active /\ Caller(t, i) /\ ((\E j \in DOMAIN ops : New(i, j)) \/ Refuse)
  BY DEF TaskCreated, ActiveOps
<1>2. CASE \E j \in DOMAIN ops : New(i, j)
  <2>1. PICK j \in DOMAIN ops : New(i, j)  BY <1>2
  <2>2. PICK c \in DOMAIN tasks : c = ops[j].child  BY <2>1
  <2>3. c \in Nat  BY DEF TypeOK
  <2>4. Grew /\ failed' \in BOOLEAN
    BY <1>1, <2>1, <2>2, <2>3, CallerFacts, EmitGrows DEF Events
  <2>5. OpsKept  BY <2>1, UpdateOp DEF OpsKept
  <2>6. TasksKept
    <3>1. PICK T : T = Released(i)  OBVIOUS
    <3>2. /\ T \in Seq(TaskRecord) /\ Len(T) = Len(tasks) /\ DOMAIN T = DOMAIN tasks
          /\ \A k \in DOMAIN tasks : /\ T[k].token = tasks[k].token
                                     /\ T[k].parent = tasks[k].parent
                                     /\ T[k].flags = tasks[k].flags
                                     /\ T[k] \in TaskRecord
      BY <3>1, CountTypes
    <3>3. PICK e1 : e1 = [T[c] EXCEPT !.token = child]  OBVIOUS
    <3>4. e1 \in TaskRecord /\ e1.parent = tasks[c].parent  BY <3>2, <3>3 DEF TaskRecord
    <3>5. PICK e2 : e2 = [e1 EXCEPT !.flags = "LIVE"]  OBVIOUS
    <3>6. e2 \in TaskRecord  BY <3>4, <3>5 DEF TaskRecord
    <3>7. tasks' = [T EXCEPT ![c] = e2]  BY <2>1, <2>2, <3>1, <3>2, <3>3, <3>5
    <3>8. /\ tasks' \in Seq(TaskRecord) /\ Len(tasks') = Len(tasks) /\ DOMAIN tasks' = DOMAIN tasks
          /\ \A k \in DOMAIN tasks \ {c} : tasks'[k] = T[k]
      BY <3>2, <3>6, <3>7, ReplaceTask
    <3>9. tasks \in Seq(TaskRecord) /\ Len(tasks) <= MaxTasks /\ tasks # <<>> /\ 1 \in DOMAIN tasks
          /\ i \in 1..Len(tasks)
      BY DEF TypeOK
    <3>10. c # 1
      <4>1. tasks[1].parent = 0  BY <3>9 DEF RootFirst
      <4>2. tasks[c].parent = i  BY <2>1, <2>2
      <4> QED  BY <3>9, <4>1, <4>2
    <3>11. tasks[c].flags = "none"  BY <2>1, <2>2
    <3>12. ASSUME NEW u \in inflight, Live(u) # {} PROVE Live(u)' # {}
      <4>1. PICK k \in DOMAIN tasks : tasks[k].token = u /\ tasks[k].flags = "LIVE"
        BY <3>12 DEF Live
      <4>2. k # c  BY <3>11, <4>1
      <4>3. k \in DOMAIN tasks' /\ tasks'[k].token = u /\ tasks'[k].flags = "LIVE"
        BY <3>2, <3>8, <4>1, <4>2
      <4> QED  BY <4>3 DEF Live
    <3> QED  BY <3>2, <3>8, <3>9, <3>10, <3>12 DEF TasksKept
  <2> HIDE DEF New
  <2> QED  BY <1>1, <2>1, <2>4, <2>5, <2>6, CallerFacts DEF Keeps, CountersKept, New
<1> QED  BY <1>1, <1>2, RefuseKeeps

\* A task that exits is inside no other hook.
LEMMA TaskExitKeeps ==
  ASSUME TypeOK, NEW t \in Tokens, NEW fits \in BOOLEAN, TaskExit(t, fits)
  PROVE  Active /\ Keeps
<1> DEFINE Gone(i) ==
             /\ tasks' = [tasks EXCEPT ![i].flags = "EXITED"]
             /\ Emit("TASK_EXIT", i, 0, phase, fits /\ tasks[i].parent \notin {0, i})
             /\ UNCHANGED <<producer, ops, nextToken, commits>>
<1>1. PICK i \in DOMAIN tasks : Active /\ Caller(t, i) /\ (Gone(i) \/ Refuse)
  BY DEF TaskExit
<1>2. CASE Gone(i)
  <2>1. PICK f : f = (fits /\ tasks[i].parent \notin {0, i})  OBVIOUS
  <2>2. f \in BOOLEAN  BY <2>1
  <2>3. Emit("TASK_EXIT", i, 0, phase, f)  BY <1>2, <2>1
  <2>4. Grew /\ failed' \in BOOLEAN  BY <1>1, <2>2, <2>3, CallerFacts, EmitGrows DEF Events
  <2>5. TasksKept
    <3>1. tasks \in Seq(TaskRecord) /\ tasks[i] \in TaskRecord /\ Len(tasks) <= MaxTasks
          /\ tasks # <<>> /\ 1 \in DOMAIN tasks
      BY DEF TypeOK
    <3>2. PICK e : e = [tasks[i] EXCEPT !.flags = "EXITED"]  OBVIOUS
    <3>3. e \in TaskRecord /\ e.token = tasks[i].token /\ e.parent = tasks[i].parent
      BY <3>1, <3>2 DEF TaskRecord
    <3>4. tasks' = [tasks EXCEPT ![i] = e]  BY <1>2, <3>2
    <3>5. /\ tasks' \in Seq(TaskRecord) /\ Len(tasks') = Len(tasks) /\ DOMAIN tasks' = DOMAIN tasks
          /\ tasks'[i] = e
          /\ \A k \in DOMAIN tasks \ {i} : tasks'[k] = tasks[k]
      BY <3>1, <3>3, <3>4, ReplaceTask
    <3>6. ASSUME NEW u \in inflight, Live(u) # {} PROVE Live(u)' # {}
      <4>1. PICK k \in DOMAIN tasks : tasks[k].token = u /\ tasks[k].flags = "LIVE"
        BY <3>6 DEF Live
      <4>2. tasks[i].token = t /\ t \notin inflight  BY <1>1, CallerFacts
      <4>3. k # i  BY <4>1, <4>2
      <4>4. k \in DOMAIN tasks' /\ tasks'[k].token = u /\ tasks'[k].flags = "LIVE"
        BY <3>5, <4>1, <4>3
      <4> QED  BY <4>4 DEF Live
    <3> QED  BY <3>1, <3>3, <3>5, <3>6 DEF TasksKept
  <2> QED  BY <1>1, <1>2, <2>4, <2>5, CallerFacts DEF Keeps, OpsKept, CountersKept, TypeOK
<1> QED  BY <1>1, <1>2, RefuseKeeps

\* Every hook of a tracked task keeps the contract, or is one with a bad
\* argument that has passed the sealed check.
LEMMA HookKeeps ==
  ASSUME TypeOK, RootFirst, NEW t \in Tokens, Hook(t)
  PROVE  EnterBadHook(t) \/ MarkFailure(t) \/ (Active /\ Keeps)
<1>1. CASE ExecReserve(t)  BY <1>1, ExecReserveKeeps
<1>2. CASE \E o \in Ordinals, file \in Files : FileGateObservation(t, o, file)
  BY <1>2, FileGateObservationKeeps
<1>3. ASSUME NEW fits \in BOOLEAN,
             \/ TaskAllocAttempt(t, fits) \/ (\E child \in Tokens : TaskCreated(t, child, fits))
             \/ TaskExit(t, fits) \/ ExecAttempt(t, fits) \/ ExecPass(t, fits)
             \/ ExecCommit(t, fits) \/ FileOpenAttempt(t, fits)
      PROVE  Active /\ Keeps
  BY <1>3, TaskAllocAttemptKeeps, TaskCreatedKeeps, TaskExitKeeps, ExecAttemptKeeps,
     ExecPassKeeps, ExecCommitKeeps, FileOpenAttemptKeeps
<1>4. ASSUME NEW fits \in BOOLEAN,
             \E o \in Ordinals, error \in BOOLEAN : OperationReturn(t, o, error, fits)
      PROVE  Active /\ Keeps
  BY <1>4, OperationReturnKeeps
<1>5. ASSUME NEW fits \in BOOLEAN,
             \E token \in 0..TokenLimit - 1, error \in BOOLEAN : ExecReturn(t, token, error, fits)
      PROVE  Active /\ Keeps
  BY <1>5, ExecReturnKeeps
<1>6. ASSUME NEW fits \in BOOLEAN,
             \E o \in Ordinals, deny \in BOOLEAN : FilePolicyDecision(t, o, deny, fits)
      PROVE  Active /\ Keeps
  BY <1>6, FilePolicyDecisionKeeps
<1>7. ASSUME NEW fits \in BOOLEAN,
             \E kind \in Decided, deny \in BOOLEAN : PolicyDecision(t, kind, deny, fits)
      PROVE  Active /\ Keeps
  BY <1>7, PolicyDecisionKeeps
<1>8. ASSUME NEW fits \in BOOLEAN,
             \E file \in Files \cup {None}, fits2 \in BOOLEAN : FileOpenReturn(t, file, fits, fits2)
      PROVE  Active /\ Keeps
  BY <1>8, FileOpenReturnKeeps
<1> QED  BY <1>1, <1>2, <1>3, <1>4, <1>5, <1>6, <1>7, <1>8 DEF Hook

------------------------------------------------------------------------------
(* The inductive invariant. *)

\* A stream that grows by other frames keeps its denials.
LEMMA DenialKept ==
  ASSUME TypeOK, Grew
  PROVE  (NoDenial(stream) => NoDenial(stream')) /\ (OneDenial(stream) => OneDenial(stream'))
<1>1. stream \in Seq(Frame) /\ stream' \in Seq(Frame) /\ Len(stream) \in Nat
      /\ Len(stream') \in Nat /\ DOMAIN stream = 1..Len(stream) /\ DOMAIN stream' = 1..Len(stream')
  BY DEF TypeOK, Grew
<1>2. \A m \in DOMAIN stream' : \/ m \in DOMAIN stream /\ stream'[m] = stream[m]
                                \/ stream'[m].event # "EXEC_DENIED" /\ m \notin DOMAIN stream
  BY <1>1 DEF Grew
<1>3. \A m \in DOMAIN stream : m \in DOMAIN stream'  BY <1>1 DEF Grew
<1>4. NoDenial(stream) => NoDenial(stream')  BY <1>2 DEF NoDenial
<1>5. ASSUME OneDenial(stream) PROVE OneDenial(stream')
  <2>1. PICK m \in DOMAIN stream :
          \A n \in DOMAIN stream : (stream[n].event = "EXEC_DENIED") <=> (n = m)
    BY <1>5 DEF OneDenial
  <2>2. \A n \in DOMAIN stream' : (stream'[n].event = "EXEC_DENIED") <=> (n = m)
    BY <1>2, <2>1
  <2> QED  BY <1>3, <2>1, <2>2 DEF OneDenial
<1> QED  BY <1>4, <1>5

\* A further record.
LEMMA AppendRecord ==
  ASSUME NEW s \in Seq(Record), NEW r \in Record
  PROVE  /\ Append(s, r) \in Seq(Record) /\ Len(Append(s, r)) = Len(s) + 1
         /\ \A m \in 1..Len(s) : Append(s, r)[m] = s[m]
         /\ Append(s, r)[Len(s) + 1] = r
  OBVIOUS

\* Records stay measured.
LEMMA RecordsKept ==
  ASSUME ReleaseRecords, ima \in Seq(Record), NEW r \in Record,
         ima' = ima \/ ima' = Append(ima, r)
  PROVE  ReleaseRecords'
<1>1. Len(ima) >= 2 /\ Len(ima) \in Nat  BY DEF ReleaseRecords
<1>2. Len(ima') >= 2 /\ ima'[1] = ima[1] /\ ima'[2] = ima[2]  BY <1>1
<1>3. OneDenial(ima'[2].chain)  BY <1>2 DEF ReleaseRecords
<1> QED  BY <1>2, <1>3 DEF ReleaseRecords, OneDenial

\* A step that keeps the contract keeps the invariant, unless it moves the
\* stream under a seal.
LEMMA KeepsInv ==
  ASSUME IInv, Keeps, ~sealed, command = "idle" \/ UNCHANGED <<stream, tasks, commits>>
  PROVE  IInv'
<1> USE DEF IInv
<1>1. UNCHANGED <<boot, stage, ready, ima, phase, sealed, command, saved, inflight, userspace>>
  BY DEF Keeps, producer, bootVars
<1>2. TypeOK'  BY <1>1 DEF TypeOK, Keeps, Grew, TasksKept, OpsKept, CountersKept
<1>3. BusyIsLive'  BY <1>1 DEF BusyIsLive, Keeps, TasksKept
<1>4. RootFirst'  BY <1>1 DEF RootFirst, Keeps, TasksKept
<1>5. SealIsQuiet'  BY <1>1 DEF SealIsQuiet
<1>6. SealIsExact'  BY <1>1 DEF SealIsExact
<1>7. DenialMatchesStage'
  BY <1>1, DenialKept DEF DenialMatchesStage, Keeps, NoDenial, OneDenial
<1>8. BootMatchesRecords'  BY <1>1 DEF BootMatchesRecords, ReleaseRecords, OneDenial
<1> QED  BY <1>2, <1>3, <1>4, <1>5, <1>6, <1>7, <1>8

\* Until pid 1 is bound there is no task, no hook in flight and no seal.
LEMMA BootIsQuiet ==
  ASSUME IInv, boot # "running"
  PROVE  tasks = <<>> /\ inflight = {} /\ phase = PRE_RELEASE /\ command = "idle" /\ ~sealed
<1>1. tasks = <<>> /\ inflight = {} /\ phase = PRE_RELEASE
  BY DEF IInv, RootFirst, BootMatchesRecords
<1>2. phase # SEALED  BY <1>1, CapAssumption DEF PRE_RELEASE, SEALED, INIT
<1> QED  BY <1>1, <1>2 DEF IInv, SealIsQuiet

\* What a boot step that leaves the runtime state alone still owes.
LEMMA BootStep ==
  ASSUME IInv, boot # "running", TypeOK', UNCHANGED runtime, boot' # "running",
         DenialMatchesStage', BootMatchesRecords'
  PROVE  IInv'
<1>1. tasks' = <<>> /\ inflight' = {} /\ command' = "idle" /\ ~sealed'
  BY BootIsQuiet DEF runtime
<1> QED  BY <1>1 DEF IInv, BusyIsLive, RootFirst, SealIsQuiet, SealIsExact

LEMMA PanicInv ==
  ASSUME IInv, boot # "running", Panic PROVE IInv'
<1>1. /\ boot' = "panicked" /\ failed' = TRUE
      /\ UNCHANGED <<stage, ready, ima, stream, runtime, userspace>>
  BY DEF Panic
<1>2. TypeOK'  BY <1>1 DEF IInv, TypeOK, Boots, runtime
<1>3. DenialMatchesStage'  BY <1>1 DEF IInv, DenialMatchesStage, NoDenial, OneDenial
<1>4. ReleaseRecords => ReleaseRecords'  BY <1>1 DEF ReleaseRecords, OneDenial
<1>5. phase' = PRE_RELEASE /\ inflight' = {}  BY <1>1, BootIsQuiet DEF runtime
<1>6. BootMatchesRecords'
  BY <1>1, <1>4, <1>5 DEF IInv, BootMatchesRecords
<1> QED  BY <1>1, <1>2, <1>3, <1>6, BootStep

LEMMA RuntimeInitInv ==
  ASSUME IInv, RuntimeInit PROVE IInv'
<1>1. /\ boot = "runtime_init" /\ boot' = "ima_ready" /\ ready' \in BOOLEAN /\ failed' \in BOOLEAN
      /\ nextToken' \in {nextToken, 1}
      /\ UNCHANGED <<stage, ima, stream, phase, sealed, command, saved, tasks, ops, commits,
                     inflight, userspace>>
  BY DEF RuntimeInit, Proceed, IInv, TypeOK
<1>2. 1 \in 0..TokenLimit - 1  BY CapAssumption
<1>3. TypeOK'  BY <1>1, <1>2 DEF IInv, TypeOK, Boots
<1>4. DenialMatchesStage'  BY <1>1 DEF IInv, DenialMatchesStage, NoDenial, OneDenial
<1>5. ReleaseRecords => ReleaseRecords'  BY <1>1 DEF ReleaseRecords, OneDenial
<1>6. BootMatchesRecords'  BY <1>1, <1>5 DEF IInv, BootMatchesRecords
<1>7. tasks' = <<>> /\ inflight' = {} /\ command' = "idle" /\ ~sealed'
  BY <1>1, BootIsQuiet
<1> QED
  BY <1>1, <1>3, <1>4, <1>6, <1>7 DEF IInv, BusyIsLive, RootFirst, SealIsQuiet, SealIsExact

\* A boot step that only confirms: the stage moves on, the stream does not.
LEMMA ConfirmInv ==
  ASSUME IInv, boot # "running", NEW to \in Stages, NEW next \in Boots, next # "running",
         stage' = to, boot' = next, stage \in Early <=> to \in Early,
         UNCHANGED <<ready, ima, failed, stream, runtime, userspace>>,
         BootMatchesRecords'
  PROVE  IInv'
<1>1. TypeOK'  BY DEF IInv, TypeOK, runtime
<1>2. DenialMatchesStage'  BY DEF IInv, DenialMatchesStage, NoDenial, OneDenial
<1> QED  BY <1>1, <1>2, BootStep

LEMMA ImaReadyInv ==
  ASSUME IInv, ImaReady PROVE IInv'
<1>1. boot = "ima_ready"  BY DEF ImaReady
<1>2. CASE Panic  BY <1>1, <1>2, PanicInv
<1>3. CASE /\ ~failed /\ stage = "CORE_READY" /\ stage' = "IMA_AVAILABLE"
           /\ boot' = "canary" /\ UNCHANGED userspace
           /\ UNCHANGED <<ready, ima, failed, stream, runtime>>
  <2>1. phase' = PRE_RELEASE /\ inflight' = {}  BY <1>1, <1>3, BootIsQuiet DEF runtime
  <2>2. BootMatchesRecords'
    BY <1>1, <1>3, <2>1 DEF IInv, BootMatchesRecords
  <2> QED  BY <1>1, <1>3, <2>2, ConfirmInv DEF Early, Stages, Boots
<1> QED  BY <1>2, <1>3 DEF ImaReady, Proceed

LEMMA ReadyMeasuredInv ==
  ASSUME IInv, ReadyMeasured PROVE IInv'
<1>1. boot = "ready_state"  BY DEF ReadyMeasured, Confirm
<1>2. CASE Panic  BY <1>1, <1>2, PanicInv
<1>3. CASE /\ stage = "READY_APPENDED" /\ stage' = "READY_MEASURED"
           /\ boot' = "prepare_release" /\ UNCHANGED userspace
           /\ UNCHANGED <<ready, ima, failed, stream, runtime>>
  <2>1. phase' = PRE_RELEASE /\ inflight' = {}  BY <1>1, <1>3, BootIsQuiet DEF runtime
  <2>2. BootMatchesRecords'
    BY <1>1, <1>3, <2>1 DEF IInv, BootMatchesRecords, Early
  <2> QED  BY <1>1, <1>3, <2>2, ConfirmInv DEF Early, Stages, Boots
<1> QED  BY <1>2, <1>3 DEF ReadyMeasured, Confirm, Proceed

LEMMA ReleaseMeasuredInv ==
  ASSUME IInv, ReleaseMeasured PROVE IInv'
<1>1. boot = "release_state"  BY DEF ReleaseMeasured, Confirm
<1>2. CASE Panic  BY <1>1, <1>2, PanicInv
<1>3. CASE /\ stage = "RELEASE_APPENDED" /\ stage' = "RELEASE_MEASURED"
           /\ boot' = "publish" /\ UNCHANGED userspace
           /\ UNCHANGED <<ready, ima, failed, stream, runtime>>
  <2>1. phase' = PRE_RELEASE /\ inflight' = {}  BY <1>1, <1>3, BootIsQuiet DEF runtime
  <2>2. ReleaseRecords => ReleaseRecords'  BY <1>3 DEF ReleaseRecords, OneDenial
  <2>3. BootMatchesRecords'
    BY <1>1, <1>3, <2>1, <2>2 DEF IInv, BootMatchesRecords, Early
  <2> QED  BY <1>1, <1>3, <2>3, ConfirmInv DEF Early, Stages, Boots
<1> QED  BY <1>2, <1>3 DEF ReleaseMeasured, Confirm, Proceed

LEMMA PublishInv ==
  ASSUME IInv, Publish PROVE IInv'
<1>1. boot = "publish"  BY DEF Publish, Confirm
<1>2. CASE Panic  BY <1>1, <1>2, PanicInv
<1>3. CASE /\ stage = "RELEASE_MEASURED" /\ stage' = "RELEASED"
           /\ boot' = "bind_root" /\ UNCHANGED userspace
           /\ UNCHANGED <<ready, ima, failed, stream, runtime>>
  <2>1. phase' = PRE_RELEASE /\ inflight' = {}  BY <1>1, <1>3, BootIsQuiet DEF runtime
  <2>2. ReleaseRecords => ReleaseRecords'  BY <1>3 DEF ReleaseRecords, OneDenial
  <2>3. BootMatchesRecords'
    BY <1>1, <1>3, <2>1, <2>2 DEF IInv, BootMatchesRecords, Early
  <2> QED  BY <1>1, <1>3, <2>3, ConfirmInv DEF Early, Stages, Boots
<1> QED  BY <1>2, <1>3 DEF Publish, Confirm, Proceed

\* The frame of a denied exec is the first one.
LEMMA DenialAppended ==
  ASSUME TypeOK, NoDenial(stream),
         stream' = Append(stream, [event |-> "EXEC_DENIED", task |-> 0, op |-> 1,
                                   phase |-> PRE_RELEASE])
  PROVE  stream' \in Seq(Frame) /\ Len(stream') = Len(stream) + 1 /\ OneDenial(stream')
<1>1. PICK f : f = [event |-> "EXEC_DENIED", task |-> 0, op |-> 1, phase |-> PRE_RELEASE]  OBVIOUS
<1>2. f \in Frame /\ f.event = "EXEC_DENIED"
  BY <1>1, CapAssumption DEF Frame, Events, PRE_RELEASE, SEALED, INIT
<1>3. stream \in Seq(Frame) /\ Len(stream) \in Nat /\ DOMAIN stream = 1..Len(stream)
  BY DEF TypeOK
<1>4. /\ stream' \in Seq(Frame) /\ Len(stream') = Len(stream) + 1
      /\ DOMAIN stream' = 1..Len(stream) + 1
      /\ \A m \in 1..Len(stream) : stream'[m] = stream[m]
      /\ stream'[Len(stream) + 1] = f
  BY <1>1, <1>2, <1>3, AppendFrame
<1>5. Len(stream) + 1 \in DOMAIN stream'  BY <1>3, <1>4
<1>6. \A n \in DOMAIN stream' : (stream'[n].event = "EXEC_DENIED") <=> (n = Len(stream) + 1)
  BY <1>2, <1>3, <1>4 DEF NoDenial
<1> QED  BY <1>4, <1>5, <1>6 DEF OneDenial

\* The exec gate, met by the canary's helper or by any other exec.
LEMMA GateInv ==
  ASSUME IInv, NEW path, Gate(path), UNCHANGED <<ready, ima, runtime>>,
         boot' = boot \/ (boot = "canary" /\ boot' = "ready")
  PROVE  IInv'
<1> USE DEF IInv
<1>1. CASE UNCHANGED <<stream, stage>> /\ failed' \in BOOLEAN /\ userspace' \in BOOLEAN
           /\ (userspace' => stage = "RELEASED") /\ (failed' # failed => stage # "RELEASED")
  <2>1. TypeOK'  BY <1>1 DEF TypeOK, runtime, Boots
  <2>2. BusyIsLive' /\ SealIsQuiet'  BY DEF BusyIsLive, SealIsQuiet, runtime, Live
  <2>3. RootFirst'
    BY DEF RootFirst, runtime
  <2>4. SealIsExact'
    <3>1. CASE failed' = failed  BY <1>1, <3>1 DEF SealIsExact, runtime
    <3>2. CASE failed' # failed
      <4>1. boot # "running"  BY <1>1, <3>2 DEF BootMatchesRecords
      <4>2. command' = "idle" /\ ~sealed'  BY <4>1, BootIsQuiet DEF runtime
      <4> QED  BY <4>2 DEF SealIsExact
    <3> QED  BY <3>1, <3>2
  <2>5. DenialMatchesStage'  BY <1>1 DEF DenialMatchesStage, NoDenial, OneDenial
  <2>6. ReleaseRecords => ReleaseRecords'  BY DEF ReleaseRecords, OneDenial
  <2>7. BootMatchesRecords'
    BY <1>1, <2>6 DEF BootMatchesRecords, runtime
  <2> QED  BY <2>1, <2>2, <2>3, <2>4, <2>5, <2>7
<1>2. CASE /\ stage = "IMA_AVAILABLE" /\ stage' = "DENIED" /\ UNCHANGED userspace
           /\ failed' = FALSE /\ Len(stream) < MaxFrames
           /\ stream' = Append(stream, [event |-> "EXEC_DENIED", task |-> 0, op |-> 1,
                                        phase |-> PRE_RELEASE])
  <2>1. boot # "running" /\ boot' # "running" /\ boot \in Boots /\ boot' \in Boots
    BY <1>2 DEF BootMatchesRecords, TypeOK, Boots
  <2>2. NoDenial(stream)  BY <1>2 DEF DenialMatchesStage, Early
  <2>3. stream' \in Seq(Frame) /\ Len(stream') = Len(stream) + 1 /\ OneDenial(stream')
    BY <1>2, <2>2, DenialAppended
  <2>4. Len(stream') <= MaxFrames  BY <1>2, <2>3, CapAssumption DEF TypeOK
  <2>5. TypeOK'  BY <1>2, <2>1, <2>3, <2>4 DEF TypeOK, runtime, Stages
  <2>6. DenialMatchesStage'  BY <1>2, <2>3 DEF DenialMatchesStage, Early, OneDenial
  <2>7. phase' = PRE_RELEASE /\ inflight' = {}  BY <2>1, BootIsQuiet DEF runtime
  <2>8. ReleaseRecords => ReleaseRecords'  BY DEF ReleaseRecords, OneDenial
  <2>9. BootMatchesRecords'
    BY <1>2, <2>7, <2>8 DEF BootMatchesRecords, Early
  <2> QED  BY <2>1, <2>5, <2>6, <2>9, BootStep
<1>3. failed \in BOOLEAN /\ userspace \in BOOLEAN /\ (userspace => stage = "RELEASED")
  BY DEF TypeOK, BootMatchesRecords
<1> HIDE DEF IInv
<1>4. CASE failed /\ UNCHANGED <<failed, stream, stage, userspace>>  BY <1>1, <1>3, <1>4
<1>5. CASE /\ ~failed /\ stage = "RELEASED" /\ userspace' = TRUE
           /\ UNCHANGED <<failed, stream, stage>>
  BY <1>1, <1>3, <1>5
<1>6. CASE /\ ~failed /\ stage # "RELEASED" /\ failed' = TRUE
           /\ UNCHANGED <<stream, stage, userspace>>
  BY <1>1, <1>3, <1>6
<1>7. ASSUME NEW fits \in BOOLEAN, ~failed, stage = "IMA_AVAILABLE",
             Emit("EXEC_DENIED", 0, 1, PRE_RELEASE, fits),
             stage' = IF failed' THEN stage ELSE "DENIED", UNCHANGED userspace
      PROVE  IInv'
  <2>1. CASE fits /\ Len(stream) < MaxFrames  BY <1>2, <1>7, <2>1 DEF Emit
  <2>2. CASE ~(fits /\ Len(stream) < MaxFrames)  BY <1>1, <1>3, <1>7, <2>2 DEF Emit
  <2> QED  BY <2>1, <2>2
<1> QED  BY <1>4, <1>5, <1>6, <1>7 DEF Gate

LEMMA ExecInv ==
  ASSUME IInv, Exec PROVE IInv'
  BY GateInv DEF Exec

LEMMA CanaryInv ==
  ASSUME IInv, Canary PROVE IInv'
  BY GateInv, PanicInv DEF Canary

\* A boot step that appends the frame of a record.
LEMMA PrepareInv ==
  ASSUME IInv, NEW here \in Boots, NEW event \in {"IMA_READY", "USERSPACE_RELEASE"},
         NEW task \in Nat, NEW from \in Stages \ Early, NEW to \in Stages \ Early,
         NEW next \in Boots, here # "running", next # "running",
         Prepare(here, event, task, from, to, next),
         \/ here = "ready" /\ next = "measure_ready"
         \/ here = "prepare_release" /\ next = "measure_release",
         from # "RELEASED", to # "RELEASED"
  PROVE  IInv'
<1>1. boot = here  BY DEF Prepare
<1>2. CASE Panic  BY <1>1, <1>2, PanicInv
<1>3. ASSUME NEW fits \in BOOLEAN, stage = from,
             Emit(event, task, 0, PRE_RELEASE, fits),
             stage' = IF failed' THEN stage ELSE to,
             boot' = (IF failed' THEN "panicked" ELSE next), UNCHANGED userspace,
             UNCHANGED <<ready, ima, runtime>>
      PROVE  IInv'
  <2>1. TypeOK  BY DEF IInv
  <2>2. event \in Events /\ event # "EXEC_DENIED" /\ 0 \in Nat  BY DEF Events
  <2>3. PRE_RELEASE \in PRE_RELEASE..SEALED  BY CapAssumption DEF PRE_RELEASE, SEALED, INIT
  <2>4. Grew /\ failed' \in BOOLEAN  BY <1>3, <2>1, <2>2, <2>3, EmitGrows
  <2>5. boot' \in Boots /\ boot' # "running" /\ stage' \in Stages /\ stage' \notin Early
    BY <1>3 DEF Boots
  <2>6. TypeOK'  BY <1>3, <2>1, <2>4, <2>5 DEF TypeOK, runtime, Grew
  <2>7. OneDenial(stream)  BY <1>3 DEF IInv, DenialMatchesStage
  <2>8. OneDenial(stream')  BY <2>1, <2>4, <2>7, DenialKept
  <2>9. DenialMatchesStage'  BY <2>5, <2>8 DEF DenialMatchesStage, OneDenial, Early
  <2>10. phase' = PRE_RELEASE /\ inflight' = {}  BY <1>1, <1>3, BootIsQuiet DEF runtime
  <2>11. ReleaseRecords => ReleaseRecords'  BY <1>3 DEF ReleaseRecords, OneDenial
  <2>12. BootMatchesRecords'
    BY <1>1, <1>3, <2>5, <2>10, <2>11 DEF IInv, BootMatchesRecords
  <2> QED  BY <1>1, <1>3, <2>5, <2>6, <2>9, <2>12, BootStep
<1> QED  BY <1>2, <1>3 DEF Prepare, Proceed

LEMMA MeasureInv ==
  ASSUME IInv, MeasureReady \/ MeasureRelease PROVE IInv'
<1>1. PICK kind, next :
        /\ \/ boot = "measure_ready" /\ kind = "READY" /\ next = "ready_state"
           \/ boot = "measure_release" /\ kind = "RELEASED" /\ next = "release_state"
        /\ \/ Panic
           \/ /\ ima' = Append(ima, [kind |-> kind, chain |-> stream, commits |-> commits])
              /\ boot' = next /\ UNCHANGED userspace
              /\ UNCHANGED <<stage, ready, failed, stream, runtime>>
  BY DEF MeasureReady, MeasureRelease, Measure, Proceed
<1>2. boot # "running"  BY <1>1
<1>3. CASE Panic  BY <1>2, <1>3, PanicInv
<1>4. CASE /\ ima' = Append(ima, [kind |-> kind, chain |-> stream, commits |-> commits])
           /\ boot' = next /\ UNCHANGED userspace
           /\ UNCHANGED <<stage, ready, failed, stream, runtime>>
  <2>1. TypeOK /\ BootMatchesRecords /\ DenialMatchesStage  BY DEF IInv
  <2>2. PICK r : r = [kind |-> kind, chain |-> stream, commits |-> commits]  OBVIOUS
  <2>3. r \in Record /\ r.kind = kind /\ r.chain = stream  BY <1>1, <2>1, <2>2 DEF Record, TypeOK
  <2>4. ima \in Seq(Record) /\ Len(ima) \in Nat  BY <2>1 DEF TypeOK
  <2>5. ima' = Append(ima, r) /\ ima' \in Seq(Record)  BY <1>4, <2>2, <2>3, <2>4
  <2>6. next \in Boots /\ next # "running"  BY <1>1 DEF Boots
  <2>7. TypeOK'  BY <1>4, <2>1, <2>5, <2>6 DEF TypeOK, runtime
  <2>8. DenialMatchesStage'  BY <1>4, <2>1 DEF DenialMatchesStage, NoDenial, OneDenial
  <2>9. phase' = PRE_RELEASE /\ inflight' = {}  BY <1>2, <1>4, BootIsQuiet DEF runtime
  <2>10. stage \notin Early /\ OneDenial(stream)
    BY <1>1, <2>1 DEF BootMatchesRecords, DenialMatchesStage
  <2>11. stage # "RELEASED"
    <3>1. ima = <<>> \/ Len(ima) = 1  BY <1>1, <2>1 DEF BootMatchesRecords
    <3>2. Len(ima) < 2  BY <3>1
    <3> QED  BY <2>1, <2>4, <3>2 DEF BootMatchesRecords, ReleaseRecords
  <2>12. CASE boot = "measure_ready"
    <3>1. ima = <<>> /\ kind = "READY" /\ next = "ready_state"
      BY <1>1, <2>1, <2>12 DEF BootMatchesRecords
    <3>2. Len(ima') = 1 /\ ima'[1] = r  BY <2>3, <2>5, <3>1
    <3>3. BootMatchesRecords'
      BY <1>4, <2>1, <2>3, <2>9, <2>10, <2>11, <3>1, <3>2 DEF BootMatchesRecords
    <3> QED  BY <1>2, <1>4, <2>6, <2>7, <2>8, <3>3, BootStep
  <2>13. CASE boot = "measure_release"
    <3>1. Len(ima) = 1 /\ ima[1].kind = "READY" /\ kind = "RELEASED" /\ next = "release_state"
      BY <1>1, <2>1, <2>13 DEF BootMatchesRecords
    <3>2. Len(ima') = 2 /\ ima'[1] = ima[1] /\ ima'[2] = r
      <4>1. /\ Len(Append(ima, r)) = Len(ima) + 1
            /\ \A m \in 1..Len(ima) : Append(ima, r)[m] = ima[m]
            /\ Append(ima, r)[Len(ima) + 1] = r
        BY <2>3, <2>4, AppendRecord
      <4> QED  BY <2>5, <3>1, <4>1
    <3>3. OneDenial(ima'[2].chain)  BY <2>3, <2>10, <3>2
    <3>4. ReleaseRecords'  BY <2>3, <3>1, <3>2, <3>3 DEF ReleaseRecords, OneDenial
    <3>5. BootMatchesRecords'
      BY <1>4, <2>1, <2>9, <2>10, <2>11, <3>1, <3>4 DEF BootMatchesRecords
    <3> QED  BY <1>2, <1>4, <2>6, <2>7, <2>8, <3>5, BootStep
  <2> QED  BY <1>1, <2>12, <2>13
<1> QED  BY <1>1, <1>3, <1>4

LEMMA BindRootInv ==
  ASSUME IInv, BindRoot PROVE IInv'
<1>1. boot = "bind_root"  BY DEF BindRoot
<1>2. CASE Panic  BY <1>1, <1>2, PanicInv
<1>3. CASE /\ tasks' = <<[token |-> Root, parent |-> 0, flags |-> "LIVE", open |-> 0,
                          reservation |-> 0]>>
           /\ phase' = INIT /\ boot' = "running" /\ UNCHANGED userspace
           /\ UNCHANGED <<stage, ready, failed, stream, sealed, command, saved, ops, nextToken,
                          commits, inflight, ima>>
  <2>1. PICK e : e = [token |-> Root, parent |-> 0, flags |-> "LIVE", open |-> 0,
                      reservation |-> 0]
    OBVIOUS
  <2>2. e \in TaskRecord /\ e.token = Root /\ e.parent = 0
    BY <2>1, CapAssumption, TokenAssumption DEF TaskRecord
  <2>3. tasks' = <<e>>  BY <1>3, <2>1
  <2>4. tasks' \in Seq(TaskRecord) /\ Len(tasks') = 1 /\ tasks'[1] = e  BY <2>2, <2>3
  <2>5. INIT \in PRE_RELEASE..SEALED /\ 1 <= MaxTasks
    BY CapAssumption DEF INIT, PRE_RELEASE, SEALED
  <2>6. TypeOK'  BY <1>3, <2>4, <2>5 DEF IInv, TypeOK, Boots
  <2>7. inflight' = {} /\ command' = "idle" /\ ~sealed'  BY <1>1, <1>3, BootIsQuiet
  <2>8. BusyIsLive' /\ SealIsQuiet' /\ SealIsExact'
    BY <2>7 DEF BusyIsLive, SealIsQuiet, SealIsExact
  <2>9. RootFirst'  BY <1>3, <2>2, <2>4 DEF RootFirst
  <2>10. DenialMatchesStage'  BY <1>3 DEF IInv, DenialMatchesStage, NoDenial, OneDenial
  <2>11. ReleaseRecords => ReleaseRecords'  BY <1>3 DEF ReleaseRecords, OneDenial
  <2>12. BootMatchesRecords'
    BY <1>1, <1>3, <2>7, <2>11 DEF IInv, BootMatchesRecords
  <2> QED  BY <2>6, <2>8, <2>9, <2>10, <2>12 DEF IInv
<1> QED  BY <1>2, <1>3 DEF BindRoot, Proceed

LEMMA BootInv ==
  ASSUME IInv, Boot PROVE IInv'
<1>1. CASE PrepareReady
  <2>1. "ready" \in Boots /\ "measure_ready" \in Boots /\ "DENIED" \in Stages \ Early
        /\ "READY_APPENDED" \in Stages \ Early /\ 0 \in Nat
    BY DEF Boots, Stages, Early
  <2> QED  BY <1>1, <2>1, PrepareInv DEF PrepareReady
<1>2. CASE PrepareRelease
  <2>1. "prepare_release" \in Boots /\ "measure_release" \in Boots
        /\ "READY_MEASURED" \in Stages \ Early /\ "RELEASE_APPENDED" \in Stages \ Early /\ 1 \in Nat
    BY DEF Boots, Stages, Early
  <2> QED  BY <1>2, <2>1, PrepareInv DEF PrepareRelease
<1> QED
  BY <1>1, <1>2, RuntimeInitInv, ImaReadyInv, CanaryInv, MeasureInv, ReadyMeasuredInv,
     ReleaseMeasuredInv, PublishInv, BindRootInv DEF Boot

\* A refusal outside a sealed core, also one in the middle of a seal.
LEMMA RefuseInv ==
  ASSUME IInv, ~sealed, Refuse PROVE IInv'
<1>1. UNCHANGED <<stream, tasks, commits>>  BY DEF Refuse, runtime
<1> QED  BY <1>1, RefuseKeeps, KeepsInv DEF IInv

\* A hook with a bad argument can be in flight only while its task is alive,
\* so never once SEAL has found the run quiescent.
LEMMA EnterBadHookInv ==
  ASSUME IInv, NEW t \in Tokens, EnterBadHook(t) PROVE IInv'
<1> USE DEF IInv
<1>1. UNCHANGED <<boot, stage, ready, ima, failed, stream, phase, sealed, command, saved, tasks,
                  ops, nextToken, commits, userspace>>
  BY DEF EnterBadHook, bootVars
<1>2. inflight' = inflight \cup {t} /\ ~sealed /\ boot = "running"  BY DEF EnterBadHook
<1>3. PICK i \in DOMAIN tasks : Caller(t, i)  BY DEF EnterBadHook
<1>4. tasks[i].token = t /\ tasks[i].flags = "LIVE" /\ i \in Live(t)  BY <1>3 DEF Caller, Live
<1>5. command = "idle"
  <2>1. SUFFICES ASSUME command # "idle" PROVE FALSE  OBVIOUS
  <2>2. i = 1  BY <1>4, <2>1 DEF SealIsQuiet
  <2>3. t = Root  BY <1>4, <2>2 DEF RootFirst, TypeOK
  <2> QED  BY <2>1, <2>3 DEF EnterBadHook, Sealing
<1>6. TypeOK'  BY <1>1, <1>2 DEF TypeOK
<1>7. \A u : Live(u)' = Live(u)  BY <1>1 DEF Live
<1>8. BusyIsLive'  BY <1>2, <1>4, <1>7 DEF BusyIsLive
<1>9. RootFirst' /\ SealIsQuiet' /\ SealIsExact'
  BY <1>1, <1>2, <1>5 DEF RootFirst, SealIsQuiet, SealIsExact
<1>10. DenialMatchesStage'  BY <1>1 DEF DenialMatchesStage, NoDenial, OneDenial
<1>11. ReleaseRecords => ReleaseRecords'  BY <1>1 DEF ReleaseRecords, OneDenial
<1>12. BootMatchesRecords'  BY <1>1, <1>2, <1>11 DEF BootMatchesRecords
<1> QED  BY <1>6, <1>8, <1>9, <1>10, <1>12

LEMMA MarkFailureInv ==
  ASSUME IInv, NEW t \in Tokens, MarkFailure(t) PROVE IInv'
<1> USE DEF IInv
<1>1. UNCHANGED <<boot, stage, ready, ima, stream, phase, sealed, command, saved, tasks,
                  ops, nextToken, commits, userspace>>
  BY DEF MarkFailure, bootVars
<1>2. t \in inflight /\ failed' = TRUE /\ inflight' = inflight \ {t}  BY DEF MarkFailure
<1>3. command = "idle" /\ ~sealed  BY <1>2 DEF SealIsQuiet
<1>4. TypeOK'  BY <1>1, <1>2 DEF TypeOK
<1>5. \A u : Live(u)' = Live(u)  BY <1>1 DEF Live
<1>6. BusyIsLive'  BY <1>2, <1>5 DEF BusyIsLive
<1>7. RootFirst' /\ SealIsQuiet' /\ SealIsExact'
  BY <1>1, <1>3 DEF RootFirst, SealIsQuiet, SealIsExact
<1>8. DenialMatchesStage'  BY <1>1 DEF DenialMatchesStage, NoDenial, OneDenial
<1>9. ReleaseRecords => ReleaseRecords'  BY <1>1 DEF ReleaseRecords, OneDenial
<1>10. BootMatchesRecords'  BY <1>1, <1>2, <1>9 DEF BootMatchesRecords
<1> QED  BY <1>4, <1>6, <1>7, <1>8, <1>10

LEMMA HookInv ==
  ASSUME IInv, NEW t \in Tokens, Hook(t) PROVE IInv'
<1>1. CASE Active /\ Keeps
  <2>1. ~sealed /\ command = "idle"  BY <1>1 DEF Active, Sealing
  <2> QED  BY <1>1, <2>1, KeepsInv
<1>2. EnterBadHook(t) \/ MarkFailure(t) \/ (Active /\ Keeps)  BY HookKeeps DEF IInv
<1> QED  BY <1>1, <1>2, EnterBadHookInv, MarkFailureInv

\* What a control command that appends a frame still owes.
LEMMA ControlStep ==
  ASSUME IInv, Grew, TypeOK', boot = "running", SealIsQuiet', SealIsExact',
         UNCHANGED <<boot, stage, ready, ima, tasks, inflight, userspace>>
  PROVE  IInv'
<1> USE DEF IInv
<1>1. BusyIsLive' /\ RootFirst'  BY DEF BusyIsLive, RootFirst, Live
<1>2. DenialMatchesStage'
  BY DenialKept DEF DenialMatchesStage, NoDenial, OneDenial
<1>3. ReleaseRecords => ReleaseRecords'  BY DEF ReleaseRecords, OneDenial
<1>4. BootMatchesRecords'  BY <1>3 DEF BootMatchesRecords
<1> QED  BY <1>1, <1>2, <1>4

LEMMA AdvancePhaseInv ==
  ASSUME IInv, NEW requested \in 0..SEALED, NEW fits \in BOOLEAN, AdvancePhase(requested, fits)
  PROVE  IInv'
<1>1. boot = "running" /\ ~sealed /\ command = "idle"
  BY DEF AdvancePhase, FromRoot, Sealing
<1>2. CASE Refuse  BY <1>1, <1>2, RefuseInv
<1>3. CASE /\ Emit("PHASE_MARKER", 1, 0, requested, fits)
           /\ phase' = IF failed' THEN phase ELSE requested
           /\ UNCHANGED <<bootVars, sealed, command, saved, tasks, ops, nextToken, commits,
                          inflight, userspace>>
  <2>1. UNCHANGED <<boot, stage, ready, ima>>  BY <1>3 DEF bootVars
  <2>2. requested \in PRE_RELEASE..SEALED  BY DEF PRE_RELEASE
  <2>3. Grew /\ failed' \in BOOLEAN  BY <1>3, <2>2, EmitGrows DEF IInv, Events
  <2>4. TypeOK'  BY <1>3, <2>1, <2>2, <2>3 DEF IInv, TypeOK, Grew
  <2>5. SealIsQuiet' /\ SealIsExact'  BY <1>1, <1>3 DEF SealIsQuiet, SealIsExact
  <2> QED  BY <1>1, <1>3, <2>1, <2>3, <2>4, <2>5, ControlStep
<1> QED  BY <1>2, <1>3 DEF AdvancePhase

LEMMA SealBeginInv ==
  ASSUME IInv, NEW fits \in BOOLEAN, SealBegin(fits) PROVE IInv'
<1>1. boot = "running" /\ ~sealed /\ command = "idle" /\ Root \notin inflight
  BY DEF SealBegin, FromRoot, Sealing
<1>2. CASE Refuse  BY <1>1, <1>2, RefuseInv
<1>3. CASE /\ Quiescent
           /\ Emit("TERMINAL", 0, 0, SEALED, fits)
           /\ phase' = IF failed' THEN phase ELSE SEALED
           /\ command' = IF failed' THEN "idle" ELSE "measuring"
           /\ saved' = IF failed' THEN saved ELSE Len(stream')
           /\ UNCHANGED <<bootVars, sealed, tasks, ops, nextToken, commits, inflight, userspace>>
  <2>1. UNCHANGED <<boot, stage, ready, ima>>  BY <1>3 DEF bootVars
  <2>2. SEALED \in PRE_RELEASE..SEALED  BY CapAssumption DEF PRE_RELEASE, SEALED, INIT
  <2>3. Grew /\ failed' \in BOOLEAN  BY <1>3, <2>2, EmitGrows DEF IInv, Events
  <2>4. Len(stream') \in Nat  BY <2>3 DEF Grew
  <2>5. TypeOK'  BY <1>3, <2>1, <2>2, <2>3, <2>4 DEF IInv, TypeOK, Grew
  <2>6. \A i \in DOMAIN tasks : i # 1 => tasks[i].flags # "LIVE"  BY <1>3 DEF Quiescent
  <2>7. inflight = {}
    <3>1. SUFFICES ASSUME NEW u \in inflight PROVE FALSE  OBVIOUS
    <3>2. PICK i \in DOMAIN tasks : tasks[i].token = u /\ tasks[i].flags = "LIVE"
      BY DEF IInv, BusyIsLive, Live
    <3>3. i = 1  BY <2>6, <3>2
    <3>4. u = Root  BY <3>2, <3>3 DEF IInv, RootFirst, TypeOK
    <3> QED  BY <1>1, <3>4
  <2>8. SealIsQuiet'  BY <1>1, <1>3, <2>6, <2>7 DEF SealIsQuiet
  <2>9. SealIsExact'  BY <1>1, <1>3 DEF SealIsExact
  <2> QED  BY <1>1, <1>3, <2>1, <2>3, <2>5, <2>8, <2>9, ControlStep
<1> QED  BY <1>2, <1>3 DEF SealBegin

\* The whole stream, cut at its length.
LEMMA WholeStream ==
  ASSUME NEW s \in Seq(Frame) PROVE SubSeq(s, 1, Len(s)) = s
  OBVIOUS

LEMMA SealMeasureInv ==
  ASSUME IInv, SealMeasure PROVE IInv'
<1> USE DEF IInv
<1>1. /\ boot = "running" /\ command = "measuring"
      /\ UNCHANGED <<boot, stage, ready, failed, stream, phase, sealed, saved, tasks, ops,
                     nextToken, commits, inflight, userspace>>
  BY DEF SealMeasure
<1>2. stream \in Seq(Frame) /\ saved = Len(stream)  BY <1>1 DEF TypeOK, SealIsExact
<1>3. SubSeq(stream, 1, saved) = stream  BY <1>2, WholeStream
<1>4. PICK r : r = [kind |-> "SEALED", chain |-> stream, commits |-> commits]  OBVIOUS
<1>5. r = SealedRecord  BY <1>3, <1>4 DEF SealedRecord
<1>6. r \in Record  BY <1>2, <1>4 DEF Record, TypeOK
<1>7. \/ ima' = Append(ima, r) /\ command' = "measured"
      \/ ima' = ima /\ command' = "unmeasured"
  BY <1>5 DEF SealMeasure
<1>8. ima \in Seq(Record) /\ Len(ima) \in Nat  BY DEF TypeOK
<1>9. ima' \in Seq(Record)  BY <1>6, <1>7, <1>8
<1>10. TypeOK'  BY <1>1, <1>7, <1>9 DEF TypeOK
<1>11. BusyIsLive' /\ RootFirst'  BY <1>1 DEF BusyIsLive, RootFirst, Live
<1>12. SealIsQuiet'  BY <1>1 DEF SealIsQuiet
<1>13. SealIsExact'
  <2>1. sealed = FALSE  BY <1>1 DEF SealIsExact, TypeOK
  <2>2. CASE ima' = Append(ima, r) /\ command' = "measured"
    <3>1. /\ Len(Append(ima, r)) = Len(ima) + 1 /\ Append(ima, r)[Len(ima) + 1] = r
          /\ Append(ima, r) \in Seq(Record)
      BY <1>6, <1>8, AppendRecord
    <3>2. ima'[Len(ima')] = r /\ ima' # <<>>  BY <1>8, <2>2, <3>1
    <3> QED  BY <1>1, <1>2, <1>4, <2>1, <3>2 DEF SealIsExact
  <2>3. CASE ima' = ima /\ command' = "unmeasured"
    BY <1>1, <1>2, <2>1, <2>3 DEF SealIsExact
  <2> QED  BY <1>7, <2>2, <2>3
<1>14. DenialMatchesStage'  BY <1>1 DEF DenialMatchesStage, NoDenial, OneDenial
<1>15. ReleaseRecords'
  <2>1. ReleaseRecords  BY <1>1 DEF BootMatchesRecords
  <2> QED  BY <1>6, <1>7, <1>8, <2>1, RecordsKept
<1>16. BootMatchesRecords'  BY <1>1, <1>15 DEF BootMatchesRecords
<1> QED  BY <1>10, <1>11, <1>12, <1>13, <1>14, <1>16

LEMMA SealEndInv ==
  ASSUME IInv, SealEnd PROVE IInv'
<1> USE DEF IInv
<1>1. /\ boot = "running" /\ command \in {"measured", "unmeasured"} /\ command' = "idle"
      /\ UNCHANGED <<boot, stage, ready, ima, stream, phase, saved, tasks, ops, nextToken,
                     commits, inflight, userspace>>
  BY DEF SealEnd, bootVars
<1>2. \/ failed' = TRUE /\ sealed' = sealed
      \/ ~failed /\ command = "measured" /\ sealed' = TRUE /\ failed' = failed
  BY <1>1 DEF SealEnd
<1>3. sealed = FALSE /\ failed \in BOOLEAN  BY <1>1 DEF SealIsExact, TypeOK
<1>4. TypeOK'  BY <1>1, <1>2, <1>3 DEF TypeOK
<1>5. BusyIsLive' /\ RootFirst'  BY <1>1 DEF BusyIsLive, RootFirst, Live
<1>6. SealIsQuiet'  BY <1>1 DEF SealIsQuiet
<1>7. SealIsExact'  BY <1>1, <1>2, <1>3 DEF SealIsExact
<1>8. DenialMatchesStage'  BY <1>1 DEF DenialMatchesStage, NoDenial, OneDenial
<1>9. ReleaseRecords => ReleaseRecords'  BY <1>1 DEF ReleaseRecords, OneDenial
<1>10. BootMatchesRecords'  BY <1>1, <1>9 DEF BootMatchesRecords
<1> QED  BY <1>4, <1>5, <1>6, <1>7, <1>8, <1>10

LEMMA ControlInv ==
  ASSUME IInv, Control PROVE IInv'
<1>1. CASE BadCommand  BY <1>1, RefuseInv DEF BadCommand
<1> QED
  BY <1>1, AdvancePhaseInv, SealBeginInv, SealMeasureInv, SealEndInv DEF Control

LEMMA InitInv ==
  ASSUME Init PROVE IInv
<1> USE DEF Init
<1>1. PICK f : f = [event |-> "CORE_INIT", task |-> 0, op |-> 0, phase |-> PRE_RELEASE]  OBVIOUS
<1>2. PRE_RELEASE \in PRE_RELEASE..SEALED  BY CapAssumption DEF PRE_RELEASE, SEALED, INIT
<1>3. f \in Frame /\ f.event # "EXEC_DENIED"  BY <1>1, <1>2 DEF Frame, Events
<1>4. stream = <<f>>  BY <1>1
<1>5. stream \in Seq(Frame) /\ Len(stream) = 1 /\ stream[1] = f  BY <1>3, <1>4
<1>6. TypeOK
  <2>1. 1 <= MaxFrames /\ 0 <= MaxTasks /\ 0 <= MaxOps /\ 0 \in 0..TokenLimit - 1
    BY CapAssumption
  <2>2. tasks \in Seq(TaskRecord) /\ Len(tasks) = 0  OBVIOUS
  <2>3. ops \in Seq(OpRecord) /\ Len(ops) = 0  OBVIOUS
  <2>4. ima \in Seq(Record)  OBVIOUS
  <2>5. boot \in Boots /\ stage \in Stages  BY DEF Boots, Stages
  <2>6. phase \in PRE_RELEASE..SEALED  BY <1>2
  <2>7. ready \in BOOLEAN /\ failed \in BOOLEAN /\ sealed \in BOOLEAN /\ userspace \in BOOLEAN
        /\ command \in {"idle", "measuring", "measured", "unmeasured"} /\ saved \in Nat
        /\ nextToken \in 0..TokenLimit - 1 /\ commits \in Nat /\ inflight \subseteq Tokens
    BY <2>1
  <2> HIDE DEF Init
  <2> QED  BY <1>5, <2>1, <2>2, <2>3, <2>4, <2>5, <2>6, <2>7 DEF TypeOK
<1>7. NoDenial(stream)  BY <1>3, <1>5 DEF NoDenial
<1>8. DenialMatchesStage  BY <1>7 DEF DenialMatchesStage, Early
<1>9. BusyIsLive /\ RootFirst /\ SealIsQuiet /\ SealIsExact
  BY DEF BusyIsLive, RootFirst, SealIsQuiet, SealIsExact
<1>10. BootMatchesRecords  BY DEF BootMatchesRecords, Early
<1> QED  BY <1>6, <1>8, <1>9, <1>10 DEF IInv

LEMMA StutterInv ==
  ASSUME IInv, UNCHANGED vars PROVE IInv'
<1> USE DEF IInv, vars
<1>1. TypeOK'  BY DEF TypeOK
<1>2. BusyIsLive' /\ RootFirst'  BY DEF BusyIsLive, RootFirst, Live
<1>3. SealIsQuiet' /\ SealIsExact'  BY DEF SealIsQuiet, SealIsExact
<1>4. DenialMatchesStage'  BY DEF DenialMatchesStage, NoDenial, OneDenial
<1>5. ReleaseRecords => ReleaseRecords'  BY DEF ReleaseRecords, OneDenial
<1>6. BootMatchesRecords'  BY <1>5 DEF BootMatchesRecords
<1> QED  BY <1>1, <1>2, <1>3, <1>4, <1>6

LEMMA NextInv ==
  ASSUME IInv, [Next]_vars PROVE IInv'
<1>1. CASE UntrackedHook  BY <1>1, RefuseInv DEF UntrackedHook
<1> QED  BY <1>1, BootInv, ExecInv, HookInv, ControlInv, StutterInv DEF Next

\* The inductive invariant holds along the boot sequence, through every hook
\* of every task and through the ADVANCE and SEAL commands.
THEOREM TraceInvariance == Spec => []IInv
<1>1. Init => IInv  BY InitInv
<1>2. IInv /\ [Next]_vars => IInv'  BY NextInv
<1> QED  BY <1>1, <1>2, PTL DEF Spec

\* The state keeps its types and the task, operation and frame tables their
\* caps (runtime_task_cap, runtime_op_cap, max_frames_op).
THEOREM TraceTypeCorrect == Spec => []TypeOK
<1>1. IInv => TypeOK  BY DEF IInv
<1> QED  BY <1>1, TraceInvariance, PTL

\* No hook that passed the runtime_is_sealed check before the seal can mark a
\* failure on the sealed core.
THEOREM SealedIsGreen == Spec => []SealedStaysGreen
<1>1. IInv => SealedStaysGreen  BY DEF IInv, SealIsExact, SealedStaysGreen
<1> QED  BY <1>1, TraceInvariance, PTL

\* The record SEAL encoded before it dropped the lock still describes the
\* stream that stream_read returns.
THEOREM MeasuredIsRead == Spec => []MeasuredIsWhatIsRead
<1>1. IInv => MeasuredIsWhatIsRead  BY DEF IInv, SealIsExact, MeasuredIsWhatIsRead
<1> QED  BY <1>1, TraceInvariance, PTL

\* The exec gate opens only after both boot records were measured and exactly
\* one exec, the canary's, was denied.
THEOREM ReleaseIsMeasured == Spec => []ReleasedOnlyAfterMeasurement
<1>1. IInv => ReleasedOnlyAfterMeasurement
  BY DEF IInv, BootMatchesRecords, ReleaseRecords, ReleasedOnlyAfterMeasurement
<1> QED  BY <1>1, TraceInvariance, PTL

\* What FailureIsFinal asks of one step.
Final ==
  /\ failed => failed' /\ stream' = stream /\ sealed' = sealed /\ userspace' = userspace
  /\ sealed => sealed' /\ stream' = stream

\* fail_sticky is for good, and a sealed stream is never written again.
THEOREM FailureIsSticky == Spec => FailureIsFinal
<1>1. ASSUME IInv, [Next]_vars PROVE [Final]_vars
  <2>1. failed \in BOOLEAN /\ sealed \in BOOLEAN  BY <1>1 DEF IInv, TypeOK
  <2>2. ASSUME Boot PROVE Final
    <3>1. boot # "running"
      BY <2>2 DEF Boot, RuntimeInit, ImaReady, Canary, PrepareReady, MeasureReady, ReadyMeasured,
         PrepareRelease, MeasureRelease, ReleaseMeasured, Publish, BindRoot, Prepare, Measure, Confirm
    <3>2. ~sealed  BY <1>1, <3>1, BootIsQuiet
    <3>3. CASE Panic  BY <3>2, <3>3 DEF Panic, runtime, Final
    <3>4. CASE RuntimeInit  BY <2>1, <3>2, <3>4 DEF RuntimeInit, Proceed, Final
    <3>5. CASE ImaReady  BY <3>2, <3>3, <3>5 DEF ImaReady, Final
    <3>6. CASE Canary  BY <3>2, <3>3, <3>6 DEF Canary, Gate, runtime, Final
    <3>7. CASE PrepareReady \/ PrepareRelease
      BY <3>2, <3>3, <3>7 DEF PrepareReady, PrepareRelease, Prepare, Final
    <3>8. CASE MeasureReady \/ MeasureRelease
      BY <3>2, <3>3, <3>8 DEF MeasureReady, MeasureRelease, Measure, Proceed, runtime, Final
    <3>9. CASE ReadyMeasured \/ ReleaseMeasured \/ Publish
      BY <3>2, <3>3, <3>9 DEF ReadyMeasured, ReleaseMeasured, Publish, Confirm, Final
    <3>10. CASE BindRoot  BY <3>2, <3>3, <3>10 DEF BindRoot, Final
    <3> QED  BY <2>2, <3>4, <3>5, <3>6, <3>7, <3>8, <3>9, <3>10 DEF Boot
  <2>3. ASSUME Exec PROVE Final
    <3>1. sealed => stage = "RELEASED"
      BY <1>1, BootIsQuiet DEF IInv, BootMatchesRecords
    <3> QED  BY <2>3, <3>1 DEF Exec, Gate, runtime, Final
  <2>4. ASSUME UntrackedHook PROVE Final  BY <2>4 DEF UntrackedHook, Final
  <2>5. ASSUME NEW t \in Tokens, Hook(t) PROVE Final
    <3>1. CASE EnterBadHook(t)  BY <3>1 DEF EnterBadHook, Final
    <3>2. CASE MarkFailure(t)  BY <3>2 DEF MarkFailure, Final
    <3>3. CASE Active  BY <3>3 DEF Active, Final
    <3> QED  BY <1>1, <2>5, <3>1, <3>2, <3>3, HookKeeps DEF IInv
  <2>6. ASSUME Control PROVE Final
    <3>1. CASE \E requested \in 0..SEALED, fits \in BOOLEAN : AdvancePhase(requested, fits)
      BY <3>1 DEF AdvancePhase, FromRoot, Final
    <3>2. CASE \E fits \in BOOLEAN : SealBegin(fits)  BY <3>2 DEF SealBegin, FromRoot, Final
    <3>3. CASE SealMeasure  BY <3>3 DEF SealMeasure, Final
    <3>4. CASE SealEnd
      <4>1. ~sealed  BY <1>1, <3>4 DEF SealEnd, IInv, SealIsExact
      <4> QED  BY <2>1, <3>4, <4>1 DEF SealEnd, Final
    <3>5. CASE BadCommand  BY <3>5 DEF BadCommand, Final
    <3> QED  BY <2>6, <3>1, <3>2, <3>3, <3>4, <3>5 DEF Control
  <2> QED  BY <1>1, <2>2, <2>3, <2>4, <2>5, <2>6 DEF Next
<1>2. IInv /\ [Next]_vars => [Final]_vars  BY <1>1
<1>3. Spec => [][Final]_vars  BY <1>2, TraceInvariance, PTL DEF Spec
<1>4. [][Final]_vars <=> FailureIsFinal  BY DEF Final, FailureIsFinal
<1> QED  BY <1>3, <1>4, PTL

------------------------------------------------------------------------------
(* What the stream tells.  An operation that is closed in the table is closed
   in the stream by its last frame, one that is open has shown frames of the
   current phase only, and a task the stream created is alive or has its exit
   in the stream.                                                            *)

\* The operation of frame m ends in a closing frame of its own phase.
Finished(m) ==
  \E n \in m..Len(stream) :
    /\ stream[n].op = stream[m].op /\ stream[n].event \in Closing
    /\ stream[n].phase = stream[m].phase
    /\ \A k \in n + 1..Len(stream) : stream[k].op # stream[m].op

OpsTold ==
  \A m \in DOMAIN stream : stream[m].op > 1 =>
    /\ stream[m].op - 1 \in DOMAIN ops
    /\ ops[stream[m].op - 1].state = "CLOSED" => Finished(m)
    /\ ops[stream[m].op - 1].state # "CLOSED" => stream[m].phase = phase

\* The exit of the task that frame m creates comes later.
Exited(m) ==
  \E n \in m + 1..Len(stream) : stream[n].event = "TASK_EXIT" /\ stream[n].task = stream[m].task

TasksTold ==
  \A m \in DOMAIN stream : stream[m].event = "TASK_CREATED" =>
    /\ stream[m].task \in DOMAIN tasks \ {1}
    /\ tasks[stream[m].task].flags = "LIVE" \/ Exited(m)

CommitFrames == {m \in DOMAIN stream : stream[m].event = "EXEC_COMMIT"}

CommitsTold == commits = Cardinality(CommitFrames)

\* A seal under way has its TERMINAL frame and no operation open.
EndTold ==
  sealed \/ command # "idle" =>
    /\ stream[Len(stream)].event = "TERMINAL"
    /\ \A j \in DOMAIN ops : ops[j].state = "CLOSED"

\* There is no operation before the interval opens.
NoneEarly == phase = PRE_RELEASE => ops = <<>>

Told == ~failed => OpsTold /\ TasksTold /\ CommitsTold /\ EndTold

------------------------------------------------------------------------------
(* The contract of a step that leaves the core green. *)

Added == Len(stream) + 1..Len(stream')

Longer ==
  /\ stream' \in Seq(Frame) /\ Len(stream) <= Len(stream')
  /\ \A m \in 1..Len(stream) : stream'[m] = stream[m]

\* A closed operation stays closed and shows no further frame; one that closes does so
\* with the last frame added; a new frame is of the current phase; and the phase changes
\* only when every operation is closed.
OpsStep ==
  /\ ops' \in Seq(OpRecord) /\ Len(ops) <= Len(ops')
  /\ \A j \in DOMAIN ops : ops[j].state = "CLOSED" => ops'[j].state = "CLOSED"
  /\ \A m \in Added : stream'[m].op > 1 =>
       /\ stream'[m].op - 1 \in DOMAIN ops' /\ stream'[m].phase = phase'
       /\ stream'[m].op - 1 \in DOMAIN ops => ops[stream'[m].op - 1].state # "CLOSED"
  /\ \A j \in DOMAIN ops' : ops'[j].state = "CLOSED" =>
       \/ j \in DOMAIN ops /\ ops[j].state = "CLOSED"
       \/ /\ Len(stream) < Len(stream')
          /\ stream'[Len(stream')].op = j + 1 /\ stream'[Len(stream')].event \in Closing
  /\ phase' = phase \/ \A j \in DOMAIN ops : ops[j].state = "CLOSED"

\* A live task stays alive or shows its exit; a task the step creates is alive.
TasksStep ==
  /\ tasks' \in Seq(TaskRecord) /\ Len(tasks) <= Len(tasks')
  /\ \A i \in DOMAIN tasks : tasks[i].flags = "LIVE" =>
       \/ tasks'[i].flags = "LIVE"
       \/ \E m \in Added : stream'[m].event = "TASK_EXIT" /\ stream'[m].task = i
  /\ \A m \in Added : stream'[m].event = "TASK_CREATED" =>
       stream'[m].task \in DOMAIN tasks' \ {1} /\ tasks'[stream'[m].task].flags = "LIVE"

CommitStep ==
  \/ commits' = commits /\ \A m \in Added : stream'[m].event # "EXEC_COMMIT"
  \/ /\ commits' = commits + 1 /\ Len(stream') = Len(stream) + 1
     /\ stream'[Len(stream) + 1].event = "EXEC_COMMIT"

Tells == Longer /\ OpsStep /\ TasksStep /\ CommitStep

\* The frames of a longer stream are the old ones and the added ones.
LEMMA OldOrAdded ==
  ASSUME TypeOK, Longer
  PROVE  /\ Len(stream) \in Nat /\ Len(stream') \in Nat
         /\ DOMAIN stream = 1..Len(stream) /\ DOMAIN stream' = 1..Len(stream')
         /\ \A m \in DOMAIN stream' : \/ m \in DOMAIN stream /\ stream'[m] = stream[m]
                                      \/ m \in Added
         /\ \A m \in DOMAIN stream : m \in DOMAIN stream' /\ stream'[m] = stream[m]
         /\ \A m \in Added : m \in DOMAIN stream' /\ m \notin DOMAIN stream
<1>1. stream \in Seq(Frame) /\ stream' \in Seq(Frame) /\ Len(stream) <= Len(stream')
  BY DEF TypeOK, Longer
<1>2. Len(stream) \in Nat /\ Len(stream') \in Nat
      /\ DOMAIN stream = 1..Len(stream) /\ DOMAIN stream' = 1..Len(stream')
  BY <1>1
<1> QED  BY <1>1, <1>2 DEF Longer, Added

LEMMA OpsToldKept ==
  ASSUME TypeOK, OpsTold, Longer, OpsStep PROVE OpsTold'
<1> SUFFICES ASSUME NEW m \in DOMAIN stream', stream'[m].op > 1
             PROVE  /\ stream'[m].op - 1 \in DOMAIN ops'
                    /\ ops'[stream'[m].op - 1].state = "CLOSED" => Finished(m)'
                    /\ ops'[stream'[m].op - 1].state # "CLOSED" => stream'[m].phase = phase'
  BY DEF OpsTold
<1>1. PICK j : j = stream'[m].op - 1  OBVIOUS
<1>2. stream'[m] \in Frame /\ stream'[m].op \in Nat /\ j + 1 = stream'[m].op /\ j \in Nat
  <2>1. stream'[m] \in Frame  BY DEF Longer
  <2>2. stream'[m].op \in Nat  BY <2>1 DEF Frame
  <2> QED  BY <1>1, <2>1, <2>2
<1>3. ops \in Seq(OpRecord) /\ ops' \in Seq(OpRecord) /\ DOMAIN ops = 1..Len(ops)
      /\ DOMAIN ops' = 1..Len(ops') /\ Len(ops) <= Len(ops') /\ Len(ops) \in Nat /\ Len(ops') \in Nat
  BY DEF TypeOK, OpsStep
<1>4. \A k \in DOMAIN ops : k \in DOMAIN ops'  BY <1>3
<1>5. CASE m \in DOMAIN stream /\ stream'[m] = stream[m]
  <2>1. j \in DOMAIN ops /\ j \in DOMAIN ops'
    BY <1>1, <1>4, <1>5 DEF OpsTold
  <2>2. CASE ops[j].state = "CLOSED"
    <3>1. PICK n \in m..Len(stream) :
            /\ stream[n].op = stream[m].op /\ stream[n].event \in Closing
            /\ stream[n].phase = stream[m].phase
            /\ \A k \in n + 1..Len(stream) : stream[k].op # stream[m].op
      BY <1>1, <1>5, <2>2 DEF OpsTold, Finished
    <3>2. m \in Nat /\ n \in DOMAIN stream /\ n \in m..Len(stream') /\ stream'[n] = stream[n]
      BY <1>5, <3>1, OldOrAdded DEF Longer
    <3>3. ASSUME NEW k \in n + 1..Len(stream') PROVE stream'[k].op # stream'[m].op
      <4>1. k \in DOMAIN stream' /\ k >= n + 1  BY <3>2, <3>3, OldOrAdded
      <4>2. CASE k \in DOMAIN stream /\ stream'[k] = stream[k]
        <5>1. k \in n + 1..Len(stream)  BY <3>2, <4>1, <4>2, OldOrAdded
        <5> QED  BY <1>5, <3>1, <4>2, <5>1
      <4>3. CASE k \in Added
        BY <1>1, <1>2, <2>1, <2>2, <4>3 DEF OpsStep
      <4> QED  BY <4>1, <4>2, <4>3, OldOrAdded
    <3>4. Finished(m)'
      BY <1>5, <3>1, <3>2, <3>3 DEF Finished, Closing
    <3>5. ops'[j].state = "CLOSED"  BY <2>1, <2>2 DEF OpsStep
    <3> QED  BY <1>1, <2>1, <3>4, <3>5
  <2>3. CASE ops[j].state # "CLOSED"
    <3>1. stream[m].phase = phase  BY <1>1, <1>5, <2>3 DEF OpsTold
    <3>2. CASE ops'[j].state # "CLOSED"
      BY <1>1, <1>5, <2>1, <3>1, <3>2 DEF OpsStep
    <3>3. CASE ops'[j].state = "CLOSED"
      <4>1. /\ Len(stream) < Len(stream') /\ stream'[Len(stream')].op = j + 1
            /\ stream'[Len(stream')].event \in Closing
        BY <2>1, <2>3, <3>3 DEF OpsStep
      <4>2. Len(stream') \in Added  BY <4>1, OldOrAdded DEF Added
      <4>3. stream'[Len(stream')].phase = phase'
        BY <1>2, <1>3, <2>1, <4>1, <4>2 DEF OpsStep
      <4>4. phase' = phase
        BY <2>1, <2>3 DEF OpsStep
      <4>5. Len(stream') \in m..Len(stream')  BY OldOrAdded
      <4>6. \A k \in Len(stream') + 1..Len(stream') : FALSE  BY OldOrAdded
      <4> QED  BY <1>1, <1>2, <1>5, <2>1, <3>1, <3>3, <4>1, <4>3, <4>4, <4>5, <4>6 DEF Finished, Closing
    <3> QED  BY <3>2, <3>3
  <2> QED  BY <2>2, <2>3
<1>6. CASE m \in Added
  <2>1. j \in DOMAIN ops' /\ stream'[m].phase = phase' /\ (j \in DOMAIN ops => ops[j].state # "CLOSED")
    BY <1>1, <1>6 DEF OpsStep
  <2>2. CASE ops'[j].state # "CLOSED"  BY <1>1, <2>1, <2>2
  <2>3. CASE ops'[j].state = "CLOSED"
    <3>1. /\ stream'[Len(stream')].op = j + 1 /\ stream'[Len(stream')].event \in Closing
          /\ Len(stream) < Len(stream')
      BY <2>1, <2>3 DEF OpsStep
    <3>2. Len(stream') \in Added  BY <3>1, OldOrAdded DEF Added
    <3>3. stream'[Len(stream')].phase = phase'
      BY <1>2, <1>3, <2>1, <3>1, <3>2 DEF OpsStep
    <3>4. Len(stream') \in m..Len(stream')  BY OldOrAdded
    <3>5. \A k \in Len(stream') + 1..Len(stream') : FALSE  BY OldOrAdded
    <3> QED  BY <1>1, <1>2, <2>1, <3>1, <3>3, <3>4, <3>5 DEF Finished, Closing
  <2> QED  BY <2>2, <2>3
<1> QED  BY <1>5, <1>6, OldOrAdded

LEMMA TasksToldKept ==
  ASSUME TypeOK, TasksTold, Longer, TasksStep PROVE TasksTold'
<1> SUFFICES ASSUME NEW m \in DOMAIN stream', stream'[m].event = "TASK_CREATED"
             PROVE  /\ stream'[m].task \in DOMAIN tasks' \ {1}
                    /\ tasks'[stream'[m].task].flags = "LIVE" \/ Exited(m)'
  BY DEF TasksTold
<1>1. PICK i : i = stream'[m].task  OBVIOUS
<1>2. tasks \in Seq(TaskRecord) /\ tasks' \in Seq(TaskRecord) /\ DOMAIN tasks = 1..Len(tasks)
      /\ DOMAIN tasks' = 1..Len(tasks') /\ Len(tasks) <= Len(tasks') /\ Len(tasks) \in Nat
      /\ Len(tasks') \in Nat
  BY DEF TypeOK, TasksStep
<1>3. CASE m \in DOMAIN stream /\ stream'[m] = stream[m]
  <2>1. i \in DOMAIN tasks /\ i \in DOMAIN tasks' /\ i # 1  BY <1>1, <1>2, <1>3 DEF TasksTold
  <2>2. CASE Exited(m)
    <3>1. PICK n \in m + 1..Len(stream) : stream[n].event = "TASK_EXIT" /\ stream[n].task = i
      BY <1>1, <1>3, <2>2 DEF Exited
    <3>2. n \in DOMAIN stream /\ n \in m + 1..Len(stream')
      BY <1>3, <3>1, OldOrAdded DEF Longer
    <3> QED  BY <1>1, <2>1, <3>1, <3>2, OldOrAdded DEF Exited
  <2>3. CASE tasks[i].flags = "LIVE"
    <3>1. CASE \E n \in Added : stream'[n].event = "TASK_EXIT" /\ stream'[n].task = i
      <4>1. PICK n \in Added : stream'[n].event = "TASK_EXIT" /\ stream'[n].task = i  BY <3>1
      <4>2. n \in m + 1..Len(stream')  BY <1>3, OldOrAdded DEF Added
      <4> QED  BY <1>1, <2>1, <4>1, <4>2 DEF Exited
    <3> QED  BY <1>1, <2>1, <2>3, <3>1 DEF TasksStep
  <2> QED  BY <1>1, <1>3, <2>2, <2>3 DEF TasksTold
<1>4. CASE m \in Added  BY <1>4 DEF TasksStep
<1> QED  BY <1>3, <1>4, OldOrAdded

LEMMA CommitsToldKept ==
  ASSUME TypeOK, CommitsTold, Longer, CommitStep PROVE CommitsTold'
<1>1. IsFiniteSet(CommitFrames)
  <2>1. IsFiniteSet(1..Len(stream))  BY FS_Interval, OldOrAdded
  <2>2. CommitFrames \subseteq 1..Len(stream)  BY OldOrAdded DEF CommitFrames
  <2> QED  BY <2>1, <2>2, FS_Subset
<1>2. CASE commits' = commits /\ \A m \in Added : stream'[m].event # "EXEC_COMMIT"
  <2>1. CommitFrames' = CommitFrames  BY <1>2, OldOrAdded DEF CommitFrames
  <2> QED  BY <1>2, <2>1 DEF CommitsTold
<1>3. CASE /\ commits' = commits + 1 /\ Len(stream') = Len(stream) + 1
           /\ stream'[Len(stream) + 1].event = "EXEC_COMMIT"
  <2>1. \A m \in Added : m = Len(stream) + 1  BY <1>3, OldOrAdded DEF Added
  <2>2. Len(stream) + 1 \in DOMAIN stream' /\ Len(stream) + 1 \notin CommitFrames
    BY <1>3, OldOrAdded DEF CommitFrames
  <2>3. CommitFrames' = CommitFrames \cup {Len(stream) + 1}
    BY <1>3, <2>1, <2>2, OldOrAdded DEF CommitFrames
  <2>4. Cardinality(CommitFrames \cup {Len(stream) + 1}) = Cardinality(CommitFrames) + 1
    BY <1>1, <2>2, FS_AddElement
  <2> QED  BY <1>3, <2>3, <2>4 DEF CommitsTold
<1> QED  BY <1>2, <1>3 DEF CommitStep

------------------------------------------------------------------------------
(* The hooks keep the contract. *)

\* Operation j is new or open, is in state st after the step, and nothing else moves.
Moved(j, st) ==
  /\ j \in Nat /\ ops' \in Seq(OpRecord) /\ Len(ops) <= Len(ops')
  /\ DOMAIN ops' = DOMAIN ops \cup {j} /\ ops'[j].state = st
  /\ \A k \in DOMAIN ops \ {j} : ops'[k].state = ops[k].state
  /\ j \in DOMAIN ops => ops[j].state # "CLOSED"

\* No live task ends.
LivesKept ==
  /\ tasks' \in Seq(TaskRecord) /\ Len(tasks) <= Len(tasks')
  /\ \A i \in DOMAIN tasks : tasks[i].flags = "LIVE" => tasks'[i].flags = "LIVE"

LEMMA ReplaceMoves ==
  ASSUME TypeOK, NEW j \in DOMAIN ops, ops[j].state # "CLOSED", NEW e \in OpRecord,
         ops' = [ops EXCEPT ![j] = e]
  PROVE  Moved(j, e.state)
<1>1. ops \in Seq(OpRecord)  BY DEF TypeOK
<1>2. /\ ops' \in Seq(OpRecord) /\ Len(ops') = Len(ops) /\ DOMAIN ops' = DOMAIN ops
      /\ ops'[j] = e /\ \A k \in DOMAIN ops \ {j} : ops'[k] = ops[k]
  BY <1>1
<1> QED  BY <1>1, <1>2 DEF Moved

LEMMA AppendMoves ==
  ASSUME TypeOK, NEW e \in OpRecord, ops' = Append(ops, e)
  PROVE  Moved(Len(ops) + 1, e.state)
<1>1. ops \in Seq(OpRecord) /\ Len(ops) \in Nat /\ DOMAIN ops = 1..Len(ops)  BY DEF TypeOK
<1>2. /\ ops' \in Seq(OpRecord) /\ Len(ops') = Len(ops) + 1 /\ DOMAIN ops' = 1..Len(ops) + 1
      /\ ops'[Len(ops) + 1] = e /\ \A k \in DOMAIN ops : ops'[k] = ops[k]
  BY <1>1
<1> QED  BY <1>1, <1>2 DEF Moved

\* The state of an open operation, its decision or its file changes.
LEMMA UpdateMoves ==
  ASSUME TypeOK, NEW j \in DOMAIN ops, ops[j].state # "CLOSED"
  PROVE  /\ \A st \in {"OPEN", "COMMITTED", "CLOSED"} :
              ops' = [ops EXCEPT ![j].state = st] => Moved(j, st)
         /\ \A n \in Nat, d \in BOOLEAN :
              ops' = [ops EXCEPT ![j].policies = n, ![j].denied = d] => Moved(j, ops[j].state)
         /\ \A f \in Files :
              ops' = [ops EXCEPT ![j].policies = 1, ![j].file = f] => Moved(j, ops[j].state)
<1>1. ops \in Seq(OpRecord) /\ ops[j] \in OpRecord  BY DEF TypeOK
<1>2. ASSUME NEW st \in {"OPEN", "COMMITTED", "CLOSED"}, ops' = [ops EXCEPT ![j].state = st]
      PROVE  Moved(j, st)
  <2>1. PICK e : e = [ops[j] EXCEPT !.state = st]  OBVIOUS
  <2>2. e \in OpRecord  BY <1>1, <2>1 DEF OpRecord
  <2>3. e.state = st  BY <1>1, <2>1 DEF OpRecord
  <2>4. ops' = [ops EXCEPT ![j] = e]  BY <1>2, <2>1
  <2> QED  BY <2>2, <2>3, <2>4, ReplaceMoves
<1>3. ASSUME NEW n \in Nat, NEW d \in BOOLEAN,
             ops' = [ops EXCEPT ![j].policies = n, ![j].denied = d]
      PROVE  Moved(j, ops[j].state)
  <2>1. PICK e : e = [ops[j] EXCEPT !.policies = n]  OBVIOUS
  <2>2. e \in OpRecord  BY <1>1, <2>1 DEF OpRecord
  <2>3. e.state = ops[j].state  BY <1>1, <2>1 DEF OpRecord
  <2>4. PICK g : g = [e EXCEPT !.denied = d]  OBVIOUS
  <2>5. g \in OpRecord  BY <2>2, <2>4 DEF OpRecord
  <2>6. g.state = ops[j].state  BY <2>2, <2>3, <2>4 DEF OpRecord
  <2>7. ops' = [ops EXCEPT ![j] = g]  BY <1>1, <1>3, <2>1, <2>4
  <2> QED  BY <2>5, <2>6, <2>7, ReplaceMoves
<1>4. ASSUME NEW f \in Files, ops' = [ops EXCEPT ![j].policies = 1, ![j].file = f]
      PROVE  Moved(j, ops[j].state)
  <2>1. PICK e : e = [ops[j] EXCEPT !.policies = 1]  OBVIOUS
  <2>2. e \in OpRecord  BY <1>1, <2>1 DEF OpRecord
  <2>3. e.state = ops[j].state  BY <1>1, <2>1 DEF OpRecord
  <2>4. PICK g : g = [e EXCEPT !.file = f]  OBVIOUS
  <2>5. g \in OpRecord  BY <2>2, <2>4 DEF OpRecord
  <2>6. g.state = ops[j].state  BY <2>2, <2>3, <2>4 DEF OpRecord
  <2>7. ops' = [ops EXCEPT ![j] = g]  BY <1>1, <1>4, <2>1, <2>4
  <2> QED  BY <2>5, <2>6, <2>7, ReplaceMoves
<1> QED  BY <1>2, <1>3, <1>4

\* A further pass of an open exec, or the first pass of a new one.
LEMMA PassMoves ==
  ASSUME TypeOK, NEW e \in OpRecord, e.state = "OPEN", NEW s, NEW j,
         \/ s = ops /\ j \in DOMAIN ops /\ ops[j] = e
         \/ s = Append(ops, e) /\ j = Len(ops) + 1,
         ops' = [s EXCEPT ![j].passes = @ + 1]
  PROVE  Moved(j, "OPEN")
<1>1. ops \in Seq(OpRecord) /\ Len(ops) \in Nat /\ DOMAIN ops = 1..Len(ops)  BY DEF TypeOK
<1>2. s[j] = e /\ s \in Seq(OpRecord) /\ j \in DOMAIN s  BY <1>1
<1>3. PICK g : g = [e EXCEPT !.passes = e.passes + 1]  OBVIOUS
<1>4. e.passes + 1 \in Nat  BY DEF OpRecord
<1>5. g \in OpRecord  BY <1>3, <1>4 DEF OpRecord
<1>6. g.state = "OPEN"  BY <1>3, <1>4 DEF OpRecord
<1>7. ops' = [s EXCEPT ![j] = g]  BY <1>2, <1>3
<1>8. CASE s = ops /\ j \in DOMAIN ops /\ ops[j] = e
  <2>1. ops[j].state # "CLOSED" /\ ops' = [ops EXCEPT ![j] = g]  BY <1>7, <1>8
  <2>2. Moved(j, g.state)  BY <1>5, <1>8, <2>1, ReplaceMoves
  <2> QED  BY <1>6, <2>2
<1>9. CASE s = Append(ops, e) /\ j = Len(ops) + 1
  <2>1. /\ Len(s) = Len(ops) + 1 /\ DOMAIN s = 1..Len(ops) + 1
        /\ \A k \in DOMAIN ops : s[k] = ops[k]
    BY <1>1, <1>9
  <2>2. /\ ops' \in Seq(OpRecord) /\ Len(ops') = Len(ops) + 1 /\ DOMAIN ops' = 1..Len(ops) + 1
        /\ ops'[j] = g /\ \A k \in DOMAIN s \ {j} : ops'[k] = s[k]
    BY <1>2, <1>5, <1>7, <2>1
  <2>3. \A k \in DOMAIN ops : k \in DOMAIN s \ {j}  BY <1>1, <1>9, <2>1
  <2>4. DOMAIN ops' = DOMAIN ops \cup {j} /\ j \notin DOMAIN ops /\ j \in Nat
    BY <1>1, <1>9, <2>2
  <2> QED  BY <1>1, <1>6, <2>1, <2>2, <2>3, <2>4 DEF Moved
<1> QED  BY <1>8, <1>9

LEMMA CountKeepsLives ==
  ASSUME TypeOK, NEW i \in DOMAIN tasks,
         tasks' = tasks \/ tasks' = Opened(i) \/ tasks' = Released(i)
  PROVE  LivesKept
<1>1. tasks \in Seq(TaskRecord) /\ Len(tasks) \in Nat  BY DEF TypeOK
<1>2. CASE tasks' = tasks  BY <1>1, <1>2 DEF LivesKept
<1>3. CASE tasks' = Opened(i) \/ tasks' = Released(i)
  <2>1. PICK T : T = tasks'  OBVIOUS
  <2>2. /\ T \in Seq(TaskRecord) /\ Len(T) = Len(tasks)
        /\ \A k \in DOMAIN tasks : T[k].flags = tasks[k].flags
    BY <1>3, <2>1, CountTypes
  <2> QED  BY <1>1, <2>1, <2>2 DEF LivesKept
<1> QED  BY <1>2, <1>3

LEMMA ReservationKeepsLives ==
  ASSUME TypeOK, NEW i \in DOMAIN tasks, NEW r \in 0..TokenLimit - 1,
         NEW T, T = tasks \/ T = Opened(i),
         tasks' = [T EXCEPT ![i].reservation = r]
  PROVE  LivesKept
<1>1. tasks \in Seq(TaskRecord) /\ Len(tasks) \in Nat
      /\ \A k \in DOMAIN tasks : tasks[k] \in TaskRecord
  BY DEF TypeOK
<1>2. /\ T \in Seq(TaskRecord) /\ Len(T) = Len(tasks) /\ DOMAIN T = DOMAIN tasks
      /\ \A k \in DOMAIN tasks : T[k].flags = tasks[k].flags /\ T[k] \in TaskRecord
  BY <1>1, CountTypes
<1>3. PICK e : e = [T[i] EXCEPT !.reservation = r]  OBVIOUS
<1>4. e \in TaskRecord  BY <1>2, <1>3 DEF TaskRecord
<1>5. e.flags = T[i].flags  BY <1>2, <1>3 DEF TaskRecord
<1>6. tasks' = [T EXCEPT ![i] = e]  BY <1>3
<1>7. /\ tasks' \in Seq(TaskRecord) /\ Len(tasks') = Len(tasks)
      /\ \A k \in DOMAIN tasks : tasks'[k].flags = tasks[k].flags
  BY <1>2, <1>4, <1>5, <1>6, ReplaceTask
<1> QED  BY <1>1, <1>7 DEF LivesKept

\* append_locked that succeeds adds its one frame.
LEMMA EmitAdds ==
  ASSUME TypeOK, NEW event \in Events, NEW task \in Nat, NEW op \in Nat,
         NEW ph \in PRE_RELEASE..SEALED, NEW fits \in BOOLEAN,
         Emit(event, task, op, ph, fits), ~failed'
  PROVE  /\ Longer /\ Len(stream') = Len(stream) + 1 /\ Len(stream) \in Nat
         /\ Added = {Len(stream) + 1}
         /\ stream'[Len(stream) + 1].event = event /\ stream'[Len(stream) + 1].task = task
         /\ stream'[Len(stream) + 1].op = op /\ stream'[Len(stream) + 1].phase = ph
<1>1. PICK f : f = [event |-> event, task |-> task, op |-> op, phase |-> ph]  OBVIOUS
<1>2. f \in Frame  BY <1>1 DEF Frame
<1>3. f.event = event /\ f.task = task /\ f.op = op /\ f.phase = ph  BY <1>1
<1>4. stream \in Seq(Frame) /\ Len(stream) \in Nat  BY DEF TypeOK
<1>5. stream' = Append(stream, f)  BY <1>1 DEF Emit
<1>6. /\ stream' \in Seq(Frame) /\ Len(stream') = Len(stream) + 1
      /\ stream'[Len(stream) + 1] = f /\ \A m \in 1..Len(stream) : stream'[m] = stream[m]
  BY <1>2, <1>4, <1>5, AppendFrame
<1>7. Added = {Len(stream) + 1}  BY <1>4, <1>6 DEF Added
<1> QED  BY <1>3, <1>4, <1>6, <1>7 DEF Longer

\* A frame of one operation: its table entry moves with it.
LEMMA OpFrame ==
  ASSUME TypeOK, Len(stream) \in Nat, Len(stream') = Len(stream) + 1,
         Added = {Len(stream) + 1}, NEW j, NEW st, Moved(j, st),
         stream'[Len(stream) + 1].op = j + 1, stream'[Len(stream) + 1].phase = phase,
         phase' = phase, st = "CLOSED" => stream'[Len(stream) + 1].event \in Closing
  PROVE  OpsStep
<1>1. j + 1 - 1 = j  BY DEF Moved
<1>2. \A m \in Added : m = Len(stream) + 1  OBVIOUS
<1>3. /\ ops' \in Seq(OpRecord) /\ Len(ops) <= Len(ops')
      /\ \A i \in DOMAIN ops : ops[i].state = "CLOSED" => ops'[i].state = "CLOSED"
  BY DEF Moved
<1>4. \A m \in Added : /\ stream'[m].op - 1 \in DOMAIN ops' /\ stream'[m].phase = phase'
                       /\ stream'[m].op - 1 \in DOMAIN ops => ops[stream'[m].op - 1].state # "CLOSED"
  BY <1>1, <1>2 DEF Moved
<1>5. Len(stream) < Len(stream')  OBVIOUS
<1>6. ASSUME NEW i \in DOMAIN ops', ops'[i].state = "CLOSED"
      PROVE  \/ i \in DOMAIN ops /\ ops[i].state = "CLOSED"
             \/ stream'[Len(stream')].op = i + 1 /\ stream'[Len(stream')].event \in Closing
  <2>1. CASE i = j  BY <1>6, <2>1 DEF Moved
  <2>2. CASE i # j  BY <1>6, <2>2 DEF Moved
  <2> QED  BY <2>1, <2>2
<1> QED  BY <1>3, <1>4, <1>5, <1>6 DEF OpsStep

\* A frame that is neither a task's birth or end nor a commit.
LEMMA HookTells ==
  ASSUME TypeOK, NEW event \in Events \ {"TASK_CREATED", "TASK_EXIT", "EXEC_COMMIT"},
         NEW task \in Nat, NEW j, NEW st, Moved(j, st), NEW fits \in BOOLEAN,
         Emit(event, task, j + 1, phase, fits), ~failed', phase' = phase, LivesKept,
         commits' = commits, st = "CLOSED" => event \in Closing
  PROVE  Tells
<1>1. j + 1 \in Nat /\ phase \in PRE_RELEASE..SEALED  BY DEF Moved, TypeOK
<1>2. /\ Longer /\ Len(stream') = Len(stream) + 1 /\ Len(stream) \in Nat
      /\ Added = {Len(stream) + 1} /\ stream'[Len(stream) + 1].event = event
      /\ stream'[Len(stream) + 1].op = j + 1 /\ stream'[Len(stream) + 1].phase = phase
  BY <1>1, EmitAdds
<1>3. OpsStep  BY <1>2, OpFrame
<1>4. TasksStep  BY <1>2 DEF TasksStep, LivesKept
<1>5. CommitStep  BY <1>2 DEF CommitStep
<1> QED  BY <1>2, <1>3, <1>4, <1>5 DEF Tells

\* A step that adds no frame and moves no operation's state.
LEMMA SilentTells ==
  ASSUME TypeOK, stream' = stream, LivesKept, commits' = commits, phase' = phase,
         ops' \in Seq(OpRecord), Len(ops') = Len(ops),
         \A j \in DOMAIN ops : ops'[j].state = ops[j].state
  PROVE  Tells
<1>1. stream \in Seq(Frame) /\ Len(stream) \in Nat /\ Added = {}  BY DEF TypeOK, Added
<1>2. ops \in Seq(OpRecord) /\ DOMAIN ops' = DOMAIN ops /\ Len(ops) \in Nat  BY DEF TypeOK
<1>3. Longer  BY <1>1 DEF Longer
<1>4. OpsStep  BY <1>1, <1>2 DEF OpsStep
<1>5. TasksStep  BY <1>1 DEF TasksStep, LivesKept
<1>6. CommitStep  BY <1>1 DEF CommitStep
<1> QED  BY <1>3, <1>4, <1>5, <1>6 DEF Tells

LEMMA FileOpenAttemptTells ==
  ASSUME TypeOK, NEW t \in Tokens, NEW fits \in BOOLEAN, FileOpenAttempt(t, fits), ~failed'
  PROVE  Tells
<1>1. PICK i \in DOMAIN tasks :
        /\ Active /\ Caller(t, i)
        /\ tasks' = Opened(i)
        /\ ops' = Append(ops, NewOp(i, "FILE_OPEN"))
        /\ Emit("FILE_OPEN_ATTEMPT", i, OrdinalOf(Len(ops) + 1), phase, fits)
        /\ UNCHANGED <<producer, nextToken, commits>>
  BY DEF FileOpenAttempt, Refuse
<1>2. NewOp(i, "FILE_OPEN") \in OpRecord /\ NewOp(i, "FILE_OPEN").state = "OPEN"
  BY NewOpType DEF Kinds, NewOp
<1>3. Moved(Len(ops) + 1, "OPEN")  BY <1>1, <1>2, AppendMoves
<1>4. LivesKept  BY <1>1, CountKeepsLives
<1>5. phase' = phase /\ commits' = commits  BY <1>1 DEF producer
<1>6. i \in Nat  BY <1>1, CallerFacts
<1>7. Emit("FILE_OPEN_ATTEMPT", i, Len(ops) + 1 + 1, phase, fits)  BY <1>1 DEF OrdinalOf
<1> QED  BY <1>3, <1>4, <1>5, <1>6, <1>7, HookTells DEF Events

\* append_return_locked closes the operation with its frame.
LEMMA ReturnTells ==
  ASSUME TypeOK, Active, NEW t \in Tokens, NEW i \in DOMAIN tasks, Caller(t, i),
         NEW j \in DOMAIN ops, ops[j].state # "CLOSED", NEW fits \in BOOLEAN, Return(i, j, fits),
         ~failed'
  PROVE  Tells
<1>1. Moved(j, "CLOSED")  BY UpdateMoves DEF Return
<1>2. LivesKept  BY CountKeepsLives DEF Return
<1>3. phase' = phase /\ commits' = commits  BY DEF Return, producer
<1>4. i \in Nat  BY CallerFacts
<1>5. Emit("OPERATION_RETURN", i, j + 1, phase, fits)  BY DEF Return, OrdinalOf
<1> QED  BY <1>1, <1>2, <1>3, <1>4, <1>5, HookTells DEF Events, Closing

LEMMA OperationReturnTells ==
  ASSUME TypeOK, NEW t \in Tokens, NEW o \in Ordinals, NEW error \in BOOLEAN,
         NEW fits \in BOOLEAN, OperationReturn(t, o, error, fits), ~failed'
  PROVE  Tells
<1>1. PICK i \in DOMAIN tasks :
        /\ Active /\ Caller(t, i)
        /\ o - 1 \in DOMAIN ops /\ ops[o - 1].state # "CLOSED" /\ Return(i, o - 1, fits)
  BY DEF OperationReturn, Refuse
<1> QED  BY <1>1, ReturnTells

LEMMA ExecReturnTells ==
  ASSUME TypeOK, NEW t \in Tokens, NEW token \in 0..TokenLimit - 1, NEW error \in BOOLEAN,
         NEW fits \in BOOLEAN, ExecReturn(t, token, error, fits), ~failed'
  PROVE  Tells
<1>1. PICK i \in DOMAIN tasks :
        /\ Active /\ Caller(t, i)
        /\ \E j \in DOMAIN ops : ops[j].state # "CLOSED" /\ Return(i, j, fits)
  BY DEF ExecReturn, ActiveOps, OpenStates, Refuse
<1> QED  BY <1>1, ReturnTells

LEMMA ExecReserveTells ==
  ASSUME TypeOK, NEW t \in Tokens, ExecReserve(t), ~failed'
  PROVE  Tells
<1>1. PICK i \in DOMAIN tasks :
        /\ tasks' = [tasks EXCEPT ![i].reservation = nextToken]
        /\ UNCHANGED <<producer, failed, stream, ops, commits>>
  BY DEF ExecReserve, Refuse
<1>2. nextToken \in 0..TokenLimit - 1 /\ ops \in Seq(OpRecord)  BY DEF TypeOK
<1>3. LivesKept  BY <1>1, <1>2, ReservationKeepsLives
<1> QED  BY <1>1, <1>2, <1>3, SilentTells DEF producer

\* append_exec_attempt_locked, on an open operation or on a new one.
LEMMA AttemptTells ==
  ASSUME TypeOK, Active, NEW t \in Tokens, NEW i \in DOMAIN tasks, Caller(t, i), NEW s, NEW j,
         NEW e \in OpRecord, e.state = "OPEN",
         \/ s = ops /\ j \in DOMAIN ops /\ ops[j] = e
         \/ s = Append(ops, e) /\ j = Len(ops) + 1,
         NEW fits \in BOOLEAN, AttemptFrame(i, j, s, fits), LivesKept, ~failed',
         UNCHANGED <<producer, nextToken, commits>>
  PROVE  Tells
<1>1. Moved(j, "OPEN")  BY PassMoves DEF AttemptFrame
<1>2. phase' = phase /\ commits' = commits  BY DEF producer
<1>3. i \in Nat  BY CallerFacts
<1>4. Emit("EXEC_ATTEMPT", i, j + 1, phase, fits)  BY DEF AttemptFrame, OrdinalOf
<1> QED  BY <1>1, <1>2, <1>3, <1>4, HookTells DEF Events

LEMMA ExecAttemptTells ==
  ASSUME TypeOK, NEW t \in Tokens, NEW fits \in BOOLEAN, ExecAttempt(t, fits), ~failed'
  PROVE  Tells
<1>1. PICK i \in DOMAIN tasks :
        /\ Active /\ Caller(t, i)
        /\ \/ /\ AttemptFrame(i, Len(ops) + 1, Append(ops, NewOp(i, "EXEC")), fits)
              /\ tasks' = Opened(i)
              /\ UNCHANGED <<producer, nextToken, commits>>
           \/ \E j \in DOMAIN ops : /\ ops[j].state = "OPEN" /\ AttemptFrame(i, j, ops, fits)
                                    /\ UNCHANGED <<producer, tasks, nextToken, commits>>
  BY DEF ExecAttempt, ActiveOps, Refuse
<1>2. LivesKept  BY <1>1, CountKeepsLives
<1>3. NewOp(i, "EXEC") \in OpRecord /\ NewOp(i, "EXEC").state = "OPEN"
  BY NewOpType DEF Kinds, NewOp
<1>4. \A j \in DOMAIN ops : ops[j] \in OpRecord  BY DEF TypeOK
<1> QED  BY <1>1, <1>2, <1>3, <1>4, AttemptTells

LEMMA ExecPassTells ==
  ASSUME TypeOK, NEW t \in Tokens, NEW fits \in BOOLEAN, ExecPass(t, fits), ~failed'
  PROVE  Tells
<1> DEFINE new(i) == [NewOp(i, "EXEC") EXCEPT !.reservation = tasks[i].reservation]
<1>1. PICK i \in DOMAIN tasks :
        /\ Active /\ Caller(t, i)
        /\ \/ /\ AttemptFrame(i, Len(ops) + 1, Append(ops, new(i)), fits)
              /\ tasks' = [Opened(i) EXCEPT ![i].reservation = 0]
              /\ UNCHANGED <<producer, nextToken, commits>>
           \/ \E j \in DOMAIN ops : /\ ops[j].state = "OPEN" /\ AttemptFrame(i, j, ops, fits)
                                    /\ UNCHANGED <<producer, tasks, nextToken, commits>>
  BY DEF ExecPass, ActiveOps, Refuse
<1>2. tasks[i] \in TaskRecord  BY <1>1, CallerFacts
<1>3. tasks[i].reservation \in 0..TokenLimit - 1 /\ 0 \in 0..TokenLimit - 1
  BY <1>2, CapAssumption DEF TaskRecord
<1>4. LivesKept  BY <1>1, <1>3, CountKeepsLives, ReservationKeepsLives
<1>5. new(i) \in OpRecord  BY <1>3, NewOpType DEF Kinds
<1>6. new(i).state = "OPEN"  BY DEF NewOp
<1>7. \A j \in DOMAIN ops : ops[j] \in OpRecord  BY DEF TypeOK
<1>8. PICK e : e = new(i)  OBVIOUS
<1>9. UNCHANGED <<producer, nextToken, commits>>  BY <1>1
<1>10. CASE AttemptFrame(i, Len(ops) + 1, Append(ops, new(i)), fits)
  <2>1. AttemptFrame(i, Len(ops) + 1, Append(ops, e), fits)  BY <1>8, <1>10
  <2>2. e \in OpRecord /\ e.state = "OPEN"  BY <1>5, <1>6, <1>8
  <2> HIDE DEF new
  <2> QED  BY <1>1, <1>4, <1>9, <2>1, <2>2, AttemptTells
<1>11. CASE \E j \in DOMAIN ops : ops[j].state = "OPEN" /\ AttemptFrame(i, j, ops, fits)
  <2> HIDE DEF new
  <2> QED  BY <1>1, <1>4, <1>7, <1>9, <1>11, AttemptTells
<1> QED  BY <1>1, <1>10, <1>11

LEMMA ExecCommitTells ==
  ASSUME TypeOK, NEW t \in Tokens, NEW fits \in BOOLEAN, ExecCommit(t, fits), ~failed'
  PROVE  Tells
<1>1. PICK i \in DOMAIN tasks, j \in DOMAIN ops :
        /\ Active /\ Caller(t, i) /\ ops[j].state = "OPEN"
        /\ ops' = [ops EXCEPT ![j].state = "COMMITTED"]
        /\ Emit("EXEC_COMMIT", i, OrdinalOf(j), phase, fits)
        /\ commits' = commits + 1
        /\ UNCHANGED <<producer, tasks, nextToken>>
  BY DEF ExecCommit, ActiveOps, Refuse
<1>2. Moved(j, "COMMITTED")  BY <1>1, UpdateMoves
<1>3. LivesKept  BY <1>1, CountKeepsLives
<1>4. phase' = phase  BY <1>1 DEF producer
<1>5. i \in Nat /\ j + 1 \in Nat /\ phase \in PRE_RELEASE..SEALED
  BY <1>1, CallerFacts DEF OrdinalOf
<1>6. /\ Longer /\ Len(stream') = Len(stream) + 1 /\ Len(stream) \in Nat
      /\ Added = {Len(stream) + 1} /\ stream'[Len(stream) + 1].event = "EXEC_COMMIT"
      /\ stream'[Len(stream) + 1].op = j + 1 /\ stream'[Len(stream) + 1].phase = phase
  BY <1>1, <1>5, EmitAdds DEF Events, OrdinalOf
<1>7. OpsStep  BY <1>2, <1>4, <1>6, OpFrame
<1>8. TasksStep  BY <1>3, <1>6 DEF TasksStep, LivesKept
<1>9. CommitStep  BY <1>1, <1>6 DEF CommitStep
<1> QED  BY <1>6, <1>7, <1>8, <1>9 DEF Tells

LEMMA FilePolicyDecisionTells ==
  ASSUME TypeOK, NEW t \in Tokens, NEW o \in Ordinals, NEW deny \in BOOLEAN,
         NEW fits \in BOOLEAN, FilePolicyDecision(t, o, deny, fits), ~failed'
  PROVE  Tells
<1>1. PICK i \in DOMAIN tasks :
        /\ Active /\ Caller(t, i) /\ o - 1 \in DOMAIN ops /\ ops[o - 1].state = "OPEN"
        /\ Emit("POLICY_DECISION", i, o, phase, fits)
        /\ ops' = [ops EXCEPT ![o - 1].policies = 1, ![o - 1].denied = deny]
        /\ UNCHANGED <<producer, tasks, nextToken, commits>>
  BY DEF FilePolicyDecision, Undecided, Refuse
<1>2. Moved(o - 1, "OPEN")  BY <1>1, UpdateMoves
<1>3. LivesKept  BY <1>1, CountKeepsLives
<1>4. phase' = phase /\ commits' = commits  BY <1>1 DEF producer
<1>5. i \in Nat /\ o - 1 + 1 = o
  <2>1. i \in Nat /\ Len(ops) \in Nat  BY <1>1, CallerFacts
  <2>2. o \in Int  BY <2>1 DEF Ordinals
  <2> QED  BY <2>1, <2>2
<1>6. Emit("POLICY_DECISION", i, o - 1 + 1, phase, fits)  BY <1>1, <1>5
<1> QED  BY <1>2, <1>3, <1>4, <1>5, <1>6, HookTells DEF Events

LEMMA FileGateObservationTells ==
  ASSUME TypeOK, NEW t \in Tokens, NEW o \in Ordinals, NEW file \in Files,
         FileGateObservation(t, o, file), ~failed'
  PROVE  Tells
<1>1. PICK i \in DOMAIN tasks :
        /\ o - 1 \in DOMAIN ops /\ ops[o - 1].state = "OPEN"
        /\ ops' = [ops EXCEPT ![o - 1].policies = 1, ![o - 1].file = file]
        /\ UNCHANGED <<producer, failed, stream, tasks, nextToken, commits>>
  BY DEF FileGateObservation, Undecided, Refuse
<1>2. Moved(o - 1, "OPEN")  BY <1>1, UpdateMoves
<1>3. LivesKept  BY <1>1, CountKeepsLives
<1>4. ops \in Seq(OpRecord) /\ Len(ops') = Len(ops) /\ \A j \in DOMAIN ops : ops'[j].state = ops[j].state
  BY <1>1, <1>2 DEF TypeOK, Moved
<1> QED  BY <1>1, <1>2, <1>3, <1>4, SilentTells DEF producer, Moved

LEMMA PolicyDecisionTells ==
  ASSUME TypeOK, NEW t \in Tokens, NEW kind \in Decided, NEW deny \in BOOLEAN,
         NEW fits \in BOOLEAN, PolicyDecision(t, kind, deny, fits), ~failed'
  PROVE  Tells
<1> DEFINE Row(i, j) ==
             /\ ops[j].state = "OPEN"
             /\ Emit("POLICY_DECISION", i, OrdinalOf(j), phase, fits)
             /\ ops' = [ops EXCEPT ![j].policies = @ + 1, ![j].denied = deny]
             /\ UNCHANGED <<producer, tasks, nextToken, commits>>
           New(i) ==
             /\ Emit("POLICY_DECISION", i, OrdinalOf(Len(ops) + 1), phase, fits)
             /\ tasks' = Opened(i)
             /\ ops' = Append(ops, [NewOp(i, kind) EXCEPT !.policies = 1, !.denied = deny])
             /\ UNCHANGED <<producer, nextToken, commits>>
<1>1. PICK i \in DOMAIN tasks :
        Active /\ Caller(t, i) /\ ((\E j \in DOMAIN ops : Row(i, j)) \/ New(i))
  BY DEF PolicyDecision, ActiveOps, Refuse
<1>2. PICK j, st :
        /\ Moved(j, st) /\ st = "OPEN"
        /\ Emit("POLICY_DECISION", i, j + 1, phase, fits)
  <2>1. CASE \E j \in DOMAIN ops : Row(i, j)
    <3>1. PICK j \in DOMAIN ops : Row(i, j)  BY <2>1
    <3>2. ops[j] \in OpRecord  BY DEF TypeOK
    <3>3. PICK n : n = ops[j].policies + 1  OBVIOUS
    <3>4. n \in Nat  BY <3>2, <3>3 DEF OpRecord
    <3>5. ops' = [ops EXCEPT ![j].policies = n, ![j].denied = deny]  BY <3>1, <3>3
    <3>6. Moved(j, "OPEN")  BY <3>1, <3>4, <3>5, UpdateMoves
    <3> QED  BY <3>1, <3>6 DEF OrdinalOf
  <2>2. CASE New(i)
    <3>1. PICK e : e = [NewOp(i, kind) EXCEPT !.policies = 1, !.denied = deny]  OBVIOUS
    <3>2. kind \in Kinds  BY DecidedAssumption DEF Kinds
    <3>3. e \in OpRecord  BY <3>1, <3>2, NewOpType
    <3>4. e.state = "OPEN"  BY <3>1 DEF NewOp
    <3>5. ops' = Append(ops, e)  BY <2>2, <3>1
    <3>6. Moved(Len(ops) + 1, "OPEN")  BY <3>3, <3>4, <3>5, AppendMoves
    <3>7. Emit("POLICY_DECISION", i, Len(ops) + 1 + 1, phase, fits)  BY <2>2 DEF OrdinalOf
    <3> HIDE DEF New, Row
    <3> QED  BY <3>6, <3>7
  <2> QED  BY <1>1, <2>1, <2>2
<1>3. tasks' = tasks \/ tasks' = Opened(i)  BY <1>1
<1>4. phase' = phase /\ commits' = commits  BY <1>1 DEF producer
<1>5. Active /\ Caller(t, i)  BY <1>1
<1> HIDE DEF New, Row
<1>6. LivesKept  BY <1>3, CountKeepsLives
<1>7. i \in Nat  BY <1>5, CallerFacts
<1> QED  BY <1>2, <1>4, <1>6, <1>7, HookTells DEF Events

\* The two frames of a successful open: the decision, then the return that closes.
LEMMA FileOpenReturnTells ==
  ASSUME TypeOK, NEW t \in Tokens, NEW file \in Files \cup {None}, NEW fits \in BOOLEAN,
         NEW fits2 \in BOOLEAN, FileOpenReturn(t, file, fits, fits2), ~failed'
  PROVE  Tells
<1> DEFINE decision(i, j) == [event |-> "POLICY_DECISION", task |-> i, op |-> OrdinalOf(j),
                              phase |-> phase]
           return(i, j) == [decision(i, j) EXCEPT !.event = "OPERATION_RETURN"]
           Both(i, j) ==
             /\ stream' = stream \o <<decision(i, j), return(i, j)>>
             /\ ops' = [ops EXCEPT ![j].state = "CLOSED"]
             /\ tasks' = Released(i)
             /\ UNCHANGED <<producer, nextToken, commits>>
<1>1. PICK i \in DOMAIN tasks, j \in DOMAIN ops :
        /\ Active /\ Caller(t, i) /\ ops[j].state = "OPEN"
        /\ Return(i, j, fits) \/ Both(i, j)
  BY DEF FileOpenReturn, ActiveOps, Refuse
<1>2. CASE Return(i, j, fits)  BY <1>1, <1>2, ReturnTells
<1>3. CASE Both(i, j)
  <2>1. PICK d : d = decision(i, j)  OBVIOUS
  <2>2. PICK r : r = [event |-> "OPERATION_RETURN", task |-> i, op |-> OrdinalOf(j), phase |-> phase]
    OBVIOUS
  <2>3. d \in Frame /\ r \in Frame  BY <1>1, <2>1, <2>2, CallerFacts DEF Frame, Events
  <2>4. /\ d.op = j + 1 /\ d.phase = phase /\ d.event = "POLICY_DECISION"
        /\ r.op = j + 1 /\ r.phase = phase /\ r.event = "OPERATION_RETURN"
    BY <2>1, <2>2 DEF OrdinalOf
  <2>5. stream' = stream \o <<d, r>>  BY <1>3, <2>1, <2>2
  <2>6. stream \in Seq(Frame) /\ Len(stream) \in Nat /\ <<d, r>> \in Seq(Frame)  BY <2>3 DEF TypeOK
  <2>7. Len(stream') = Len(stream) + 2 /\ stream' \in Seq(Frame)  BY <2>5, <2>6
  <2>8. /\ \A m \in 1..Len(stream) : stream'[m] = stream[m]
        /\ stream'[Len(stream) + 1] = d /\ stream'[Len(stream) + 2] = r
    BY <2>5, <2>6
  <2>9. \A m \in Added : m = Len(stream) + 1 \/ m = Len(stream) + 2  BY <2>6, <2>7 DEF Added
  <2>10. Longer  BY <2>6, <2>7, <2>8 DEF Longer
  <2>11. Moved(j, "CLOSED")  BY <1>1, <1>3, UpdateMoves
  <2>12. LivesKept  BY <1>3, CountKeepsLives
  <2>13. phase' = phase /\ commits' = commits  BY <1>3 DEF producer
  <2>14. j + 1 - 1 = j /\ Len(stream') = Len(stream) + 2 /\ Len(stream) < Len(stream')
    BY <2>6, <2>7, <2>11 DEF Moved
  <2>15. \A m \in Added : stream'[m] = d \/ stream'[m] = r  BY <2>8, <2>9
  <2>16. stream'[Len(stream')] = r  BY <2>8, <2>14
  <2> HIDE DEF Both, decision, return
  <2>17. OpsStep
    <3>1. /\ j \in Nat /\ ops' \in Seq(OpRecord) /\ Len(ops) <= Len(ops')
          /\ DOMAIN ops' = DOMAIN ops \cup {j}
          /\ j \in DOMAIN ops => ops[j].state # "CLOSED"
          /\ \A k \in DOMAIN ops \ {j} : ops'[k].state = ops[k].state
      BY <2>11 DEF Moved
    <3>2. \A k \in DOMAIN ops : ops[k].state = "CLOSED" => ops'[k].state = "CLOSED"
      BY <3>1
    <3>3. \A m \in Added : stream'[m].op - 1 = j /\ stream'[m].phase = phase'
      <4>1. d.op - 1 = j /\ r.op - 1 = j /\ d.phase = phase' /\ r.phase = phase'
        BY <2>4, <2>13, <3>1
      <4> QED  BY ONLY <2>15, <4>1
    <3>4. \A k \in DOMAIN ops' : ops'[k].state = "CLOSED" =>
            \/ k \in DOMAIN ops /\ ops[k].state = "CLOSED"
            \/ /\ Len(stream) < Len(stream')
               /\ stream'[Len(stream')].op = k + 1 /\ stream'[Len(stream')].event \in Closing
      BY <2>4, <2>14, <2>16, <3>1 DEF Closing
    <3> QED  BY <2>13, <3>1, <3>2, <3>3, <3>4 DEF OpsStep
  <2>18. TasksStep  BY <2>4, <2>12, <2>15 DEF TasksStep, LivesKept
  <2>19. CommitStep  BY <2>4, <2>13, <2>15 DEF CommitStep
  <2> QED  BY <2>10, <2>17, <2>18, <2>19 DEF Tells
<1> QED  BY <1>1, <1>2, <1>3

LEMMA TaskAllocAttemptTells ==
  ASSUME TypeOK, NEW t \in Tokens, NEW fits \in BOOLEAN, TaskAllocAttempt(t, fits), ~failed'
  PROVE  Tells
<1>1. PICK i \in DOMAIN tasks :
        /\ Active /\ Caller(t, i)
        /\ tasks' = Append(Opened(i), [token |-> None, parent |-> i, flags |-> "none",
                                       open |-> 0, reservation |-> 0])
        /\ ops' = Append(ops, [NewOp(i, "TASK_ALLOC") EXCEPT !.child = Len(tasks) + 1])
        /\ Emit("TASK_ALLOC_ATTEMPT", Len(tasks) + 1, OrdinalOf(Len(ops) + 1), phase, fits)
        /\ UNCHANGED <<producer, nextToken, commits>>
  BY DEF TaskAllocAttempt, Refuse
<1>2. tasks \in Seq(TaskRecord) /\ Len(tasks) + 1 \in Nat /\ Len(tasks) \in Nat
      /\ DOMAIN tasks = 1..Len(tasks)
  BY DEF TypeOK
<1>3. Moved(Len(ops) + 1, "OPEN")
  <2>1. PICK e : e = [NewOp(i, "TASK_ALLOC") EXCEPT !.child = Len(tasks) + 1]  OBVIOUS
  <2>2. e \in OpRecord  BY <1>2, <2>1, NewOpType DEF Kinds
  <2>3. e.state = "OPEN"  BY <2>1 DEF NewOp
  <2>4. ops' = Append(ops, e)  BY <1>1, <2>1
  <2> QED  BY <2>2, <2>3, <2>4, AppendMoves
<1>4. LivesKept
  <2>1. PICK T : T = Opened(i)  OBVIOUS
  <2>2. /\ T \in Seq(TaskRecord) /\ Len(T) = Len(tasks) /\ DOMAIN T = DOMAIN tasks
        /\ \A k \in DOMAIN tasks : T[k].flags = tasks[k].flags
    BY <2>1, CountTypes
  <2>3. PICK e : e = [token |-> None, parent |-> i, flags |-> "none", open |-> 0, reservation |-> 0]
    OBVIOUS
  <2>4. 0 \in 0..TokenLimit - 1 /\ i \in Nat  BY <1>1, CapAssumption, CallerFacts
  <2>5. e \in TaskRecord  BY <2>3, <2>4 DEF TaskRecord
  <2>6. tasks' = Append(T, e)  BY <1>1, <2>1, <2>3
  <2>7. tasks' \in Seq(TaskRecord) /\ Len(tasks') = Len(tasks) + 1
        /\ \A k \in DOMAIN tasks : tasks'[k] = T[k]
    BY <1>2, <2>2, <2>5, <2>6
  <2> QED  BY <1>2, <2>2, <2>7 DEF LivesKept
<1>5. phase' = phase /\ commits' = commits  BY <1>1 DEF producer
<1>6. Emit("TASK_ALLOC_ATTEMPT", Len(tasks) + 1, Len(ops) + 1 + 1, phase, fits)
  BY <1>1 DEF OrdinalOf
<1> QED  BY <1>2, <1>3, <1>4, <1>5, <1>6, HookTells DEF Events

\* The task that appears is alive, and it is not pid 1.
LEMMA TaskCreatedTells ==
  ASSUME TypeOK, RootFirst, NEW t \in Tokens, NEW child \in Tokens, NEW fits \in BOOLEAN,
         TaskCreated(t, child, fits), ~failed'
  PROVE  Tells
<1>1. PICK i \in DOMAIN tasks, j \in DOMAIN ops :
        /\ Active /\ Caller(t, i) /\ ops[j].state = "OPEN"
        /\ ops[j].child \in DOMAIN tasks /\ tasks[ops[j].child].parent = i
        /\ tasks' = [Released(i) EXCEPT ![ops[j].child].token = child,
                                        ![ops[j].child].flags = "LIVE"]
        /\ ops' = [ops EXCEPT ![j].state = "CLOSED"]
        /\ Emit("TASK_CREATED", ops[j].child, OrdinalOf(j), phase, fits)
        /\ UNCHANGED <<producer, nextToken, commits>>
  BY DEF TaskCreated, ActiveOps, Refuse
<1>2. PICK c \in DOMAIN tasks : c = ops[j].child  BY <1>1
<1>3. tasks \in Seq(TaskRecord) /\ DOMAIN tasks = 1..Len(tasks) /\ Len(tasks) \in Nat
      /\ tasks # <<>> /\ 1 \in DOMAIN tasks /\ i \in 1..Len(tasks) /\ c \in Nat
  BY DEF TypeOK
<1>4. c # 1
  <2>1. tasks[1].parent = 0 /\ tasks[c].parent = i  BY <1>1, <1>2, <1>3 DEF RootFirst
  <2> QED  BY <1>3, <2>1
<1>5. LivesKept /\ tasks'[c].flags = "LIVE" /\ c \in DOMAIN tasks'
  <2>1. PICK T : T = Released(i)  OBVIOUS
  <2>2. /\ T \in Seq(TaskRecord) /\ Len(T) = Len(tasks) /\ DOMAIN T = DOMAIN tasks
        /\ \A k \in DOMAIN tasks : T[k].flags = tasks[k].flags /\ T[k] \in TaskRecord
    BY <2>1, CountTypes
  <2>3. PICK e1 : e1 = [T[c] EXCEPT !.token = child]  OBVIOUS
  <2>4. e1 \in TaskRecord  BY <2>2, <2>3 DEF TaskRecord
  <2>5. PICK e2 : e2 = [e1 EXCEPT !.flags = "LIVE"]  OBVIOUS
  <2>6. e2 \in TaskRecord  BY <2>4, <2>5 DEF TaskRecord
  <2>7. e2.flags = "LIVE"  BY <2>4, <2>5 DEF TaskRecord
  <2>8. tasks' = [T EXCEPT ![c] = e2]  BY <1>1, <1>2, <2>1, <2>2, <2>3, <2>5
  <2>9. /\ tasks' \in Seq(TaskRecord) /\ Len(tasks') = Len(tasks) /\ DOMAIN tasks' = DOMAIN tasks
        /\ tasks'[c] = e2 /\ \A k \in DOMAIN tasks \ {c} : tasks'[k] = T[k]
    BY <2>2, <2>6, <2>8, ReplaceTask
  <2> QED  BY <1>3, <2>2, <2>7, <2>9 DEF LivesKept
<1>6. Moved(j, "CLOSED")  BY <1>1, UpdateMoves
<1>7. phase' = phase /\ commits' = commits  BY <1>1 DEF producer
<1>8. j + 1 \in Nat /\ phase \in PRE_RELEASE..SEALED  BY <1>1, CallerFacts DEF OrdinalOf
<1>9. /\ Longer /\ Len(stream') = Len(stream) + 1 /\ Len(stream) \in Nat
      /\ Added = {Len(stream) + 1} /\ stream'[Len(stream) + 1].event = "TASK_CREATED"
      /\ stream'[Len(stream) + 1].task = c
      /\ stream'[Len(stream) + 1].op = j + 1 /\ stream'[Len(stream) + 1].phase = phase
  BY <1>1, <1>2, <1>3, <1>8, EmitAdds DEF Events, OrdinalOf
<1>10. OpsStep  BY <1>6, <1>7, <1>9, OpFrame DEF Closing
<1>11. TasksStep  BY <1>4, <1>5, <1>9 DEF TasksStep, LivesKept
<1>12. CommitStep  BY <1>7, <1>9 DEF CommitStep
<1> QED  BY <1>9, <1>10, <1>11, <1>12 DEF Tells

LEMMA TaskExitTells ==
  ASSUME TypeOK, NEW t \in Tokens, NEW fits \in BOOLEAN, TaskExit(t, fits), ~failed'
  PROVE  Tells
<1>1. PICK i \in DOMAIN tasks :
        /\ Active /\ Caller(t, i)
        /\ tasks' = [tasks EXCEPT ![i].flags = "EXITED"]
        /\ Emit("TASK_EXIT", i, 0, phase, fits /\ tasks[i].parent \notin {0, i})
        /\ UNCHANGED <<producer, ops, nextToken, commits>>
  BY DEF TaskExit, Refuse
<1>2. i \in Nat /\ phase \in PRE_RELEASE..SEALED /\ ops \in Seq(OpRecord) /\ Len(ops) \in Nat
  BY <1>1, CallerFacts
<1>3. /\ Longer /\ Len(stream') = Len(stream) + 1 /\ Len(stream) \in Nat
      /\ Added = {Len(stream) + 1} /\ stream'[Len(stream) + 1].event = "TASK_EXIT"
      /\ stream'[Len(stream) + 1].task = i /\ stream'[Len(stream) + 1].op = 0
  <2>1. PICK f : f = (fits /\ tasks[i].parent \notin {0, i})  OBVIOUS
  <2>2. f \in BOOLEAN /\ Emit("TASK_EXIT", i, 0, phase, f)  BY <1>1, <2>1
  <2> QED  BY <1>2, <2>2, EmitAdds DEF Events
<1>4. phase' = phase /\ commits' = commits /\ ops' = ops  BY <1>1 DEF producer
<1>5. OpsStep  BY <1>2, <1>3, <1>4 DEF OpsStep
<1>6. TasksStep
  <2>1. tasks \in Seq(TaskRecord) /\ tasks[i] \in TaskRecord /\ Len(tasks) \in Nat  BY DEF TypeOK
  <2>2. PICK e : e = [tasks[i] EXCEPT !.flags = "EXITED"]  OBVIOUS
  <2>3. e \in TaskRecord  BY <2>1, <2>2 DEF TaskRecord
  <2>4. tasks' = [tasks EXCEPT ![i] = e]  BY <1>1, <2>2
  <2>5. /\ tasks' \in Seq(TaskRecord) /\ Len(tasks') = Len(tasks)
        /\ \A k \in DOMAIN tasks \ {i} : tasks'[k] = tasks[k]
    BY <2>1, <2>3, <2>4, ReplaceTask
  <2> QED  BY <1>3, <2>1, <2>5 DEF TasksStep
<1>7. CommitStep  BY <1>3, <1>4 DEF CommitStep
<1> QED  BY <1>3, <1>5, <1>6, <1>7 DEF Tells

\* Every hook of a tracked task tells what it does, or fails the core.
LEMMA EveryHookTells ==
  ASSUME TypeOK, RootFirst, NEW t \in Tokens, Hook(t), ~failed'
  PROVE  EnterBadHook(t) \/ (Active /\ UNCHANGED producer /\ Tells)
<1>1. ~MarkFailure(t)  BY DEF MarkFailure
<1>2. CASE EnterBadHook(t)  BY <1>2
<1>3. CASE ~EnterBadHook(t)
  <2>1. Active /\ UNCHANGED producer  BY <1>1, <1>3, HookKeeps DEF Keeps
  <2>2. CASE ExecReserve(t)  BY <2>1, <2>2, ExecReserveTells
  <2>3. CASE \E o \in Ordinals, file \in Files : FileGateObservation(t, o, file)
    BY <2>1, <2>3, FileGateObservationTells
  <2>4. ASSUME NEW fits \in BOOLEAN,
               \/ TaskAllocAttempt(t, fits) \/ (\E child \in Tokens : TaskCreated(t, child, fits))
               \/ TaskExit(t, fits) \/ ExecAttempt(t, fits) \/ ExecPass(t, fits)
               \/ ExecCommit(t, fits) \/ FileOpenAttempt(t, fits)
        PROVE  Tells
    BY <2>4, TaskAllocAttemptTells, TaskCreatedTells, TaskExitTells, ExecAttemptTells,
       ExecPassTells, ExecCommitTells, FileOpenAttemptTells
  <2>5. ASSUME NEW fits \in BOOLEAN,
               \E o \in Ordinals, error \in BOOLEAN : OperationReturn(t, o, error, fits)
        PROVE  Tells
    BY <2>5, OperationReturnTells
  <2>6. ASSUME NEW fits \in BOOLEAN,
               \E token \in 0..TokenLimit - 1, error \in BOOLEAN : ExecReturn(t, token, error, fits)
        PROVE  Tells
    BY <2>6, ExecReturnTells
  <2>7. ASSUME NEW fits \in BOOLEAN,
               \E o \in Ordinals, deny \in BOOLEAN : FilePolicyDecision(t, o, deny, fits)
        PROVE  Tells
    BY <2>7, FilePolicyDecisionTells
  <2>8. ASSUME NEW fits \in BOOLEAN,
               \E kind \in Decided, deny \in BOOLEAN : PolicyDecision(t, kind, deny, fits)
        PROVE  Tells
    BY <2>8, PolicyDecisionTells
  <2>9. ASSUME NEW fits \in BOOLEAN,
               \E file \in Files \cup {None}, fits2 \in BOOLEAN : FileOpenReturn(t, file, fits, fits2)
        PROVE  Tells
    BY <2>9, FileOpenReturnTells
  <2> QED
    BY <1>1, <1>3, <2>1, <2>2, <2>3, <2>4, <2>5, <2>6, <2>7, <2>8, <2>9 DEF Hook
<1> QED  BY <1>2, <1>3

------------------------------------------------------------------------------
(* The boot thread and the control file. *)

\* Frames about neither a task nor an operation of the runtime.
LEMMA QuietFrame ==
  ASSUME TypeOK,
         NEW event \in {"EXEC_DENIED", "IMA_READY", "USERSPACE_RELEASE", "PHASE_MARKER", "TERMINAL"},
         NEW task \in {0, 1}, NEW op \in {0, 1}, NEW ph \in PRE_RELEASE..SEALED,
         NEW fits \in BOOLEAN, Emit(event, task, op, ph, fits), ~failed'
  PROVE  /\ Longer
         /\ \A m \in Added : /\ stream'[m].event \notin {"TASK_CREATED", "EXEC_COMMIT"}
                             /\ ~(stream'[m].op > 1)
<1>1. event \in Events /\ task \in Nat /\ op \in Nat  BY DEF Events
<1>2. /\ Longer /\ Added = {Len(stream) + 1}
      /\ stream'[Len(stream) + 1].event = event /\ stream'[Len(stream) + 1].op = op
  BY <1>1, EmitAdds
<1> QED  BY <1>2

\* A step that touches no operation, ends no task and adds at most a frame about neither.
LEMMA QuietTells ==
  ASSUME TypeOK, TypeOK', UNCHANGED <<ops, commits>>, tasks = <<>> \/ tasks' = tasks,
         phase' = phase \/ \A j \in DOMAIN ops : ops[j].state = "CLOSED",
         \/ stream' = stream
         \/ \E event \in {"EXEC_DENIED", "IMA_READY", "USERSPACE_RELEASE", "PHASE_MARKER",
                          "TERMINAL"},
               task \in {0, 1}, op \in {0, 1}, ph \in PRE_RELEASE..SEALED, fits \in BOOLEAN :
              Emit(event, task, op, ph, fits) /\ ~failed'
  PROVE  Tells
<1>1. ops \in Seq(OpRecord) /\ Len(ops) \in Nat /\ tasks' \in Seq(TaskRecord)
      /\ tasks \in Seq(TaskRecord) /\ Len(tasks) \in Nat /\ Len(tasks') \in Nat
  BY DEF TypeOK
<1>2. /\ Longer
      /\ \A m \in Added : /\ stream'[m].event \notin {"TASK_CREATED", "EXEC_COMMIT"}
                          /\ ~(stream'[m].op > 1)
  <2>1. CASE stream' = stream
    <3>1. stream \in Seq(Frame) /\ Len(stream) \in Nat /\ Added = {}  BY <2>1 DEF TypeOK, Added
    <3> QED  BY <2>1, <3>1 DEF Longer
  <2>2. CASE stream' # stream
    BY <2>2, QuietFrame
  <2> QED  BY <2>1, <2>2
<1>3. OpsStep  BY <1>1, <1>2 DEF OpsStep
<1>4. TasksStep
  <2>1. CASE tasks' = tasks  BY <1>1, <1>2, <2>1 DEF TasksStep
  <2>2. CASE tasks = <<>>  BY <1>1, <1>2, <2>2 DEF TasksStep
  <2> QED  BY <2>1, <2>2
<1>5. CommitStep  BY <1>2 DEF CommitStep
<1> QED  BY <1>2, <1>3, <1>4, <1>5 DEF Tells

\* What a step owes to the story.
LEMMA ToldKept ==
  ASSUME TypeOK, Told, failed => failed', failed' \/ (Tells /\ EndTold')
  PROVE  Told'
<1> SUFFICES ASSUME ~failed' PROVE OpsTold' /\ TasksTold' /\ CommitsTold' /\ EndTold'
  BY DEF Told
<1>1. Tells /\ EndTold' /\ OpsTold /\ TasksTold /\ CommitsTold  BY DEF Told
<1> QED  BY <1>1, OpsToldKept, TasksToldKept, CommitsToldKept DEF Tells

LEMMA BootTold ==
  ASSUME IInv, IInv', Told, NoneEarly, Boot PROVE Told' /\ NoneEarly'
<1>1. boot # "running"
  BY DEF Boot, RuntimeInit, ImaReady, Canary, PrepareReady, MeasureReady, ReadyMeasured,
     PrepareRelease, MeasureRelease, ReleaseMeasured, Publish, BindRoot, Prepare, Measure, Confirm
<1>2. tasks = <<>> /\ phase = PRE_RELEASE /\ command = "idle" /\ ~sealed /\ ops = <<>>
  BY <1>1, BootIsQuiet DEF NoneEarly
<1>3. TypeOK /\ TypeOK' /\ failed \in BOOLEAN  BY DEF IInv, TypeOK
<1>4. \A j \in DOMAIN ops : ops[j].state = "CLOSED"  BY <1>2
<1> DEFINE Frames ==
             \/ stream' = stream
             \/ \E event \in {"EXEC_DENIED", "IMA_READY", "USERSPACE_RELEASE", "PHASE_MARKER",
                              "TERMINAL"},
                   task \in {0, 1}, op \in {0, 1}, ph \in PRE_RELEASE..SEALED, fits \in BOOLEAN :
                  Emit(event, task, op, ph, fits) /\ ~failed'
           Same == UNCHANGED <<ops, commits, command, sealed>>
<1>5. 0 \in {0, 1} /\ 1 \in {0, 1} /\ PRE_RELEASE \in PRE_RELEASE..SEALED
  BY CapAssumption DEF PRE_RELEASE, SEALED, INIT
<1>6. (failed => failed') /\ Same /\ (failed' \/ Frames)
  <2>1. CASE Panic  BY <2>1 DEF Panic, runtime
  <2>2. CASE RuntimeInit  BY <1>3, <2>2 DEF RuntimeInit
  <2>3. CASE ImaReady  BY <2>1, <2>3 DEF ImaReady, runtime
  <2>4. CASE Canary
    <3>1. CASE Gate("canary") /\ UNCHANGED runtime
      BY <1>5, <3>1 DEF Gate, runtime
    <3> QED  BY <2>1, <2>4, <3>1 DEF Canary, runtime
  <2>5. CASE PrepareReady \/ PrepareRelease
    <3>1. CASE Panic  BY <2>1, <3>1
    <3>2. CASE /\ ~failed /\ UNCHANGED runtime
               /\ \E fits \in BOOLEAN : \/ Emit("IMA_READY", 0, 0, PRE_RELEASE, fits)
                                        \/ Emit("USERSPACE_RELEASE", 1, 0, PRE_RELEASE, fits)
      BY <1>5, <3>2 DEF runtime
    <3> QED  BY <2>5, <3>1, <3>2 DEF PrepareReady, PrepareRelease, Prepare, runtime
  <2>6. CASE MeasureReady \/ MeasureRelease
    BY <2>1, <2>6 DEF MeasureReady, MeasureRelease, Measure, runtime
  <2>7. CASE ReadyMeasured \/ ReleaseMeasured \/ Publish
    BY <2>1, <2>7 DEF ReadyMeasured, ReleaseMeasured, Publish, Confirm, runtime
  <2>8. CASE BindRoot  BY <2>1, <2>8 DEF BindRoot
  <2> QED  BY <2>2, <2>3, <2>4, <2>5, <2>6, <2>7, <2>8 DEF Boot
<1>7. failed' \/ Tells
  <2> SUFFICES ASSUME ~failed' PROVE Tells  OBVIOUS
  <2>1. Frames /\ Same  BY <1>6
  <2> QED  BY <1>2, <1>3, <1>4, <2>1, QuietTells
<1>8. EndTold'  BY <1>2, <1>6 DEF EndTold
<1>9. NoneEarly'  BY <1>2, <1>6 DEF NoneEarly
<1> HIDE DEF Frames, Same
<1> QED  BY <1>3, <1>6, <1>7, <1>8, <1>9, ToldKept

LEMMA ExecTold ==
  ASSUME IInv, IInv', Told, NoneEarly, Exec PROVE Told' /\ NoneEarly'
<1>1. UNCHANGED <<ops, tasks, commits, phase, command, sealed>>  BY DEF Exec, runtime
<1>2. TypeOK /\ TypeOK'  BY DEF IInv
<1>3. NoneEarly'  BY <1>1 DEF NoneEarly
<1>4. PRE_RELEASE \in PRE_RELEASE..SEALED  BY CapAssumption DEF PRE_RELEASE, SEALED, INIT
<1>5. CASE stream' = stream /\ (failed => failed')
  <2>1. Tells  BY <1>1, <1>2, <1>5, QuietTells
  <2>2. ~failed' => EndTold'  BY <1>1, <1>5 DEF Told, EndTold
  <2> QED  BY <1>2, <1>3, <1>5, <2>1, <2>2, ToldKept
<1>6. CASE /\ ~failed /\ stage # "RELEASED"
           /\ \E fits \in BOOLEAN : Emit("EXEC_DENIED", 0, 1, PRE_RELEASE, fits)
  <2>1. failed' \/ Tells  BY <1>1, <1>2, <1>4, <1>6, QuietTells
  <2>2. EndTold'
    <3>1. boot # "running"  BY <1>6 DEF IInv, BootMatchesRecords
    <3> QED  BY <1>1, <3>1, BootIsQuiet DEF EndTold
  <2> QED  BY <1>2, <1>3, <1>6, <2>1, <2>2, ToldKept
<1> QED  BY <1>5, <1>6 DEF Exec, Gate

LEMMA RefuseTold ==
  ASSUME IInv, Told, NoneEarly, Refuse PROVE Told' /\ NoneEarly'
<1>1. failed' = TRUE /\ UNCHANGED <<phase, ops>>  BY DEF Refuse, runtime
<1> QED  BY <1>1 DEF Told, NoneEarly

LEMMA HookTold ==
  ASSUME IInv, Told, NoneEarly, NEW t \in Tokens, Hook(t) PROVE Told' /\ NoneEarly'
<1>1. TypeOK /\ RootFirst /\ INIT # PRE_RELEASE  BY DEF IInv, INIT, PRE_RELEASE
<1>2. CASE EnterBadHook(t)
  <2>1. UNCHANGED <<failed, stream, phase, sealed, command, tasks, ops, commits>>
    BY <1>2 DEF EnterBadHook
  <2> QED
    BY <2>1 DEF Told, NoneEarly, OpsTold, Finished, TasksTold, Exited, CommitsTold, CommitFrames,
                EndTold
<1>3. CASE MarkFailure(t)
  BY <1>3 DEF MarkFailure, Told, NoneEarly
<1>4. CASE Active /\ Keeps
  <2>1. phase' = phase /\ command' = "idle" /\ sealed' = sealed /\ ~sealed /\ ~failed
    BY <1>4 DEF Active, Keeps, producer, Sealing
  <2>2. phase # PRE_RELEASE
    BY <1>4, CapAssumption DEF Active, INIT, PRE_RELEASE
  <2>3. failed' \/ EnterBadHook(t) \/ Tells  BY <1>1, EveryHookTells
  <2>4. EndTold'  BY <2>1 DEF EndTold
  <2> QED  BY <1>1, <1>2, <2>1, <2>2, <2>3, <2>4, ToldKept DEF NoneEarly
<1> QED  BY <1>1, <1>2, <1>3, <1>4, HookKeeps

\* ADVANCE_PHASE and SEAL find every operation closed.
LEMMA QuiescentIsClosed ==
  ASSUME TypeOK, Quiescent PROVE \A j \in DOMAIN ops : ops[j].state = "CLOSED"
<1> SUFFICES ASSUME NEW j \in DOMAIN ops PROVE ops[j].state = "CLOSED"  OBVIOUS
<1>1. ops[j] \in OpRecord  BY DEF TypeOK
<1>2. ops[j].state \in {"OPEN", "COMMITTED", "CLOSED"}  BY <1>1 DEF OpRecord
<1> QED  BY <1>2 DEF Quiescent, OpenStates

LEMMA ControlTold ==
  ASSUME IInv, IInv', Told, NoneEarly, Control PROVE Told' /\ NoneEarly'
<1>1. TypeOK /\ TypeOK' /\ PRE_RELEASE # SEALED
  BY CapAssumption DEF IInv, PRE_RELEASE, SEALED, INIT
<1>2. CASE BadCommand  BY <1>2, RefuseTold DEF BadCommand
<1>3. ASSUME NEW requested \in 0..SEALED, NEW fits \in BOOLEAN, AdvancePhase(requested, fits)
      PROVE  Told' /\ NoneEarly'
  <2>1. ~sealed /\ command = "idle" /\ ~failed  BY <1>3 DEF AdvancePhase, FromRoot, Sealing
  <2>2. CASE Refuse  BY <2>2, RefuseTold
  <2>3. CASE /\ Quiescent /\ Emit("PHASE_MARKER", 1, 0, requested, fits)
             /\ phase' = phase \/ phase' \in INIT + 1..Finalize
             /\ UNCHANGED <<sealed, command, tasks, ops, commits>>
    <3>1. requested \in PRE_RELEASE..SEALED /\ \A n \in INIT + 1..Finalize : n # PRE_RELEASE
      BY DEF PRE_RELEASE, INIT
    <3>2. failed' \/ Tells  BY <1>1, <2>3, <3>1, QuiescentIsClosed, QuietTells
    <3>3. EndTold'  BY <2>1, <2>3 DEF EndTold
    <3>4. NoneEarly'  BY <2>3, <3>1 DEF NoneEarly
    <3> QED  BY <1>1, <2>1, <3>2, <3>3, <3>4, ToldKept
  <2> QED  BY <1>3, <2>2, <2>3 DEF AdvancePhase
<1>4. ASSUME NEW fits \in BOOLEAN, SealBegin(fits) PROVE Told' /\ NoneEarly'
  <2>1. ~sealed /\ command = "idle" /\ ~failed  BY <1>4 DEF SealBegin, FromRoot, Sealing
  <2>2. CASE Refuse  BY <2>2, RefuseTold
  <2>3. CASE /\ Quiescent /\ Emit("TERMINAL", 0, 0, SEALED, fits)
             /\ phase' = phase \/ phase' = SEALED
             /\ UNCHANGED <<sealed, tasks, ops, commits>>
    <3>1. SEALED \in PRE_RELEASE..SEALED  BY CapAssumption DEF PRE_RELEASE, SEALED, INIT
    <3>2. failed' \/ Tells  BY <1>1, <2>3, <3>1, QuiescentIsClosed, QuietTells
    <3>3. failed' \/ EndTold'
      <4> SUFFICES ASSUME ~failed' PROVE EndTold'  OBVIOUS
      <4>1. Len(stream') = Len(stream) + 1 /\ stream'[Len(stream) + 1].event = "TERMINAL"
        BY <1>1, <2>3, <3>1, EmitAdds DEF Events
      <4>2. \A j \in DOMAIN ops' : ops'[j].state = "CLOSED"
        BY <1>1, <2>3, QuiescentIsClosed
      <4> QED  BY <4>1, <4>2 DEF EndTold
    <3>4. NoneEarly'  BY <1>1, <2>3 DEF NoneEarly
    <3> QED  BY <1>1, <2>1, <3>2, <3>3, <3>4, ToldKept
  <2> QED  BY <1>4, <2>2, <2>3 DEF SealBegin
<1>5. CASE SealMeasure \/ SealEnd
  <2>1. /\ UNCHANGED <<stream, phase, tasks, ops, commits>> /\ command # "idle"
        /\ failed => failed'
    BY <1>5 DEF SealMeasure, SealEnd
  <2>2. Tells  BY <1>1, <2>1, QuietTells
  <2>3. failed' \/ EndTold'  BY <2>1 DEF Told, EndTold
  <2>4. NoneEarly'  BY <2>1 DEF NoneEarly
  <2> QED  BY <1>1, <2>1, <2>2, <2>3, <2>4, ToldKept
<1> QED  BY <1>2, <1>3, <1>4, <1>5 DEF Control

LEMMA InitTold ==
  ASSUME Init PROVE Told /\ NoneEarly
<1>1. PICK f : f = [event |-> "CORE_INIT", task |-> 0, op |-> 0, phase |-> PRE_RELEASE]  OBVIOUS
<1>2. stream = <<f>> /\ f.event = "CORE_INIT" /\ f.op = 0  BY <1>1 DEF Init
<1>3. DOMAIN stream = {1} /\ stream[1] = f  BY <1>2
<1>4. OpsTold /\ TasksTold  BY <1>2, <1>3 DEF OpsTold, TasksTold
<1>5. CommitFrames = {}  BY <1>2, <1>3 DEF CommitFrames
<1>6. CommitsTold  BY <1>5, FS_EmptySet DEF CommitsTold, Init
<1> QED  BY <1>4, <1>6 DEF Init, Told, NoneEarly, EndTold

\* What the stream tells while the core is green holds along every run.
THEOREM StoryInvariance == Spec => [](IInv /\ Told /\ NoneEarly)
<1>1. Init => IInv /\ Told /\ NoneEarly  BY InitInv, InitTold
<1>2. IInv /\ Told /\ NoneEarly /\ [Next]_vars => (IInv /\ Told /\ NoneEarly)'
  <2> SUFFICES ASSUME IInv, Told, NoneEarly, [Next]_vars PROVE IInv' /\ Told' /\ NoneEarly'
    OBVIOUS
  <2>1. IInv'  BY NextInv
  <2>2. CASE UntrackedHook  BY <2>1, <2>2, RefuseTold DEF UntrackedHook
  <2>3. CASE UNCHANGED vars
    BY <2>1, <2>3 DEF vars, Told, NoneEarly, OpsTold, Finished, TasksTold, Exited, CommitsTold,
                      CommitFrames, EndTold
  <2> QED  BY <2>1, <2>2, <2>3, BootTold, ExecTold, HookTold, ControlTold DEF Next
<1> QED  BY <1>1, <1>2, PTL DEF Spec

\* The stream of a sealed core is complete: it ends in TERMINAL, every operation it shows
\* is closed by its last frame within one phase, every task it creates exits, and its
\* EXEC_COMMIT frames are the commits that were counted.
THEOREM SealedIsComplete == Spec => []SealedStreamIsComplete
<1>1. IInv /\ Told => SealedStreamIsComplete
  <2> SUFFICES ASSUME IInv, Told, sealed
               PROVE  /\ stream[Len(stream)].event = "TERMINAL"
                      /\ \A m \in DOMAIN stream : stream[m].op > 1 => Finished(m)
                      /\ \A m \in DOMAIN stream : stream[m].event = "TASK_CREATED" => Exited(m)
                      /\ CommitsTold
    BY DEF SealedStreamIsComplete, Finished, Exited, CommitsTold, CommitFrames
  <2>1. OpsTold /\ TasksTold /\ CommitsTold /\ EndTold  BY DEF IInv, SealIsExact, Told
  <2>2. \A i \in DOMAIN tasks : i # 1 => tasks[i].flags # "LIVE"  BY DEF IInv, SealIsQuiet
  <2> QED  BY <2>1, <2>2 DEF OpsTold, TasksTold, EndTold
<1> QED  BY <1>1, StoryInvariance, PTL

-----------------------------------------------------------------------------
(* The appraiser.  What the reducer keeps of a phase stands for the frames   *)
(* of it: while hits is 0 no control was shown, while it is 1 exactly one    *)
(* was, and from 2 on the phase cannot be closed.                            *)

IsOp(x) == /\ x = [kind |-> x.kind, task |-> x.task, parent |-> x.parent, phase |-> x.phase,
                   path |-> x.path, passes |-> x.passes, committed |-> x.committed,
                   denied |-> x.denied, rows |-> x.rows, objects |-> x.objects]
           /\ x.passes \in Nat /\ x.rows \in Nat
IsTask(x) == x = [parent |-> x.parent, live |-> x.live, doomed |-> x.doomed, minted |-> x.minted]

IsRecord(s) ==
  s = [ok |-> s.ok, stage |-> s.stage, phase |-> s.phase, root |-> s.root, tasks |-> s.tasks,
       open |-> s.open, used |-> s.used, hits |-> s.hits, cold |-> s.cold,
       object |-> s.object, jit |-> s.jit, terminal |-> s.terminal]
IsTable(m) == m = [k \in DOMAIN m |-> m[k]]

IsReducer(s) ==
  /\ IsRecord(s)
  /\ IsTable(s.open) /\ \A o \in DOMAIN s.open : IsOp(s.open[o])
  /\ IsTable(s.tasks) /\ \A t \in DOMAIN s.tasks : IsTask(s.tasks[t])
  /\ s.stage \in Nat /\ s.phase \in Nat /\ s.hits \in Nat /\ s.jit \in 0 .. 3
  /\ DOMAIN s.open \subseteq s.used
  /\ s.cold \subseteq DOMAIN s.tasks

\* What no handler of the interval changes.
Stays(s, t) ==
  /\ t.ok = s.ok /\ t.stage = s.stage /\ t.phase = s.phase /\ t.root = s.root
  /\ t.terminal = s.terminal /\ s.used \subseteq t.used
\* And what most of them leave alone.
Counts(s, t) == t.hits = s.hits /\ t.jit = s.jit /\ t.cold = s.cold

\* An operation is opened, with x for it; or an open one becomes x; or it is closed.
Opens(s, t, o, x) ==
  /\ t.open = [p \in DOMAIN s.open \cup {o} |-> IF p = o THEN x ELSE s.open[p]]
  /\ t.used = s.used \cup {o}
Becomes(s, t, o, x) ==
  /\ o \in DOMAIN s.open /\ t.used = s.used
  /\ t.open = [p \in DOMAIN s.open |-> IF p = o THEN x ELSE s.open[p]]
Closes(s, t, o) ==
  /\ o \in DOMAIN s.open /\ t.used = s.used
  /\ t.open = [p \in DOMAIN s.open \ {o} |-> s.open[p]]

\* A step that changes the operations, and the object remembered, at most.
Quiet(s, t) == IsReducer(t) /\ Stays(s, t) /\ Counts(s, t) /\ t.tasks = s.tasks

\* Minting opens an operation and changes nothing else.
LEMMA MintFacts ==
  ASSUME NEW s, NEW f, NEW kind, IsReducer(s), f.op \notin s.used, NEW t, t = P!Mint(s, f, kind)
  PROVE  Quiet(s, t) /\ t.object = s.object /\ Opens(s, t, f.op, P!NewOp(f, kind))
<1>1. t = [s EXCEPT !.used = s.used \cup {f.op}, !.open = P!Put(s.open, f.op, P!NewOp(f, kind))]
  BY DEF P!Mint
<1>2. IsRecord(s)
  BY DEF IsReducer
<1>3. /\ IsRecord(t) /\ t.ok = s.ok /\ t.stage = s.stage /\ t.phase = s.phase /\ t.root = s.root
      /\ t.tasks = s.tasks /\ t.hits = s.hits /\ t.cold = s.cold /\ t.object = s.object
      /\ t.jit = s.jit /\ t.terminal = s.terminal
      /\ t.used = s.used \cup {f.op} /\ t.open = P!Put(s.open, f.op, P!NewOp(f, kind))
  BY <1>1, <1>2 DEF IsRecord
<1>4. Opens(s, t, f.op, P!NewOp(f, kind))
  BY <1>3 DEF Opens, P!Put
<1>5. IsOp(P!NewOp(f, kind))
  BY DEF IsOp, P!NewOp
<1>6. IsReducer(t)
  BY <1>3, <1>4, <1>5 DEF IsReducer, Opens, IsTable
<1> QED BY <1>3, <1>4, <1>6 DEF Stays, Counts, Quiet

(* An open operation x becomes y, and nothing else changes.                  *)
LEMMA EditFacts ==
  ASSUME NEW s, NEW o, NEW y, IsReducer(s), o \in DOMAIN s.open, IsOp(y), NEW t,
         t = [s EXCEPT !.open = [s.open EXCEPT ![o] = y]]
  PROVE  Quiet(s, t) /\ t.object = s.object /\ Becomes(s, t, o, y)
<1>2. IsRecord(s) /\ IsTable(s.open)
  BY DEF IsReducer
<1>3. /\ IsRecord(t) /\ t.ok = s.ok /\ t.stage = s.stage /\ t.phase = s.phase /\ t.root = s.root
      /\ t.tasks = s.tasks /\ t.hits = s.hits /\ t.cold = s.cold /\ t.object = s.object
      /\ t.jit = s.jit /\ t.terminal = s.terminal
      /\ t.used = s.used /\ t.open = [s.open EXCEPT ![o] = y]
  BY <1>2 DEF IsRecord
<1>4. Becomes(s, t, o, y)
  BY <1>2, <1>3 DEF Becomes, IsTable
<1>6. IsReducer(t)
  BY <1>3, <1>4 DEF IsReducer, Becomes, IsTable
<1> QED BY <1>3, <1>4, <1>6 DEF Stays, Counts, Quiet

RowOf(x, f) == [x EXCEPT !.rows = x.rows + 1, !.denied = f.deny, !.objects = x.objects \cup {f.object}]

\* A policy row counts, and keeps its decision and its object.
LEMMA RowIsOp ==
  ASSUME NEW x, NEW f, IsOp(x), NEW y, y = RowOf(x, f)
  PROVE  /\ IsOp(y) /\ y.kind = x.kind /\ y.path = x.path /\ y.rows = x.rows + 1
         /\ y.denied = f.deny /\ y.objects = x.objects \cup {f.object}
         /\ y.passes = x.passes
<1>1. x = [kind |-> x.kind, task |-> x.task, parent |-> x.parent, phase |-> x.phase,
           path |-> x.path, passes |-> x.passes, committed |-> x.committed,
           denied |-> x.denied, rows |-> x.rows, objects |-> x.objects]
  BY DEF IsOp
<1>2. y = [kind |-> x.kind, task |-> x.task, parent |-> x.parent, phase |-> x.phase,
           path |-> x.path, passes |-> x.passes, committed |-> x.committed,
           denied |-> f.deny, rows |-> x.rows + 1, objects |-> x.objects \cup {f.object}]
  BY <1>1 DEF RowOf
<1>3. x.passes \in Nat /\ x.rows \in Nat
  BY DEF IsOp
<1> QED BY <1>2, <1>3 DEF IsOp

\* A policy row changes its operation only.
LEMMA RowFacts ==
  ASSUME NEW s, NEW f, IsReducer(s), f.op \in DOMAIN s.open, NEW t, t = P!Row(s, f)
  PROVE  /\ Quiet(s, t) /\ t.object = s.object /\ Becomes(s, t, f.op, RowOf(s.open[f.op], f))
<1> DEFINE x == s.open[f.op]
<1>1. IsOp(x) /\ IsRecord(s) /\ IsTable(s.open)
  BY DEF IsReducer
<1>2. IsOp(RowOf(x, f))
  BY <1>1, RowIsOp
<1>3. t = [s EXCEPT !.open = [s.open EXCEPT ![f.op] = RowOf(x, f)]]
  BY <1>1 DEF P!Row, RowOf, IsRecord
<1> QED BY <1>2, <1>3, EditFacts

\* Opening an operation and editing it opens the edited one.
LEMMA OpensThenBecomes ==
  ASSUME NEW s, NEW m, NEW t, NEW o, NEW x, NEW y, IsReducer(s),
         Opens(s, m, o, x), Becomes(m, t, o, y)
  PROVE  Opens(s, t, o, y)
BY DEF Opens, Becomes

\* TASK_CREATED adds the task and closes its allocation.
LEMMA CreatedFacts ==
  ASSUME NEW s, NEW f, IsReducer(s), P!CreatedOk(s, f), NEW t, t = P!Created(s, f)
  PROVE  /\ IsReducer(t) /\ Stays(s, t) /\ Counts(s, t) /\ t.object = s.object
         /\ f.task \notin DOMAIN s.tasks /\ DOMAIN t.tasks = DOMAIN s.tasks \cup {f.task}
         /\ \A u \in DOMAIN s.tasks : t.tasks[u] = s.tasks[u]
         /\ Closes(s, t, f.op)
<1> DEFINE x == [parent |-> f.parent, live |-> TRUE, doomed |-> FALSE, minted |-> f.phase]
           m == [s EXCEPT !.tasks = P!Put(s.tasks, f.task, x)]
<1>1. f.op \in DOMAIN s.open /\ f.task \notin DOMAIN s.tasks
  BY DEF P!CreatedOk, P!Mine
<1>2. IsRecord(s)
  BY DEF IsReducer
<1>3. t = [m EXCEPT !.open = P!Drop(m.open, f.op)]
  BY DEF P!Created, P!Close
<1>4. IsRecord(m) /\ m.open = s.open
  BY <1>2 DEF IsRecord
<1>4a. /\ m.ok = s.ok /\ m.stage = s.stage /\ m.phase = s.phase /\ m.root = s.root
       /\ m.hits = s.hits /\ m.cold = s.cold /\ m.object = s.object
       /\ m.jit = s.jit /\ m.terminal = s.terminal /\ m.used = s.used
       /\ m.tasks = P!Put(s.tasks, f.task, x)
  BY <1>2 DEF IsRecord
<1> HIDE DEF m, x
<1>5. /\ IsRecord(t) /\ t.ok = s.ok /\ t.stage = s.stage /\ t.phase = s.phase /\ t.root = s.root
      /\ t.hits = s.hits /\ t.cold = s.cold /\ t.object = s.object
      /\ t.jit = s.jit /\ t.terminal = s.terminal /\ t.used = s.used
      /\ t.tasks = P!Put(s.tasks, f.task, x) /\ t.open = P!Drop(s.open, f.op)
  BY <1>3, <1>4, <1>4a DEF IsRecord
<1>6. Closes(s, t, f.op)
  BY <1>1, <1>5 DEF Closes, P!Drop
<1>7. IsTask(x)
  BY DEF IsTask, x
<1>8. /\ DOMAIN t.tasks = DOMAIN s.tasks \cup {f.task} /\ t.tasks[f.task] = x
      /\ \A u \in DOMAIN s.tasks : t.tasks[u] = s.tasks[u]
      /\ IsTable(t.tasks)
  BY <1>1, <1>5 DEF P!Put, IsTable
<1>9. IsReducer(t)
  BY <1>5, <1>6, <1>7, <1>8 DEF IsReducer, Closes, IsTable
<1> QED BY <1>1, <1>5, <1>6, <1>8, <1>9 DEF Stays, Counts

\* EXEC_ATTEMPT opens an exec with one pass, or adds a pass to it.
LEMMA AttemptFacts ==
  ASSUME NEW s, NEW f, IsReducer(s), P!AttemptOk(s, f), NEW t, t = P!Attempt(s, f)
  PROVE  /\ Quiet(s, t) /\ t.object = s.object
         /\ f.op \in DOMAIN s.open =>
              /\ s.open[f.op].kind = "exec" /\ s.open[f.op].path = f.path
              /\ Becomes(s, t, f.op, [s.open[f.op] EXCEPT !.passes = s.open[f.op].passes + 1])
         /\ f.op \notin DOMAIN s.open =>
              f.op \notin s.used /\ Opens(s, t, f.op, [P!NewOp(f, "exec") EXCEPT !.passes = 1])
<1>1. ASSUME NEW m, IsReducer(m), f.op \in DOMAIN m.open, t = [m EXCEPT !.open[f.op].passes = @ + 1]
      PROVE  /\ Quiet(m, t) /\ t.object = m.object
             /\ Becomes(m, t, f.op, [m.open[f.op] EXCEPT !.passes = m.open[f.op].passes + 1])
  <2> DEFINE y == [m.open[f.op] EXCEPT !.passes = m.open[f.op].passes + 1]
  <2>1. IsOp(m.open[f.op]) /\ IsRecord(m) /\ IsTable(m.open)
    BY <1>1 DEF IsReducer
  <2>2. IsOp(y)
    BY <2>1 DEF IsOp
  <2>3. t = [m EXCEPT !.open = [m.open EXCEPT ![f.op] = y]]
    BY <1>1, <2>1 DEF IsRecord
  <2> QED BY <1>1, <2>2, <2>3, EditFacts
<1>2. CASE f.op \in DOMAIN s.open
  <2>1. t = [s EXCEPT !.open[f.op].passes = @ + 1]
    BY <1>2 DEF P!Attempt
  <2>2. s.open[f.op].kind = "exec" /\ s.open[f.op].path = f.path
    BY <1>2 DEF P!AttemptOk, P!Mine
  <2> QED BY <1>1, <1>2, <2>1, <2>2
<1>3. CASE f.op \notin DOMAIN s.open
  <2> DEFINE m == P!Mint(s, f, "exec")
  <2>1. t = [m EXCEPT !.open[f.op].passes = @ + 1]
    BY <1>3 DEF P!Attempt
  <2>2. f.op \notin s.used
    BY <1>3 DEF P!AttemptOk, P!CanMint
  <2>3. Quiet(s, m) /\ m.object = s.object /\ Opens(s, m, f.op, P!NewOp(f, "exec"))
    BY <2>2, MintFacts
  <2> HIDE DEF m
  <2>4. f.op \in DOMAIN m.open /\ m.open[f.op] = P!NewOp(f, "exec")
    BY <2>3 DEF Opens
  <2>5. /\ Quiet(m, t) /\ t.object = m.object
        /\ Becomes(m, t, f.op, [m.open[f.op] EXCEPT !.passes = m.open[f.op].passes + 1])
    BY <1>1, <2>1, <2>3, <2>4 DEF Quiet
  <2>6. P!NewOp(f, "exec").passes = 0
    BY DEF P!NewOp
  <2>7. Becomes(m, t, f.op, [P!NewOp(f, "exec") EXCEPT !.passes = 1])
    BY <2>4, <2>5, <2>6
  <2>8. Opens(s, t, f.op, [P!NewOp(f, "exec") EXCEPT !.passes = 1])
    BY <2>3, <2>7, OpensThenBecomes
  <2>9. Quiet(s, t)
    BY <2>3, <2>5 DEF Quiet, Stays, Counts
  <2> QED BY <1>3, <2>2, <2>3, <2>5, <2>8, <2>9
<1> QED BY <1>2, <1>3

\* A commit marks its operation only.
LEMMA CommittedIsOp ==
  ASSUME NEW x, IsOp(x), NEW y, y = [x EXCEPT !.committed = TRUE]
  PROVE  IsOp(y) /\ y.kind = x.kind /\ y.path = x.path
<1>1. x = [kind |-> x.kind, task |-> x.task, parent |-> x.parent, phase |-> x.phase,
           path |-> x.path, passes |-> x.passes, committed |-> x.committed,
           denied |-> x.denied, rows |-> x.rows, objects |-> x.objects]
  BY DEF IsOp
<1>2. y = [kind |-> x.kind, task |-> x.task, parent |-> x.parent, phase |-> x.phase,
           path |-> x.path, passes |-> x.passes, committed |-> TRUE,
           denied |-> x.denied, rows |-> x.rows, objects |-> x.objects]
  BY <1>1
<1>3. x.passes \in Nat /\ x.rows \in Nat
  BY DEF IsOp
<1> QED BY <1>2, <1>3 DEF IsOp

\* Marking a task dead or doomed changes that mark only.
LEMMA TaskFacts ==
  ASSUME NEW x, IsTask(x), NEW b
  PROVE  /\ IsTask([x EXCEPT !.live = b]) /\ [x EXCEPT !.live = b].live = b
         /\ IsTask([x EXCEPT !.doomed = b]) /\ [x EXCEPT !.doomed = b].live = x.live
<1>1. x = [parent |-> x.parent, live |-> x.live, doomed |-> x.doomed, minted |-> x.minted]
  BY DEF IsTask
<1>2. [x EXCEPT !.live = b] =
        [parent |-> x.parent, live |-> b, doomed |-> x.doomed, minted |-> x.minted]
  BY <1>1
<1>3. [x EXCEPT !.doomed = b] =
        [parent |-> x.parent, live |-> x.live, doomed |-> b, minted |-> x.minted]
  BY <1>1
<1> QED BY <1>2, <1>3 DEF IsTask

\* EXEC_COMMIT changes an open exec, neither its kind nor its path.
LEMMA CommitFacts ==
  ASSUME NEW s, NEW f, IsReducer(s), P!CommitOk(s, f), NEW t, t = P!Commit(s, f)
  PROVE  /\ Quiet(s, t) /\ t.object = s.object /\ s.open[f.op].kind = "exec"
         /\ \E y : Becomes(s, t, f.op, y) /\ y.kind = "exec" /\ y.path = s.open[f.op].path
<1> DEFINE x == s.open[f.op]
           y == [x EXCEPT !.committed = TRUE]
<1>1. IsOp(x) /\ IsRecord(s) /\ IsTable(s.open) /\ f.op \in DOMAIN s.open /\ x.kind = "exec"
  BY DEF IsReducer, P!CommitOk, P!Mine
<1>2. t = [s EXCEPT !.open = [s.open EXCEPT ![f.op] = y]]
  BY <1>1 DEF P!Commit, IsRecord
<1> HIDE DEF x
<1>3. IsOp(y) /\ y.kind = "exec" /\ y.path = x.path
  BY <1>1, CommittedIsOp
<1> HIDE DEF y
<1>4. Quiet(s, t) /\ t.object = s.object /\ Becomes(s, t, f.op, y)
  BY <1>1, <1>2, <1>3, EditFacts
<1> QED BY <1>1, <1>3, <1>4 DEF x

\* FILE_POLICY adds the one row of a file, and in the jit phase remembers the object.
LEMMA FilePolicyFacts ==
  ASSUME NEW s, NEW f, IsReducer(s), P!FilePolicyOk(s, f), NEW t, t = P!FilePolicy(s, f)
  PROVE  /\ Quiet(s, t) /\ s.open[f.op].kind = "file_open"
         /\ Becomes(s, t, f.op, RowOf(s.open[f.op], f))
         /\ s.open[f.op].rows = 0
         /\ t.object = IF s.phase = Jit /\ s.open[f.op].path = "plan" THEN f.object ELSE s.object
<1> DEFINE m == P!Row(s, f)
<1>1. f.op \in DOMAIN s.open /\ s.open[f.op].kind = "file_open" /\ s.open[f.op].rows = 0
  BY DEF P!FilePolicyOk, P!Mine
<1>2. Quiet(s, m) /\ m.object = s.object /\ Becomes(s, m, f.op, RowOf(s.open[f.op], f))
  BY <1>1, RowFacts
<1> HIDE DEF m
<1>3. CASE s.phase = Jit /\ s.open[f.op].path = "plan"
  <2>1. t = [m EXCEPT !.object = f.object]
    BY <1>3 DEF P!FilePolicy, m
  <2>2. IsRecord(m)
    BY <1>2 DEF Quiet, IsReducer
  <2>3. /\ IsRecord(t) /\ t.ok = m.ok /\ t.stage = m.stage /\ t.phase = m.phase /\ t.root = m.root
        /\ t.tasks = m.tasks /\ t.open = m.open /\ t.used = m.used /\ t.hits = m.hits
        /\ t.cold = m.cold /\ t.jit = m.jit /\ t.terminal = m.terminal /\ t.object = f.object
    BY <2>1, <2>2 DEF IsRecord
  <2>4. IsReducer(t)
    BY <1>2, <2>3 DEF IsReducer, Quiet
  <2>5. Becomes(s, t, f.op, RowOf(s.open[f.op], f))
    BY <1>2, <2>3 DEF Becomes
  <2>6. Quiet(s, t)
    BY <1>2, <2>3, <2>4 DEF Quiet, Stays, Counts
  <2> QED BY <1>1, <1>3, <2>3, <2>5, <2>6
<1>4. CASE ~(s.phase = Jit /\ s.open[f.op].path = "plan")
  <2>1. t = m
    BY <1>4 DEF P!FilePolicy, m
  <2> QED BY <1>1, <1>2, <1>4, <2>1
<1> QED BY <1>3, <1>4

\* A policy that opens its operation gives it one row.
LEMMA MintRowFacts ==
  ASSUME NEW s, NEW f, NEW kind, IsReducer(s), f.op \notin s.used, NEW t,
         t = P!Row(P!Mint(s, f, kind), f)
  PROVE  /\ Quiet(s, t) /\ t.object = s.object
         /\ Opens(s, t, f.op, RowOf(P!NewOp(f, kind), f))
<1> DEFINE m == P!Mint(s, f, kind)
<1>1. Quiet(s, m) /\ m.object = s.object /\ Opens(s, m, f.op, P!NewOp(f, kind))
  BY MintFacts
<1>2. t = P!Row(m, f)
  OBVIOUS
<1> HIDE DEF m
<1>3. f.op \in DOMAIN m.open /\ m.open[f.op] = P!NewOp(f, kind)
  BY <1>1 DEF Opens
<1>4. Quiet(m, t) /\ t.object = m.object /\ Becomes(m, t, f.op, RowOf(P!NewOp(f, kind), f))
  BY <1>1, <1>2, <1>3, RowFacts DEF Quiet
<1>5. Opens(s, t, f.op, RowOf(P!NewOp(f, kind), f))
  BY <1>1, <1>4, OpensThenBecomes
<1>6. Quiet(s, t)
  BY <1>1, <1>4 DEF Quiet, Stays, Counts
<1> QED BY <1>1, <1>4, <1>5, <1>6

\* MAPPING_POLICY opens a mapping, or adds a row to an mprotect none denied yet.
LEMMA MappingPolicyFacts ==
  ASSUME NEW s, NEW f, IsReducer(s), P!MappingPolicyOk(s, f), NEW t, t = P!MappingPolicy(s, f)
  PROVE  /\ Quiet(s, t) /\ t.object = s.object
         /\ f.op \in DOMAIN s.open =>
              /\ s.open[f.op].kind = "mprotect" /\ ~s.open[f.op].denied
              /\ Becomes(s, t, f.op, RowOf(s.open[f.op], f))
         /\ f.op \notin DOMAIN s.open =>
              f.op \notin s.used /\ Opens(s, t, f.op, RowOf(P!NewOp(f, f.kind), f))
<1>1. CASE f.op \in DOMAIN s.open
  <2>1. s.open[f.op].kind = "mprotect" /\ ~s.open[f.op].denied /\ t = P!Row(s, f)
    BY <1>1 DEF P!MappingPolicyOk, P!MappingPolicy, P!Mine
  <2> QED BY <1>1, <2>1, RowFacts
<1>2. CASE f.op \notin DOMAIN s.open
  <2>1. f.op \notin s.used /\ t = P!Row(P!Mint(s, f, f.kind), f)
    BY <1>2 DEF P!MappingPolicyOk, P!MappingPolicy, P!CanMint
  <2> QED BY <1>2, <2>1, MintRowFacts
<1> QED BY <1>1, <1>2

\* TASK_EXIT ends a child, and counts if it had started cold.
LEMMA ExitFacts ==
  ASSUME NEW s, NEW f, IsReducer(s), P!ExitOk(s, f), NEW t, t = P!Exit(s, f)
  PROVE  /\ IsReducer(t) /\ Stays(s, t) /\ t.object = s.object /\ t.jit = s.jit /\ t.cold = s.cold
         /\ t.open = s.open /\ t.used = s.used
         /\ DOMAIN t.tasks = DOMAIN s.tasks
         /\ \A u \in DOMAIN s.tasks : u # f.task => t.tasks[u].live = s.tasks[u].live
         /\ f.task # s.root /\ f.task \in DOMAIN s.tasks
         /\ s.tasks[f.task].live /\ ~t.tasks[f.task].live
         /\ f.task \in s.cold => t.hits = s.hits + 1 /\ s.phase = Cold /\ f.success
         /\ f.task \notin s.cold => t.hits = s.hits
<1> DEFINE h == s.hits + (IF f.task \in s.cold THEN 1 ELSE 0)
           x == [s.tasks[f.task] EXCEPT !.live = FALSE]
           w == [s.tasks EXCEPT ![f.task] = x]
<1>1. /\ f.task \in DOMAIN s.tasks /\ s.tasks[f.task].live /\ f.task # s.root
      /\ f.task \in s.cold => s.phase = Cold /\ f.success
  BY DEF P!ExitOk
<1>2. IsRecord(s) /\ IsTable(s.tasks) /\ s.hits \in Nat /\ IsTask(s.tasks[f.task])
  BY <1>1 DEF IsReducer
<1>3. t = [s EXCEPT !.tasks = w, !.hits = h]
  BY <1>2 DEF P!Exit, IsRecord
<1>4. IsTask(x) /\ ~x.live
  <2>1. IsTask(x) /\ x.live = FALSE
    BY <1>2, TaskFacts
  <2> QED BY <2>1
<1>5. IsTable(w) /\ DOMAIN w = DOMAIN s.tasks /\ \A u \in DOMAIN s.tasks : w[u] = IF u = f.task THEN x ELSE s.tasks[u]
  BY <1>1, <1>2 DEF IsTable
<1>6. h \in Nat /\ (f.task \in s.cold => h = s.hits + 1) /\ (f.task \notin s.cold => h = s.hits)
  BY <1>2
<1> HIDE DEF h, x, w
<1>7. /\ IsRecord(t) /\ t.ok = s.ok /\ t.stage = s.stage /\ t.phase = s.phase /\ t.root = s.root
      /\ t.hits = h /\ t.cold = s.cold /\ t.object = s.object
      /\ t.jit = s.jit /\ t.terminal = s.terminal /\ t.used = s.used
      /\ t.tasks = w /\ t.open = s.open
  BY <1>2, <1>3 DEF IsRecord
<1>8. IsReducer(t)
  BY <1>4, <1>5, <1>6, <1>7 DEF IsReducer
<1> QED BY <1>1, <1>4, <1>5, <1>6, <1>7, <1>8 DEF Stays

\* The return of a cold start.
Starts(s, f) == f.kind = "exec" /\ s.phase = Cold /\ s.open[f.op].path = "plan" /\ f.success

\* OPERATION_RETURN closes its operation, counts what it completes, and ends no task.
LEMMA ReturnFacts ==
  ASSUME NEW s, NEW f, IsReducer(s), P!ReturnOk(s, f), NEW t, t = P!Return(s, f)
  PROVE  /\ IsReducer(t) /\ Stays(s, t) /\ t.object = s.object
         /\ Closes(s, t, f.op) /\ s.open[f.op].kind = f.kind
         /\ f.task \in DOMAIN s.tasks /\ s.tasks[f.task].live
         /\ DOMAIN t.tasks = DOMAIN s.tasks
         /\ \A u \in DOMAIN s.tasks : t.tasks[u].live = s.tasks[u].live
         /\ P!Completes(s, f) => t.hits = s.hits + 1
         /\ ~P!Completes(s, f) => t.hits = s.hits
         /\ t.jit = P!JitStage(s, f)
         /\ Starts(s, f) => t.cold = s.cold \cup {f.task}
         /\ ~Starts(s, f) => t.cold = s.cold
<1> DEFINE h == s.hits + (IF P!Completes(s, f) THEN 1 ELSE 0)
           d == s.tasks[f.task].doomed \/ (f.kind = "exec" /\ ~f.success /\ s.open[f.op].committed)
           x == [s.tasks[f.task] EXCEPT !.doomed = d]
           w == [s.tasks EXCEPT ![f.task] = x]
           c == IF f.kind = "exec" /\ s.phase = Cold /\ s.open[f.op].path = "plan" /\ f.success
                THEN s.cold \cup {f.task} ELSE s.cold
           m == P!Close(s, f.op)
<1>1. /\ f.task \in DOMAIN s.tasks /\ s.tasks[f.task].live
      /\ f.op \in DOMAIN s.open /\ s.open[f.op].kind = f.kind
  BY DEF P!ReturnOk, P!IsLive, P!Mine
<1>2. IsRecord(s) /\ IsTable(s.tasks) /\ s.hits \in Nat /\ IsTask(s.tasks[f.task])
  BY <1>1 DEF IsReducer
<1>3. /\ m.ok = s.ok /\ m.stage = s.stage /\ m.phase = s.phase /\ m.root = s.root
      /\ m.hits = s.hits /\ m.cold = s.cold /\ m.object = s.object
      /\ m.jit = s.jit /\ m.terminal = s.terminal /\ m.used = s.used
      /\ m.tasks = s.tasks /\ m.open = P!Drop(s.open, f.op) /\ IsRecord(m)
  BY <1>2 DEF IsRecord, P!Close
<1>4. t = [m EXCEPT !.hits = m.hits + (IF P!Completes(s, f) THEN 1 ELSE 0), !.jit = P!JitStage(s, f),
                    !.cold = IF f.kind = "exec" /\ s.phase = Cold /\ s.open[f.op].path = "plan" /\ f.success
                             THEN m.cold \cup {f.task} ELSE m.cold,
                    !.tasks[f.task].doomed = m.tasks[f.task].doomed
                         \/ (f.kind = "exec" /\ ~f.success /\ s.open[f.op].committed)]
  BY DEF P!Return
<1>5. t = [m EXCEPT !.hits = h, !.jit = P!JitStage(s, f), !.cold = c, !.tasks = w]
  <2> HIDE DEF m
  <2> QED BY <1>3, <1>4 DEF IsRecord
<1>6. IsTask(x) /\ x.live = s.tasks[f.task].live
  BY <1>2, TaskFacts
<1>7. IsTable(w) /\ DOMAIN w = DOMAIN s.tasks /\ \A u \in DOMAIN s.tasks : w[u] = IF u = f.task THEN x ELSE s.tasks[u]
  BY <1>1, <1>2 DEF IsTable
<1>8. h \in Nat /\ (P!Completes(s, f) => h = s.hits + 1) /\ (~P!Completes(s, f) => h = s.hits)
  BY <1>2
<1>9. P!JitStage(s, f) \in 0 .. 3
  BY DEF P!JitStage, IsReducer
<1>10. c \subseteq DOMAIN s.tasks
       /\ (Starts(s, f) => c = s.cold \cup {f.task}) /\ (~Starts(s, f) => c = s.cold)
  BY <1>1 DEF IsReducer, Starts
<1> HIDE DEF h, x, w, c, m, d
<1>11. /\ IsRecord(t) /\ t.ok = s.ok /\ t.stage = s.stage /\ t.phase = s.phase /\ t.root = s.root
       /\ t.hits = h /\ t.cold = c /\ t.object = s.object
       /\ t.jit = P!JitStage(s, f) /\ t.terminal = s.terminal /\ t.used = s.used
       /\ t.tasks = w /\ t.open = P!Drop(s.open, f.op)
  <2>1. IsRecord(m)
    BY <1>3
  <2>2. PICK g : g = P!JitStage(s, f)
    OBVIOUS
  <2>3. t = [m EXCEPT !.hits = h, !.jit = g, !.cold = c, !.tasks = w]
    BY ONLY <1>5, <2>2
  <2>4. /\ IsRecord(t) /\ t.ok = m.ok /\ t.stage = m.stage /\ t.phase = m.phase /\ t.root = m.root
        /\ t.hits = h /\ t.cold = c /\ t.object = m.object
        /\ t.jit = g /\ t.terminal = m.terminal /\ t.used = m.used
        /\ t.tasks = w /\ t.open = m.open
    BY ONLY <2>1, <2>3 DEF IsRecord
  <2> QED BY <1>3, <2>2, <2>4
<1>12. Closes(s, t, f.op)
  BY <1>1, <1>11 DEF Closes, P!Drop
<1>13. IsReducer(t)
  BY <1>6, <1>7, <1>8, <1>9, <1>10, <1>11, <1>12 DEF IsReducer, Closes, IsTable
<1>14. \A u \in DOMAIN s.tasks : t.tasks[u].live = s.tasks[u].live
  BY <1>6, <1>7, <1>11
<1> QED BY <1>1, <1>7, <1>8, <1>11, <1>12, <1>10, <1>13, <1>14 DEF Stays

-----------------------------------------------------------------------------
(* What the reducer keeps, and the frames it stands for.                     *)

IsLog(l) == \E S : l \in Seq(S)
Attempting == {"EXEC_ATTEMPT", "FILE_OPEN_ATTEMPT"}

\* An attempt on the plan's path opened o.
Attempted(l, o) == \E j \in 1 .. Len(l) : l[j].event \in Attempting /\ l[j].op = o /\ l[j].path = "plan"

\* The kind of operation whose attempts a phase logs.
Telling(n, kind) == (n = Cold /\ kind = "exec") \/ (n \in {Model, Jit} /\ kind = "file_open")

LogInv(s, l) ==
  /\ IsLog(l)
  /\ \A i \in 1 .. Len(l) : l[i].event # "TASK_EXIT" => l[i].op \in s.used
  /\ s.phase # Cold => \A i \in 1 .. Len(l) : l[i].event # "TASK_EXIT"
  /\ \A o \in DOMAIN s.open : Telling(s.phase, s.open[o].kind) =>
        (s.open[o].path = "plan" <=> Attempted(l, o))

\* Before a phase nothing of it has happened.
NotYet(s) ==
  /\ s.phase < Cold => s.cold = {}
  /\ s.phase < Jit => s.jit = 0 /\ s.object = None
  /\ s.stage < 4 => s.phase = 0 /\ DOMAIN s.open = {} /\ s.hits = 0

\* A refused operation: nothing yet, one attempt that waits for its return, or attempts
\* that can no longer come to one return with nothing open.
Planned(l, event) == l[1].event = event /\ l[1].path = "plan" /\ (event = "NETWORK_POLICY" => l[1].deny)
Waiting(s, l, event) == Len(l) = 1 /\ DOMAIN s.open = {l[1].op} /\ Planned(l, event)
Stuck(s) ==
  \/ \E o, p \in DOMAIN s.open : o # p
  \/ s.phase \in Denied /\ \E o \in DOMAIN s.open : s.open[o].passes # 1
RefusalInv(s, l, event, kind) ==
  /\ \A o \in DOMAIN s.open :
       /\ s.open[o].kind = kind
       /\ kind = "file_open" => s.open[o].rows = 0
       /\ kind = "exec" => s.open[o].passes >= 1
  /\ s.hits = 0 => (l = <<>> /\ DOMAIN s.open = {}) \/ Waiting(s, l, event) \/ Stuck(s)
  /\ s.hits = 1 /\ DOMAIN s.open = {} => P!Refused(l, event) /\ Planned(l, event)

\* The cold start: who did it and lives still, or has left.
Children(s) == s.cold \ {s.root}
Left(l, u, i) ==
  \E j \in i + 1 .. Len(l) : l[j].event = "TASK_EXIT" /\ l[j].task = u /\ l[j].success
ColdInv(s, l) ==
  /\ \A i \in P!Succeeded(l, "exec") : l[i].task \in s.cold
  /\ \A u \in s.cold : \E i \in P!Succeeded(l, "exec") :
       /\ l[i].task = u
       /\ \A k \in P!Succeeded(l, "exec") : l[k].task = u => k = i
       /\ u # s.root /\ ~s.tasks[u].live => Left(l, u, i)
  /\ s.hits = 0 => \A u \in Children(s) : s.tasks[u].live
  /\ s.hits = 1 => \E v \in Children(s) : \A u \in Children(s) : u # v => s.tasks[u].live

\* A file opened once at most, as far as the phase can still be closed.
OpenedInv(s, l) ==
  /\ s.hits = 0 => P!Succeeded(l, "file_open") = {}
  /\ s.hits = 1 => \E i \in 1 .. Len(l) : P!Succeeded(l, "file_open") = {i}

\* The jit object: where it was looked up, what is about to map it, and how far it has got.
Mapping == {"mmap", "mprotect"}
LookedUp(l, x) ==
  \E d \in 1 .. Len(l) : l[d].event = "FILE_POLICY" /\ P!OfThePlan(l, d) /\ l[d].object = x
RowsTold(l, o, x) ==
  \A j \in 1 .. Len(l) : l[j].op = o => l[j].object \in x.objects /\ (l[j].deny => x.denied)
JitObject(s, l) == s.object # None => LookedUp(l, s.object)
JitRows(s, l) == \A o \in DOMAIN s.open : s.open[o].kind \in Mapping => RowsTold(l, o, s.open[o])
JitOrder(s, l) ==
  /\ s.jit >= 1 => s.hits >= 1
  /\ s.hits = 1 => \A i \in P!Succeeded(l, "file_open") :
       /\ s.jit = 2 => \E j \in P!Mapped(l, "mmap") : i < j
       /\ s.jit = 3 => \E j \in P!Mapped(l, "mmap"), k \in P!Mapped(l, "mprotect") : i < j /\ j < k
JitInv(s, l) == OpenedInv(s, l) /\ JitObject(s, l) /\ JitRows(s, l) /\ JitOrder(s, l)

PhaseInv(s, l) ==
  /\ s.phase \in Poison => RefusalInv(s, l, "FILE_OPEN_ATTEMPT", "file_open")
  /\ s.phase \in Remote => RefusalInv(s, l, "NETWORK_POLICY", "connect")
  /\ s.phase \in Denied => RefusalInv(s, l, "EXEC_ATTEMPT", "exec")
  /\ s.phase = Cold => ColdInv(s, l)
  /\ s.phase = Model => OpenedInv(s, l)
  /\ s.phase = Jit => JitInv(s, l)

Good(s, l) == IsReducer(s) /\ LogInv(s, l) /\ NotYet(s) /\ PhaseInv(s, l)

\* The frames a phase logs, one conjunct per kind of phase.
LEMMA BearsFacts ==
  ASSUME NEW n, NEW f
  PROVE  /\ n \in P!Controls => P!Bears(n, f)
         /\ n = Cold =>
              (P!Bears(n, f) <=> (f.event \in {"EXEC_ATTEMPT", "TASK_EXIT"}
                                  \/ (f.event = "OPERATION_RETURN" /\ f.kind = "exec")))
         /\ n = Model =>
              (P!Bears(n, f) <=> (f.event = "FILE_OPEN_ATTEMPT"
                                  \/ (f.event = "OPERATION_RETURN" /\ f.kind = "file_open")))
         /\ n = Jit =>
              (P!Bears(n, f) <=> (f.event \in {"FILE_OPEN_ATTEMPT", "FILE_POLICY", "MAPPING_POLICY"}
                       \/ (f.event = "OPERATION_RETURN" /\ f.kind \notin {"exec", "connect"})))
         /\ n \notin P!Controls \cup {Cold, Model, Jit} => ~P!Bears(n, f)
<1>1. /\ Cold \notin P!Controls /\ Model \notin P!Controls /\ Jit \notin P!Controls
      /\ Cold # Model /\ Cold # Jit /\ Model # Jit
  BY PlanAssumption DEF P!Controls
<1>2. CASE n \in P!Controls
  BY <1>1, <1>2 DEF P!Bears
<1>3. CASE n = Cold
  BY <1>1, <1>3 DEF P!Bears
<1>4. CASE n = Model
  BY <1>1, <1>4 DEF P!Bears
<1>5. CASE n = Jit
  BY <1>1, <1>5 DEF P!Bears
<1>6. CASE n \notin P!Controls \cup {Cold, Model, Jit}
  BY <1>1, <1>6 DEF P!Bears
<1> QED BY <1>2, <1>3, <1>4, <1>5, <1>6

Lengthened(l, f) == Append(l, f)

\* A log with one more frame.
LEMMA AppendFacts ==
  ASSUME NEW l, NEW f, IsLog(l), NEW m, m = Lengthened(l, f)
  PROVE  /\ IsLog(m) /\ Len(l) \in Nat /\ Len(m) = Len(l) + 1 /\ m[Len(l) + 1] = f
         /\ \A i \in 1 .. Len(l) : m[i] = l[i] /\ i # Len(l) + 1
         /\ 1 .. Len(m) = (1 .. Len(l)) \cup {Len(l) + 1}
<1>1. PICK S : l \in Seq(S)
  BY DEF IsLog
<1>2. l \in Seq(S \cup {f}) /\ f \in S \cup {f}
  BY <1>1
<1>3. m \in Seq(S \cup {f}) /\ Len(l) \in Nat /\ Len(m) = Len(l) + 1 /\ m[Len(l) + 1] = f
      /\ \A i \in 1 .. Len(l) : m[i] = l[i]
  BY <1>2 DEF Lengthened
<1> QED BY <1>3 DEF IsLog

\* What the new frame attempts.
LEMMA AttemptedFacts ==
  ASSUME NEW l, NEW f, IsLog(l), NEW m, m = Lengthened(l, f), NEW o
  PROVE  Attempted(m, o) <=> \/ Attempted(l, o)
                             \/ f.event \in Attempting /\ f.op = o /\ f.path = "plan"
BY AppendFacts DEF Attempted

\* Frames keep the operation they are of, the new one is of what was attempted before it.
LEMMA OfThePlanFacts ==
  ASSUME NEW l, NEW f, IsLog(l), NEW m, m = Lengthened(l, f)
  PROVE  /\ \A i \in 1 .. Len(l) : P!OfThePlan(m, i) <=> P!OfThePlan(l, i)
         /\ P!OfThePlan(m, Len(l) + 1) <=> Attempted(l, f.op)
<1>1. ASSUME NEW i \in 1 .. Len(l) PROVE P!OfThePlan(m, i) <=> P!OfThePlan(l, i)
  <2>1. Len(l) \in Nat /\ 1 .. i - 1 \subseteq 1 .. Len(l)
    BY AppendFacts
  <2>2. \A j \in 1 .. i - 1 : m[j] = l[j]
    BY <2>1, AppendFacts
  <2> QED BY <2>2, AppendFacts DEF P!OfThePlan
<1>2. P!OfThePlan(m, Len(l) + 1) <=> Attempted(l, f.op)
  <2>1. Len(l) \in Nat /\ 1 .. (Len(l) + 1) - 1 = 1 .. Len(l) /\ m[Len(l) + 1] = f
    BY AppendFacts
  <2>2. \A j \in 1 .. Len(l) : m[j] = l[j]
    BY AppendFacts
  <2> QED BY <2>1, <2>2 DEF P!OfThePlan, Attempted, Attempting
<1> QED BY <1>1, <1>2

\* A frame returns with success from an operation attempted on the plan's path.
Succeeds(l, f, kind) ==
  f.event = "OPERATION_RETURN" /\ f.kind = kind /\ f.success /\ Attempted(l, f.op)

\* The new frame joins the successes when it is one, and only then.
LEMMA SucceededFacts ==
  ASSUME NEW l, NEW f, IsLog(l), NEW m, m = Lengthened(l, f), NEW kind
  PROVE  /\ Succeeds(l, f, kind) => P!Succeeded(m, kind) = P!Succeeded(l, kind) \cup {Len(l) + 1}
         /\ ~Succeeds(l, f, kind) => P!Succeeded(m, kind) = P!Succeeded(l, kind)
         /\ P!Succeeded(l, kind) \subseteq 1 .. Len(l)
<1>1. \A i \in 1 .. Len(l) : P!Returns(m, i, kind) <=> P!Returns(l, i, kind)
  BY AppendFacts DEF P!Returns
<1>2. P!Returns(m, Len(l) + 1, kind) <=> (f.event = "OPERATION_RETURN" /\ f.kind = kind /\ f.success)
  BY AppendFacts DEF P!Returns
<1>0. ASSUME NEW n, NEW i
      PROVE  i \in P!Succeeded(n, kind) <=> (i \in 1 .. Len(n) /\ P!Returns(n, i, kind) /\ P!OfThePlan(n, i))
  BY DEF P!Succeeded
<1>3. ASSUME NEW i \in 1 .. Len(l) PROVE i \in P!Succeeded(m, kind) <=> i \in P!Succeeded(l, kind)
  <2>1. P!OfThePlan(m, i) <=> P!OfThePlan(l, i)
    BY OfThePlanFacts
  <2>2. i \in 1 .. Len(m)
    BY AppendFacts
  <2> QED BY <1>0, <1>1, <2>1, <2>2
<1>4. Len(l) + 1 \in P!Succeeded(m, kind) <=> Succeeds(l, f, kind)
  <2>1. P!OfThePlan(m, Len(l) + 1) <=> Attempted(l, f.op)
    BY OfThePlanFacts
  <2>2. Len(l) + 1 \in 1 .. Len(m)
    BY AppendFacts
  <2> QED BY <1>0, <1>2, <2>1, <2>2 DEF Succeeds
<1>5. P!Succeeded(m, kind) \subseteq (1 .. Len(l)) \cup {Len(l) + 1}
      /\ P!Succeeded(l, kind) \subseteq 1 .. Len(l)
  BY AppendFacts DEF P!Succeeded
<1> QED BY <1>3, <1>4, <1>5

\* What has been mapped stays mapped.
LEMMA MappedGrows ==
  ASSUME NEW l, NEW f, IsLog(l), NEW m, m = Lengthened(l, f), NEW kind
  PROVE  P!Mapped(l, kind) \subseteq P!Mapped(m, kind)
<1> SUFFICES ASSUME NEW i \in P!Mapped(l, kind) PROVE i \in P!Mapped(m, kind)
  OBVIOUS
<1>1. i \in 1 .. Len(l) /\ P!Returns(l, i, kind)
  BY DEF P!Mapped
<1>2. PICK d \in 1 .. i - 1 :
        /\ l[d].event = "FILE_POLICY" /\ P!OfThePlan(l, d)
        /\ \A j \in 1 .. i - 1 : l[j].op = l[i].op => l[j].object = l[d].object /\ ~l[j].deny
  BY DEF P!Mapped
<1>3. Len(l) \in Nat /\ 1 .. i - 1 \subseteq 1 .. Len(l) /\ i \in 1 .. Len(m)
  BY <1>1, AppendFacts
<1>4. m[i] = l[i] /\ \A j \in 1 .. i - 1 : m[j] = l[j]
  BY <1>1, <1>3, AppendFacts
<1>5. P!OfThePlan(m, d)
  BY <1>2, <1>3, OfThePlanFacts
<1>6. P!Returns(m, i, kind)
  BY <1>1, <1>4 DEF P!Returns
<1> QED BY <1>2, <1>3, <1>4, <1>5, <1>6 DEF P!Mapped

-----------------------------------------------------------------------------
\* A step and the one operation it is about.
OpStep(s, t, f) ==
  /\ IsReducer(t) /\ Stays(s, t)
  /\ f.event # "TASK_EXIT" => f.op \in t.used
  /\ f.event = "TASK_EXIT" => s.phase \notin P!Controls
  /\ \A o \in DOMAIN t.open : o # f.op => o \in DOMAIN s.open /\ t.open[o] = s.open[o]
  /\ f.op \in DOMAIN t.open =>
       \/ /\ f.op \in DOMAIN s.open
          /\ t.open[f.op].kind = s.open[f.op].kind /\ t.open[f.op].path = s.open[f.op].path
          /\ f.event \in Attempting => s.open[f.op].path = f.path
       \/ /\ f.op \notin s.used /\ t.open[f.op].path = f.path
          /\ t.open[f.op].kind = "exec" <=> f.event = "EXEC_ATTEMPT"
          /\ t.open[f.op].kind = "file_open" <=> f.event = "FILE_OPEN_ATTEMPT"

Grown(s, l, f) == IF P!Bears(s.phase, f) THEN Lengthened(l, f) ELSE l

\* Whatever a frame does to its one operation, the log goes on telling the plan's paths.
LEMMA LogStep ==
  ASSUME NEW s, NEW l, NEW f, NEW t, NEW m, IsReducer(s), LogInv(s, l), OpStep(s, t, f),
         m = Grown(s, l, f)
  PROVE  LogInv(t, m)
<1>0. IsLog(l) /\ t.phase = s.phase /\ s.used \subseteq t.used /\ DOMAIN s.open \subseteq s.used
  BY DEF LogInv, OpStep, Stays, IsReducer
<1>1. IsLog(m)
  BY <1>0, AppendFacts DEF Grown
<1>2. \A i \in 1 .. Len(m) : m[i].event # "TASK_EXIT" => m[i].op \in t.used
  BY <1>0, AppendFacts DEF Grown, LogInv, OpStep
<1>3. t.phase # Cold => \A i \in 1 .. Len(m) : m[i].event # "TASK_EXIT"
  <2>1. f.event = "TASK_EXIT" /\ s.phase # Cold => ~P!Bears(s.phase, f)
    BY BearsFacts DEF OpStep
  <2> QED BY <1>0, <2>1, AppendFacts DEF Grown, LogInv
<1>4. ASSUME NEW o \in DOMAIN t.open, Telling(t.phase, t.open[o].kind)
      PROVE  t.open[o].path = "plan" <=> Attempted(m, o)
  <2>1. Attempted(m, o) <=> \/ Attempted(l, o)
                            \/ /\ P!Bears(s.phase, f) /\ f.event \in Attempting
                               /\ f.op = o /\ f.path = "plan"
    BY <1>0, AttemptedFacts DEF Grown
  <2>2. CASE o # f.op
    BY <1>0, <1>4, <2>1, <2>2 DEF OpStep, LogInv
  <2>3. CASE o = f.op /\ f.op \in DOMAIN s.open /\ t.open[f.op].kind = s.open[f.op].kind
             /\ t.open[f.op].path = s.open[f.op].path
             /\ (f.event \in Attempting => s.open[f.op].path = f.path)
    BY <1>0, <1>4, <2>1, <2>3 DEF LogInv
  <2>4. CASE /\ o = f.op /\ f.op \notin s.used /\ t.open[f.op].path = f.path
             /\ t.open[f.op].kind = "exec" <=> f.event = "EXEC_ATTEMPT"
             /\ t.open[f.op].kind = "file_open" <=> f.event = "FILE_OPEN_ATTEMPT"
    <3>1. ~Attempted(l, o)
      BY <2>4 DEF Attempted, Attempting, LogInv
    <3>2. P!Bears(s.phase, f) /\ f.event \in Attempting
      BY <1>0, <1>4, <2>4, BearsFacts DEF Telling, Attempting
    <3> QED BY <2>1, <2>4, <3>1, <3>2
  <2> QED BY <2>2, <2>3, <2>4 DEF OpStep
<1> QED BY <1>1, <1>2, <1>3, <1>4 DEF LogInv

(* The frames of the interval, one disjunct per handler.                     *)
Handled(s, f, t) ==
  \/ f.event = "TASK_ALLOC_ATTEMPT" /\ P!AllocOk(s, f) /\ t = P!Alloc(s, f)
  \/ f.event = "TASK_CREATED" /\ P!CreatedOk(s, f) /\ t = P!Created(s, f)
  \/ f.event = "EXEC_ATTEMPT" /\ P!AttemptOk(s, f) /\ t = P!Attempt(s, f)
  \/ f.event = "EXEC_COMMIT" /\ P!CommitOk(s, f) /\ t = P!Commit(s, f)
  \/ f.event = "FILE_OPEN_ATTEMPT" /\ P!FileAttemptOk(s, f) /\ t = P!Mint(s, f, "file_open")
  \/ f.event = "FILE_POLICY" /\ P!FilePolicyOk(s, f) /\ t = P!FilePolicy(s, f)
  \/ f.event = "MAPPING_POLICY" /\ P!MappingPolicyOk(s, f) /\ t = P!MappingPolicy(s, f)
  \/ f.event = "NETWORK_POLICY" /\ P!NetworkPolicyOk(s, f) /\ t = P!NetworkPolicy(s, f)
  \/ f.event = "OPERATION_RETURN" /\ P!ReturnOk(s, f) /\ t = P!Return(s, f)
  \/ f.event = "TASK_EXIT" /\ P!ExitOk(s, f) /\ t = P!Exit(s, f)

\* A new operation.
LEMMA NewOpFacts ==
  ASSUME NEW f, NEW kind, NEW x, x = P!NewOp(f, kind)
  PROVE  /\ IsOp(x) /\ x.kind = kind /\ x.path = f.path /\ x.passes = 0 /\ x.rows = 0
         /\ x.objects = {}
BY DEF P!NewOp, IsOp

\* Another pass changes the passes only.
LEMMA PassFacts ==
  ASSUME NEW x, IsOp(x), NEW n \in Nat, NEW y, y = [x EXCEPT !.passes = n]
  PROVE  IsOp(y) /\ y.kind = x.kind /\ y.path = x.path /\ y.rows = x.rows /\ y.passes = n
<1>1. x = [kind |-> x.kind, task |-> x.task, parent |-> x.parent, phase |-> x.phase,
           path |-> x.path, passes |-> x.passes, committed |-> x.committed,
           denied |-> x.denied, rows |-> x.rows, objects |-> x.objects]
  BY DEF IsOp
<1>2. y = [kind |-> x.kind, task |-> x.task, parent |-> x.parent, phase |-> x.phase,
           path |-> x.path, passes |-> n, committed |-> x.committed,
           denied |-> x.denied, rows |-> x.rows, objects |-> x.objects]
  BY <1>1
<1>3. x.rows \in Nat
  BY DEF IsOp
<1> QED BY <1>2, <1>3 DEF IsOp

\* Opening, editing and closing are steps about one operation.
LEMMA OpensStep ==
  ASSUME NEW s, NEW t, NEW f, NEW x, IsReducer(s), IsReducer(t), Stays(s, t),
         Opens(s, t, f.op, x), f.op \notin s.used, x.path = f.path,
         (x.kind = "exec") <=> (f.event = "EXEC_ATTEMPT"),
         (x.kind = "file_open") <=> (f.event = "FILE_OPEN_ATTEMPT"), f.event # "TASK_EXIT"
  PROVE  OpStep(s, t, f)
BY DEF OpStep, Opens

LEMMA BecomesStep ==
  ASSUME NEW s, NEW t, NEW f, NEW y, IsReducer(s), IsReducer(t), Stays(s, t),
         Becomes(s, t, f.op, y), y.path = s.open[f.op].path, y.kind = s.open[f.op].kind,
         f.event \in Attempting => s.open[f.op].path = f.path, f.event # "TASK_EXIT"
  PROVE  OpStep(s, t, f)
BY DEF OpStep, Becomes, IsReducer

LEMMA ClosesStep ==
  ASSUME NEW s, NEW t, NEW f, IsReducer(s), IsReducer(t), Stays(s, t),
         Closes(s, t, f.op), f.event # "TASK_EXIT"
  PROVE  OpStep(s, t, f)
BY DEF OpStep, Closes, IsReducer

\* Every handler is about one operation at most.
LEMMA HandledOpStep ==
  ASSUME NEW s, NEW f, NEW t, IsReducer(s), Handled(s, f, t)
  PROVE  OpStep(s, t, f)
<1>1. CASE f.event = "TASK_ALLOC_ATTEMPT" /\ P!AllocOk(s, f) /\ t = P!Alloc(s, f)
  <2>1. f.op \notin s.used /\ t = P!Mint(s, f, "task_alloc")
    BY <1>1 DEF P!AllocOk, P!CanMint, P!Alloc
  <2>2. Quiet(s, t) /\ Opens(s, t, f.op, P!NewOp(f, "task_alloc"))
    BY <2>1, MintFacts
  <2> DEFINE x == P!NewOp(f, "task_alloc")
  <2>3. x.path = f.path /\ x.kind = "task_alloc"
    BY NewOpFacts
  <2> HIDE DEF x
  <2>4. Opens(s, t, f.op, x)
    BY <2>2 DEF x
  <2> QED BY <1>1, <2>1, <2>2, <2>3, <2>4, OpensStep DEF Quiet
<1>2. CASE f.event = "TASK_CREATED" /\ P!CreatedOk(s, f) /\ t = P!Created(s, f)
  BY <1>2, CreatedFacts, ClosesStep
<1>3. CASE f.event = "EXEC_ATTEMPT" /\ P!AttemptOk(s, f) /\ t = P!Attempt(s, f)
  <2>0. Quiet(s, t)
    BY <1>3, AttemptFacts
  <2>1. CASE f.op \in DOMAIN s.open
    <3> DEFINE y == [s.open[f.op] EXCEPT !.passes = s.open[f.op].passes + 1]
    <3>1. Becomes(s, t, f.op, y) /\ s.open[f.op].path = f.path
      BY <1>3, <2>1, AttemptFacts
    <3>2. IsOp(s.open[f.op]) /\ s.open[f.op].passes + 1 \in Nat
      BY <2>1 DEF IsReducer, IsOp
    <3>3. y.path = s.open[f.op].path /\ y.kind = s.open[f.op].kind
      BY <3>2, PassFacts
    <3> HIDE DEF y
    <3> QED BY <1>3, <2>0, <3>1, <3>3, BecomesStep DEF Quiet
  <2>2. CASE f.op \notin DOMAIN s.open
    <3> DEFINE x == P!NewOp(f, "exec")
               y == [x EXCEPT !.passes = 1]
    <3>1. Opens(s, t, f.op, y) /\ f.op \notin s.used
      BY <1>3, <2>2, AttemptFacts
    <3>2. IsOp(x) /\ x.path = f.path /\ x.kind = "exec"
      BY NewOpFacts
    <3> HIDE DEF x
    <3>3. y.path = f.path /\ y.kind = "exec"
      BY <3>2, PassFacts
    <3> HIDE DEF y
    <3> QED BY <1>3, <2>0, <3>1, <3>3, OpensStep DEF Quiet
  <2> QED BY <2>1, <2>2
<1>4. CASE f.event = "EXEC_COMMIT" /\ P!CommitOk(s, f) /\ t = P!Commit(s, f)
  <2>1. Quiet(s, t) /\ s.open[f.op].kind = "exec"
    BY <1>4, CommitFacts
  <2>2. PICK y : Becomes(s, t, f.op, y) /\ y.kind = "exec" /\ y.path = s.open[f.op].path
    BY <1>4, CommitFacts
  <2> QED BY <1>4, <2>1, <2>2, BecomesStep DEF Quiet, Attempting
<1>5. CASE f.event = "FILE_OPEN_ATTEMPT" /\ P!FileAttemptOk(s, f) /\ t = P!Mint(s, f, "file_open")
  <2> DEFINE x == P!NewOp(f, "file_open")
  <2>1. f.op \notin s.used
    BY <1>5 DEF P!FileAttemptOk, P!CanMint
  <2>2. Quiet(s, t) /\ Opens(s, t, f.op, x)
    BY <1>5, <2>1, MintFacts
  <2>3. x.path = f.path /\ x.kind = "file_open"
    BY NewOpFacts
  <2> HIDE DEF x
  <2> QED BY <1>5, <2>1, <2>2, <2>3, OpensStep DEF Quiet
<1>6. CASE f.event = "FILE_POLICY" /\ P!FilePolicyOk(s, f) /\ t = P!FilePolicy(s, f)
  <2> DEFINE y == RowOf(s.open[f.op], f)
  <2>1. Quiet(s, t) /\ Becomes(s, t, f.op, y)
    BY <1>6, FilePolicyFacts
  <2>2. IsOp(s.open[f.op])
    BY <2>1 DEF Becomes, IsReducer
  <2>3. y.path = s.open[f.op].path /\ y.kind = s.open[f.op].kind
    BY <2>2, RowIsOp
  <2> HIDE DEF y
  <2> QED BY <1>6, <2>1, <2>3, BecomesStep DEF Quiet, Attempting
<1>7. CASE f.event = "MAPPING_POLICY" /\ P!MappingPolicyOk(s, f) /\ t = P!MappingPolicy(s, f)
  <2>0. Quiet(s, t) /\ f.kind \in {"mmap", "mprotect"}
    BY <1>7, MappingPolicyFacts DEF P!MappingPolicyOk
  <2>1. CASE f.op \in DOMAIN s.open
    <3> DEFINE y == RowOf(s.open[f.op], f)
    <3>1. Becomes(s, t, f.op, y)
      BY <1>7, <2>1, MappingPolicyFacts
    <3>2. IsOp(s.open[f.op])
      BY <2>1 DEF IsReducer
    <3>3. y.path = s.open[f.op].path /\ y.kind = s.open[f.op].kind
      BY <3>2, RowIsOp
    <3> HIDE DEF y
    <3> QED BY <1>7, <2>0, <3>1, <3>3, BecomesStep DEF Quiet, Attempting
  <2>2. CASE f.op \notin DOMAIN s.open
    <3> DEFINE x == P!NewOp(f, f.kind)
               y == RowOf(x, f)
    <3>1. Opens(s, t, f.op, y) /\ f.op \notin s.used
      BY <1>7, <2>2, MappingPolicyFacts
    <3>2. IsOp(x) /\ x.path = f.path /\ x.kind = f.kind
      BY NewOpFacts
    <3> HIDE DEF x
    <3>3. y.path = f.path /\ y.kind = f.kind
      BY <3>2, RowIsOp
    <3> HIDE DEF y
    <3> QED BY <1>7, <2>0, <3>1, <3>3, OpensStep DEF Quiet
  <2> QED BY <2>1, <2>2
<1>8. CASE f.event = "NETWORK_POLICY" /\ P!NetworkPolicyOk(s, f) /\ t = P!NetworkPolicy(s, f)
  <2> DEFINE x == P!NewOp(f, "connect")
             y == RowOf(x, f)
  <2>1. f.op \notin s.used /\ t = P!Row(P!Mint(s, f, "connect"), f)
    BY <1>8 DEF P!NetworkPolicyOk, P!CanMint, P!NetworkPolicy
  <2>2. Quiet(s, t) /\ Opens(s, t, f.op, y)
    BY <2>1, MintRowFacts
  <2>3. IsOp(x) /\ x.path = f.path /\ x.kind = "connect"
    BY NewOpFacts
  <2> HIDE DEF x
  <2>4. y.path = f.path /\ y.kind = "connect"
    BY <2>3, RowIsOp
  <2> HIDE DEF y
  <2> QED BY <1>8, <2>1, <2>2, <2>4, OpensStep DEF Quiet
<1>9. CASE f.event = "OPERATION_RETURN" /\ P!ReturnOk(s, f) /\ t = P!Return(s, f)
  BY <1>9, ReturnFacts, ClosesStep
<1>10. CASE f.event = "TASK_EXIT" /\ P!ExitOk(s, f) /\ t = P!Exit(s, f)
  <2>1. IsReducer(t) /\ Stays(s, t) /\ t.open = s.open
    BY <1>10, ExitFacts
  <2>2. s.phase \notin P!Controls
    BY <1>10 DEF P!ExitOk
  <2>3. \A o \in DOMAIN t.open : o \in DOMAIN s.open /\ t.open[o] = s.open[o]
    BY <2>1
  <2>4. f.event \notin Attempting
    BY <1>10 DEF Attempting
  <2> QED BY <1>10, <2>1, <2>2, <2>3, <2>4 DEF OpStep
<1> QED BY <1>1, <1>2, <1>3, <1>4, <1>5, <1>6, <1>7, <1>8, <1>9, <1>10 DEF Handled

\* No task but a new one comes to life, and none ends.
Lives(s, t) ==
  DOMAIN s.tasks \subseteq DOMAIN t.tasks /\ \A u \in DOMAIN s.tasks : t.tasks[u].live = s.tasks[u].live

\* Only a return and an exit count, or end a task.
LEMMA AsideFacts ==
  ASSUME NEW s, NEW f, NEW t, IsReducer(s), Handled(s, f, t),
         f.event \notin {"OPERATION_RETURN", "TASK_EXIT"}
  PROVE  /\ IsReducer(t) /\ Stays(s, t) /\ Counts(s, t) /\ Lives(s, t)
         /\ f.event # "FILE_POLICY" => t.object = s.object
<1>1. CASE f.event = "TASK_ALLOC_ATTEMPT" /\ P!AllocOk(s, f) /\ t = P!Alloc(s, f)
  BY <1>1, MintFacts DEF P!AllocOk, P!CanMint, P!Alloc, Quiet, Lives
<1>2. CASE f.event = "TASK_CREATED" /\ P!CreatedOk(s, f) /\ t = P!Created(s, f)
  BY <1>2, CreatedFacts DEF Lives
<1>3. CASE f.event = "EXEC_ATTEMPT" /\ P!AttemptOk(s, f) /\ t = P!Attempt(s, f)
  <2>1. Quiet(s, t) /\ t.object = s.object
    BY <1>3, AttemptFacts
  <2> QED BY <2>1 DEF Quiet, Lives
<1>4. CASE f.event = "EXEC_COMMIT" /\ P!CommitOk(s, f) /\ t = P!Commit(s, f)
  <2>1. Quiet(s, t) /\ t.object = s.object
    BY <1>4, CommitFacts
  <2> QED BY <2>1 DEF Quiet, Lives
<1>5. CASE f.event = "FILE_OPEN_ATTEMPT" /\ P!FileAttemptOk(s, f) /\ t = P!Mint(s, f, "file_open")
  BY <1>5, MintFacts DEF P!FileAttemptOk, P!CanMint, Quiet, Lives
<1>6. CASE f.event = "FILE_POLICY" /\ P!FilePolicyOk(s, f) /\ t = P!FilePolicy(s, f)
  BY <1>6, FilePolicyFacts DEF Quiet, Lives
<1>7. CASE f.event = "MAPPING_POLICY" /\ P!MappingPolicyOk(s, f) /\ t = P!MappingPolicy(s, f)
  BY <1>7, MappingPolicyFacts DEF Quiet, Lives
<1>8. CASE f.event = "NETWORK_POLICY" /\ P!NetworkPolicyOk(s, f) /\ t = P!NetworkPolicy(s, f)
  BY <1>8, MintRowFacts DEF P!NetworkPolicyOk, P!CanMint, P!NetworkPolicy, Quiet, Lives
<1> QED BY <1>1, <1>2, <1>3, <1>4, <1>5, <1>6, <1>7, <1>8 DEF Handled

(* What a return requires and does, by the kind of its operation.            *)
LEMMA ReturnKinds ==
  ASSUME NEW s, NEW f, IsReducer(s), P!ReturnOk(s, f), NEW x, x = s.open[f.op]
  PROVE  /\ f.kind = "exec" =>
              /\ P!Completes(s, f) <=> s.phase \in Denied
              /\ s.phase \in Denied => ~f.success /\ x.passes = 1
              /\ s.phase = Cold /\ x.path = "plan" /\ f.success => f.task \notin s.cold
         /\ f.kind = "file_open" /\ x.rows = 0 =>
              P!Completes(s, f) /\ s.phase \in Poison /\ ~f.success
         /\ f.kind = "file_open" /\ x.rows # 0 =>
              (P!Completes(s, f) <=> (s.phase \in {Model, Jit} /\ x.path = "plan" /\ f.success))
         /\ f.kind \in Mapping =>
              /\ ~P!Completes(s, f)
              /\ x.denied => ~f.success
              /\ s.phase = Jit /\ s.object # None /\ x.objects = {s.object} /\ f.success =>
                   \/ f.kind = "mmap" /\ s.jit = 1
                   \/ f.kind = "mprotect" /\ s.jit = 2
         /\ f.kind = "connect" => ~f.success /\ (P!Completes(s, f) <=> s.phase \in Remote)
         /\ f.kind \in {"exec", "file_open", "mmap", "mprotect", "connect"}
<1>1. f.kind \in {"exec", "file_open", "mmap", "mprotect", "connect"}
  BY DEF P!ReturnOk
<1>2. CASE f.kind = "exec"
  BY <1>2 DEF P!ReturnOk, P!Completes, Mapping
<1>3. CASE f.kind = "file_open"
  BY <1>3 DEF P!ReturnOk, P!Completes, Mapping
<1>4. CASE f.kind \in Mapping
  BY <1>4 DEF P!ReturnOk, P!Completes, Mapping, P!PolicyResultOk
<1>5. CASE f.kind = "connect"
  BY <1>5 DEF P!ReturnOk, P!Completes, Mapping
<1> QED BY <1>1, <1>2, <1>3, <1>4, <1>5 DEF Mapping

(* The refusals.                                                             *)
LEMMA RefusalOpens ==
  ASSUME NEW s, NEW l, NEW f, NEW t, NEW m, NEW event, NEW kind, NEW x, IsReducer(s), IsLog(l),
         RefusalInv(s, l, event, kind), Opens(s, t, f.op, x), f.op \notin s.used,
         t.hits = s.hits, t.phase = s.phase, m = Lengthened(l, f),
         x.kind = kind, kind = "file_open" => x.rows = 0, kind = "exec" => x.passes >= 1,
         f.event = event, f.path = "plan", event = "NETWORK_POLICY" => f.deny
  PROVE  RefusalInv(t, m, event, kind)
<1>1. /\ DOMAIN t.open = DOMAIN s.open \cup {f.op} /\ t.open[f.op] = x /\ f.op \notin DOMAIN s.open
      /\ \A o \in DOMAIN s.open : t.open[o] = s.open[o]
  BY DEF Opens, IsReducer
<1>2. \A o \in DOMAIN t.open :
        /\ t.open[o].kind = kind
        /\ kind = "file_open" => t.open[o].rows = 0
        /\ kind = "exec" => t.open[o].passes >= 1
  BY <1>1 DEF RefusalInv
<1>3. ASSUME t.hits = 0 PROVE Waiting(t, m, event) \/ Stuck(t)
  <2>1. CASE l = <<>> /\ DOMAIN s.open = {}
    <3>1. Len(m) = 1 /\ m[1] = f
      <4>1. Len(m) = Len(l) + 1 /\ m[Len(l) + 1] = f
        BY AppendFacts
      <4> QED BY <2>1, <4>1
    <3>2. DOMAIN t.open = {m[1].op}
      BY <1>1, <2>1, <3>1
    <3> QED BY <3>1, <3>2 DEF Waiting, Planned
  <2>2. CASE Waiting(s, l, event)
    <3>1. l[1].op \in DOMAIN t.open /\ f.op \in DOMAIN t.open /\ l[1].op # f.op
      BY <1>1, <2>2 DEF Waiting
    <3> QED BY <3>1 DEF Stuck
  <2>3. CASE Stuck(s)
    BY <1>1, <2>3 DEF Stuck
  <2> QED BY <1>3, <2>1, <2>2, <2>3 DEF RefusalInv
<1>4. DOMAIN t.open # {}
  BY <1>1
<1> QED BY <1>2, <1>3, <1>4 DEF RefusalInv

\* The return of the one attempt completes the refusal; any other can no longer be closed.
LEMMA RefusalCloses ==
  ASSUME NEW s, NEW l, NEW f, NEW t, NEW m, NEW event, NEW kind, IsReducer(s), IsLog(l),
         RefusalInv(s, l, event, kind), Closes(s, t, f.op),
         t.hits = s.hits + 1, t.phase = s.phase, m = Lengthened(l, f),
         s.phase \in Denied => s.open[f.op].passes = 1,
         f.event = "OPERATION_RETURN", ~f.success
  PROVE  RefusalInv(t, m, event, kind)
<1>1. /\ DOMAIN t.open = DOMAIN s.open \ {f.op} /\ f.op \in DOMAIN s.open
      /\ \A o \in DOMAIN t.open : t.open[o] = s.open[o]
  BY DEF Closes, IsReducer
<1>2. \A o \in DOMAIN t.open :
        /\ t.open[o].kind = kind
        /\ kind = "file_open" => t.open[o].rows = 0
        /\ kind = "exec" => t.open[o].passes >= 1
  BY <1>1 DEF RefusalInv
<1>3. t.hits # 0
  BY DEF IsReducer
<1>4. ASSUME t.hits = 1, DOMAIN t.open = {} PROVE P!Refused(m, event) /\ Planned(m, event)
  <2>1. s.hits = 0 /\ DOMAIN s.open = {f.op}
    BY <1>1, <1>4 DEF IsReducer
  <2>2. ~Stuck(s)
    BY <2>1 DEF Stuck
  <2>3. Waiting(s, l, event)
    BY <2>1, <2>2 DEF RefusalInv
  <2>4. Len(l) = 1 /\ l[1].op = f.op /\ Planned(l, event)
    BY <2>1, <2>3 DEF Waiting
  <2>5. Len(m) = 2 /\ m[1] = l[1] /\ m[2] = f
    <3>1. Len(m) = Len(l) + 1 /\ m[Len(l) + 1] = f /\ \A i \in 1 .. Len(l) : m[i] = l[i]
      BY AppendFacts
    <3> QED BY <2>4, <3>1
  <2> QED BY <2>4, <2>5 DEF P!Refused, Planned
<1> QED BY <1>2, <1>3, <1>4 DEF RefusalInv

\* A second pass of a denied exec can no longer be closed.
LEMMA RefusalBecomes ==
  ASSUME NEW s, NEW l, NEW f, NEW t, NEW m, NEW y, IsReducer(s), IsLog(l),
         s.phase \in Denied, RefusalInv(s, l, "EXEC_ATTEMPT", "exec"),
         Becomes(s, t, f.op, y), y.kind = "exec", y.passes = s.open[f.op].passes + 1,
         t.hits = s.hits, t.phase = s.phase
  PROVE  RefusalInv(t, m, "EXEC_ATTEMPT", "exec")
<1>1. /\ DOMAIN t.open = DOMAIN s.open /\ t.open[f.op] = y /\ f.op \in DOMAIN s.open
      /\ \A o \in DOMAIN s.open : o # f.op => t.open[o] = s.open[o]
  BY DEF Becomes
<1>2. s.open[f.op].passes \in Nat /\ s.open[f.op].passes >= 1
  BY <1>1 DEF IsReducer, IsOp, RefusalInv
<1>3. y.passes >= 1 /\ y.passes # 1
  BY <1>2
<1>4. \A o \in DOMAIN t.open : t.open[o].kind = "exec" /\ t.open[o].passes >= 1
  BY <1>1, <1>3 DEF RefusalInv
<1>5. Stuck(t) /\ DOMAIN t.open # {}
  BY <1>1, <1>3 DEF Stuck
<1> QED BY <1>4, <1>5 DEF RefusalInv

\* In a poison phase only lookups of the plan's path get through.
LEMMA PoisonStep ==
  ASSUME NEW s, NEW l, NEW f, NEW t, NEW m, IsReducer(s), IsLog(l), Handled(s, f, t),
         s.phase \in Poison, RefusalInv(s, l, "FILE_OPEN_ATTEMPT", "file_open"),
         m = Lengthened(l, f)
  PROVE  RefusalInv(t, m, "FILE_OPEN_ATTEMPT", "file_open")
<1>0. s.phase \in P!Controls /\ s.phase \notin Remote \cup Denied
  BY PlanAssumption DEF P!Controls
<1>1. CASE f.event = "FILE_OPEN_ATTEMPT" /\ P!FileAttemptOk(s, f) /\ t = P!Mint(s, f, "file_open")
  <2> DEFINE x == P!NewOp(f, "file_open")
  <2>1. f.op \notin s.used /\ f.path = "plan"
    BY <1>1 DEF P!FileAttemptOk, P!CanMint
  <2>2. Quiet(s, t) /\ Opens(s, t, f.op, x)
    BY <1>1, <2>1, MintFacts
  <2>3. x.kind = "file_open" /\ x.rows = 0
    BY NewOpFacts
  <2>4. t.hits = s.hits /\ t.phase = s.phase
    BY <2>2 DEF Quiet, Counts, Stays
  <2> HIDE DEF x
  <2> QED BY <1>1, <2>1, <2>2, <2>3, <2>4, RefusalOpens
<1>2. CASE f.event = "OPERATION_RETURN" /\ P!ReturnOk(s, f) /\ t = P!Return(s, f)
  <2>1. /\ Closes(s, t, f.op) /\ s.open[f.op].kind = f.kind /\ Stays(s, t)
        /\ P!Completes(s, f) => t.hits = s.hits + 1
    BY <1>2, ReturnFacts
  <2>2. f.op \in DOMAIN s.open /\ f.kind = "file_open" /\ s.open[f.op].rows = 0
    BY <2>1 DEF Closes, RefusalInv
  <2>3. P!Completes(s, f) /\ ~f.success
    BY <1>2, <2>2, ReturnKinds
  <2>4. t.hits = s.hits + 1 /\ t.phase = s.phase
    BY <2>1, <2>3 DEF Stays
  <2> QED BY <1>0, <1>2, <2>1, <2>3, <2>4, RefusalCloses
<1>3. /\ ~P!AllocOk(s, f) /\ ~P!CreatedOk(s, f) /\ ~P!AttemptOk(s, f) /\ ~P!CommitOk(s, f)
      /\ ~P!FilePolicyOk(s, f) /\ ~P!MappingPolicyOk(s, f) /\ ~P!NetworkPolicyOk(s, f) /\ ~P!ExitOk(s, f)
  BY <1>0 DEF P!AllocOk, P!CreatedOk, P!AttemptOk, P!CommitOk, P!FilePolicyOk, P!MappingPolicyOk,
              P!NetworkPolicyOk, P!ExitOk
<1> QED BY <1>1, <1>2, <1>3 DEF Handled

\* In a remote phase only the denial of the plan's endpoint.
LEMMA RemoteStep ==
  ASSUME NEW s, NEW l, NEW f, NEW t, NEW m, IsReducer(s), IsLog(l), Handled(s, f, t),
         s.phase \in Remote, RefusalInv(s, l, "NETWORK_POLICY", "connect"),
         m = Lengthened(l, f)
  PROVE  RefusalInv(t, m, "NETWORK_POLICY", "connect")
<1>0. s.phase \in P!Controls /\ s.phase \notin Poison \cup Denied
  BY PlanAssumption DEF P!Controls
<1>1. CASE f.event = "NETWORK_POLICY" /\ P!NetworkPolicyOk(s, f) /\ t = P!NetworkPolicy(s, f)
  <2> DEFINE x == P!NewOp(f, "connect")
             y == RowOf(x, f)
  <2>1. f.op \notin s.used /\ f.path = "plan" /\ f.deny /\ t = P!Row(P!Mint(s, f, "connect"), f)
    BY <1>1 DEF P!NetworkPolicyOk, P!CanMint, P!NetworkPolicy
  <2>2. Quiet(s, t) /\ Opens(s, t, f.op, y)
    BY <2>1, MintRowFacts
  <2>3. IsOp(x) /\ x.kind = "connect"
    BY NewOpFacts
  <2>4. t.hits = s.hits /\ t.phase = s.phase
    BY <2>2 DEF Quiet, Counts, Stays
  <2> HIDE DEF x
  <2>5. y.kind = "connect"
    BY <2>3, RowIsOp
  <2> HIDE DEF y
  <2> QED BY <1>1, <2>1, <2>2, <2>4, <2>5, RefusalOpens
<1>2. CASE f.event = "OPERATION_RETURN" /\ P!ReturnOk(s, f) /\ t = P!Return(s, f)
  <2>1. /\ Closes(s, t, f.op) /\ s.open[f.op].kind = f.kind /\ Stays(s, t)
        /\ P!Completes(s, f) => t.hits = s.hits + 1
    BY <1>2, ReturnFacts
  <2>2. f.op \in DOMAIN s.open /\ f.kind = "connect"
    BY <2>1 DEF Closes, RefusalInv
  <2>3. P!Completes(s, f) /\ ~f.success
    BY <1>2, <2>2, ReturnKinds
  <2>4. t.hits = s.hits + 1 /\ t.phase = s.phase
    BY <2>1, <2>3 DEF Stays
  <2> QED BY <1>0, <1>2, <2>1, <2>3, <2>4, RefusalCloses
<1>3. /\ ~P!AllocOk(s, f) /\ ~P!CreatedOk(s, f) /\ ~P!AttemptOk(s, f) /\ ~P!CommitOk(s, f)
      /\ ~P!FilePolicyOk(s, f) /\ ~P!MappingPolicyOk(s, f) /\ ~P!FileAttemptOk(s, f) /\ ~P!ExitOk(s, f)
  BY <1>0 DEF P!AllocOk, P!CreatedOk, P!AttemptOk, P!CommitOk, P!FilePolicyOk, P!MappingPolicyOk,
              P!FileAttemptOk, P!ExitOk
<1> QED BY <1>1, <1>2, <1>3 DEF Handled

\* And in a denied phase only attempts on the plan's path.
LEMMA DeniedStep ==
  ASSUME NEW s, NEW l, NEW f, NEW t, NEW m, IsReducer(s), IsLog(l), Handled(s, f, t),
         s.phase \in Denied, RefusalInv(s, l, "EXEC_ATTEMPT", "exec"),
         m = Lengthened(l, f)
  PROVE  RefusalInv(t, m, "EXEC_ATTEMPT", "exec")
<1>0. s.phase \in P!Controls /\ s.phase \notin Poison \cup Remote
  BY PlanAssumption DEF P!Controls
<1>1. CASE f.event = "EXEC_ATTEMPT" /\ P!AttemptOk(s, f) /\ t = P!Attempt(s, f)
  <2>0. Quiet(s, t) /\ f.path = "plan"
    BY <1>1, AttemptFacts DEF P!AttemptOk
  <2>1. t.hits = s.hits /\ t.phase = s.phase
    BY <2>0 DEF Quiet, Counts, Stays
  <2>2. CASE f.op \in DOMAIN s.open
    <3> DEFINE y == [s.open[f.op] EXCEPT !.passes = s.open[f.op].passes + 1]
    <3>1. Becomes(s, t, f.op, y) /\ s.open[f.op].kind = "exec"
      BY <1>1, <2>2, AttemptFacts
    <3>2. IsOp(s.open[f.op]) /\ s.open[f.op].passes + 1 \in Nat
      BY <2>2 DEF IsReducer, IsOp
    <3>3. y.kind = "exec" /\ y.passes = s.open[f.op].passes + 1
      BY <3>1, <3>2, PassFacts
    <3> HIDE DEF y
    <3> QED BY <2>1, <3>1, <3>3, RefusalBecomes
  <2>3. CASE f.op \notin DOMAIN s.open
    <3> DEFINE x == P!NewOp(f, "exec")
               y == [x EXCEPT !.passes = 1]
    <3>1. Opens(s, t, f.op, y) /\ f.op \notin s.used
      BY <1>1, <2>3, AttemptFacts
    <3>2. IsOp(x) /\ x.kind = "exec"
      BY NewOpFacts
    <3> HIDE DEF x
    <3>3. y.kind = "exec" /\ y.passes = 1
      BY <3>2, PassFacts
    <3> HIDE DEF y
    <3>4. y.passes >= 1
      BY <3>3
    <3> QED BY <1>1, <2>0, <2>1, <3>1, <3>3, <3>4, RefusalOpens
  <2> QED BY <2>2, <2>3
<1>2. CASE f.event = "OPERATION_RETURN" /\ P!ReturnOk(s, f) /\ t = P!Return(s, f)
  <2>1. /\ Closes(s, t, f.op) /\ s.open[f.op].kind = f.kind /\ Stays(s, t)
        /\ P!Completes(s, f) => t.hits = s.hits + 1
    BY <1>2, ReturnFacts
  <2>2. f.op \in DOMAIN s.open /\ f.kind = "exec"
    BY <2>1 DEF Closes, RefusalInv
  <2>3. P!Completes(s, f) /\ ~f.success /\ s.open[f.op].passes = 1
    BY <1>2, <2>2, ReturnKinds
  <2>4. t.hits = s.hits + 1 /\ t.phase = s.phase
    BY <2>1, <2>3 DEF Stays
  <2> QED BY <1>0, <1>2, <2>1, <2>3, <2>4, RefusalCloses
<1>3. /\ ~P!AllocOk(s, f) /\ ~P!CreatedOk(s, f) /\ ~P!NetworkPolicyOk(s, f) /\ ~P!CommitOk(s, f)
      /\ ~P!FilePolicyOk(s, f) /\ ~P!MappingPolicyOk(s, f) /\ ~P!FileAttemptOk(s, f) /\ ~P!ExitOk(s, f)
  BY <1>0 DEF P!AllocOk, P!CreatedOk, P!NetworkPolicyOk, P!CommitOk, P!FilePolicyOk, P!MappingPolicyOk,
              P!FileAttemptOk, P!ExitOk
<1> QED BY <1>1, <1>2, <1>3 DEF Handled

(* The cold start.                                                           *)
LEMMA LeftGrows ==
  ASSUME NEW l, NEW f, IsLog(l), NEW m, m = Lengthened(l, f), NEW u, NEW i \in 1 .. Len(l), Left(l, u, i)
  PROVE  Left(m, u, i)
<1>1. PICK j \in i + 1 .. Len(l) : l[j].event = "TASK_EXIT" /\ l[j].task = u /\ l[j].success
  BY DEF Left
<1>2. Len(l) \in Nat /\ Len(m) = Len(l) + 1
  BY AppendFacts
<1>3. j \in 1 .. Len(l) /\ j \in i + 1 .. Len(m)
  BY <1>1, <1>2
<1>4. m[j] = l[j]
  BY <1>3, AppendFacts
<1> QED BY <1>1, <1>3, <1>4 DEF Left

\* The same starts, in a longer log.
SameStarts(l, m) ==
  /\ P!Succeeded(m, "exec") = P!Succeeded(l, "exec")
  /\ P!Succeeded(l, "exec") \subseteq 1 .. Len(l)
  /\ \A i \in 1 .. Len(l) : m[i] = l[i]
  /\ \A i \in 1 .. Len(l) : \A u : Left(l, u, i) => Left(m, u, i)

\* A frame that is no successful exec of the plan's path leaves the starts as they are.
LEMMA NoStart ==
  ASSUME NEW s, NEW l, NEW f, NEW m, IsLog(l), m = Grown(s, l, f),
         ~Succeeds(l, f, "exec")
  PROVE  SameStarts(l, m)
<1>1. CASE m = l
  <2>1. P!Succeeded(l, "exec") \subseteq 1 .. Len(l)
    BY DEF P!Succeeded
  <2> QED BY <1>1, <2>1 DEF SameStarts
<1>2. CASE m = Lengthened(l, f)
  <2>1. P!Succeeded(m, "exec") = P!Succeeded(l, "exec") /\ P!Succeeded(l, "exec") \subseteq 1 .. Len(l)
    <3> DEFINE k == "exec"
    <3>1. ~Succeeds(l, f, k)
      OBVIOUS
    <3> HIDE DEF k
    <3>2. P!Succeeded(m, k) = P!Succeeded(l, k)
      BY <1>2, <3>1, SucceededFacts
    <3>3. P!Succeeded(l, k) \subseteq 1 .. Len(l)
      BY <1>2, SucceededFacts
    <3> QED BY <3>2, <3>3 DEF k
  <2>2. \A i \in 1 .. Len(l) : m[i] = l[i]
    BY <1>2, AppendFacts
  <2>3. \A i \in 1 .. Len(l) : \A u : Left(l, u, i) => Left(m, u, i)
    BY <1>2, LeftGrows
  <2> QED BY <2>1, <2>2, <2>3 DEF SameStarts
<1> QED BY <1>1, <1>2 DEF Grown

\* Neither a start nor the end of one who started.
LEMMA ColdAside ==
  ASSUME NEW s, NEW l, NEW t, NEW m, IsReducer(s), ColdInv(s, l), SameStarts(l, m),
         t.root = s.root, t.cold = s.cold, t.hits = s.hits,
         \A u \in s.cold : t.tasks[u].live = s.tasks[u].live
  PROVE  ColdInv(t, m)
<1> DEFINE S == P!Succeeded(l, "exec")
<1>1. /\ P!Succeeded(m, "exec") = S /\ \A i \in S : m[i] = l[i]
      /\ \A i \in S : \A u : Left(l, u, i) => Left(m, u, i)
  BY DEF SameStarts
<1>2. /\ \A i \in S : l[i].task \in s.cold
      /\ \A u \in s.cold : \E i \in S :
           /\ l[i].task = u
           /\ \A k \in S : l[k].task = u => k = i
           /\ u # s.root /\ ~s.tasks[u].live => Left(l, u, i)
      /\ s.hits = 0 => \A u \in Children(s) : s.tasks[u].live
      /\ s.hits = 1 => \E v \in Children(s) : \A u \in Children(s) : u # v => s.tasks[u].live
  BY DEF ColdInv
<1>3. Children(t) = Children(s) /\ Children(s) \subseteq s.cold
  BY DEF Children
<1> HIDE DEF S
<1>4. \A i \in S : m[i].task \in t.cold
  BY <1>1, <1>2
<1>5. ASSUME NEW u \in t.cold
      PROVE  \E i \in S : /\ m[i].task = u
                          /\ \A k \in S : m[k].task = u => k = i
                          /\ u # t.root /\ ~t.tasks[u].live => Left(m, u, i)
  <2>1. PICK i \in S : /\ l[i].task = u
                       /\ \A k \in S : l[k].task = u => k = i
                       /\ u # s.root /\ ~s.tasks[u].live => Left(l, u, i)
    BY <1>2, <1>5
  <2>2. t.tasks[u].live = s.tasks[u].live
    BY <1>5
  <2> QED BY <1>1, <2>1, <2>2
<1>6. t.hits = 0 => \A u \in Children(t) : t.tasks[u].live
  BY <1>2, <1>3
<1>7. t.hits = 1 => \E v \in Children(t) : \A u \in Children(t) : u # v => t.tasks[u].live
  BY <1>2, <1>3
<1> QED BY <1>1, <1>4, <1>5, <1>6, <1>7 DEF ColdInv

(* A child that started cold leaves.                                         *)
LEMMA ColdLeaves ==
  ASSUME NEW s, NEW l, NEW f, NEW t, NEW m, IsReducer(s), IsLog(l), ColdInv(s, l), s.phase = Cold,
         f.event = "TASK_EXIT", P!ExitOk(s, f), t = P!Exit(s, f), m = Lengthened(l, f),
         SameStarts(l, m), f.task \in s.cold
  PROVE  ColdInv(t, m)
<1> DEFINE S == P!Succeeded(l, "exec")
<1>0. /\ Stays(s, t) /\ t.cold = s.cold /\ t.hits = s.hits + 1 /\ f.success /\ f.task # s.root
      /\ \A u \in DOMAIN s.tasks : u # f.task => t.tasks[u].live = s.tasks[u].live
      /\ s.tasks[f.task].live /\ ~t.tasks[f.task].live
  BY ExitFacts
<1>1. /\ P!Succeeded(m, "exec") = S /\ \A i \in S : m[i] = l[i]
      /\ \A i \in S : \A u : Left(l, u, i) => Left(m, u, i)
      /\ S \subseteq 1 .. Len(l)
  BY DEF SameStarts
<1>2. /\ \A i \in S : l[i].task \in s.cold
      /\ \A u \in s.cold : \E i \in S :
           /\ l[i].task = u
           /\ \A k \in S : l[k].task = u => k = i
           /\ u # s.root /\ ~s.tasks[u].live => Left(l, u, i)
      /\ s.hits = 0 => \A u \in Children(s) : s.tasks[u].live
  BY DEF ColdInv
<1>3. t.root = s.root /\ Children(t) = Children(s) /\ Children(s) \subseteq s.cold
      /\ f.task \in Children(s)
  BY <1>0 DEF Children, Stays
<1>3a. s.cold \subseteq DOMAIN s.tasks /\ s.hits \in Nat
  BY DEF IsReducer
<1> HIDE DEF S
<1>4. \A i \in S : m[i].task \in t.cold
  BY <1>0, <1>1, <1>2
<1>5. ASSUME NEW u \in t.cold
      PROVE  \E i \in S : /\ m[i].task = u
                          /\ \A k \in S : m[k].task = u => k = i
                          /\ u # t.root /\ ~t.tasks[u].live => Left(m, u, i)
  <2>1. PICK i \in S : /\ l[i].task = u
                       /\ \A k \in S : l[k].task = u => k = i
                       /\ u # s.root /\ ~s.tasks[u].live => Left(l, u, i)
    BY <1>0, <1>2, <1>5
  <2>2. CASE u # f.task
    <3>1. t.tasks[u].live = s.tasks[u].live
      BY <1>0, <1>3a, <1>5, <2>2
    <3> QED BY <1>1, <1>3, <2>1, <3>1
  <2>3. CASE u = f.task
    <3>1. Len(l) \in Nat /\ Len(m) = Len(l) + 1 /\ m[Len(l) + 1] = f
      BY AppendFacts
    <3>2. Len(l) + 1 \in i + 1 .. Len(m)
      BY <1>1, <2>1, <3>1
    <3>3. Left(m, u, i)
      BY <1>0, <2>3, <3>1, <3>2 DEF Left
    <3> QED BY <1>1, <2>1, <3>3
  <2> QED BY <2>2, <2>3
<1>6. t.hits # 0
  BY <1>0, <1>3a
<1>7. t.hits = 1 => \E v \in Children(t) : \A u \in Children(t) : u # v => t.tasks[u].live
  <2>1. SUFFICES ASSUME t.hits = 1 PROVE \A u \in Children(s) : u # f.task => t.tasks[u].live
    BY <1>3
  <2>2. s.hits = 0
    BY <1>0, <1>3a, <2>1
  <2> QED BY <1>0, <1>2, <1>3, <1>3a, <2>2
<1> QED BY <1>1, <1>4, <1>5, <1>6, <1>7 DEF ColdInv

\* The parts of ColdInv.
LEMMA ColdFolds ==
  ASSUME NEW t, NEW m,
         \A i \in P!Succeeded(m, "exec") : m[i].task \in t.cold,
         \A u \in t.cold : \E i \in P!Succeeded(m, "exec") :
           /\ m[i].task = u
           /\ \A k \in P!Succeeded(m, "exec") : m[k].task = u => k = i
           /\ u # t.root /\ ~t.tasks[u].live => Left(m, u, i),
         t.hits = 0 => \A u \in Children(t) : t.tasks[u].live,
         t.hits = 1 => \E v \in Children(t) : \A u \in Children(t) : u # v => t.tasks[u].live
  PROVE  ColdInv(t, m)
BY DEF ColdInv

(* A task starts cold.                                                       *)
LEMMA ColdStarts ==
  ASSUME NEW s, NEW l, NEW f, NEW t, NEW m, IsReducer(s), IsLog(l), ColdInv(s, l),
         m = Lengthened(l, f), Succeeds(l, f, "exec"), Stays(s, t), t.cold = s.cold \cup {f.task},
         f.task \in DOMAIN s.tasks, s.tasks[f.task].live, f.task \notin s.cold,
         \A u \in DOMAIN s.tasks : t.tasks[u].live = s.tasks[u].live, t.hits = s.hits
  PROVE  ColdInv(t, m)
<1> DEFINE S == P!Succeeded(l, "exec")
           n == Len(l) + 1
<1>1. P!Succeeded(m, "exec") = S \cup {n} /\ S \subseteq 1 .. Len(l)
  <2> DEFINE k == "exec"
  <2>1. Succeeds(l, f, k)
    OBVIOUS
  <2> HIDE DEF k
  <2>2. P!Succeeded(m, k) = P!Succeeded(l, k) \cup {Len(l) + 1}
    BY <2>1, SucceededFacts
  <2>3. P!Succeeded(l, k) \subseteq 1 .. Len(l)
    BY SucceededFacts
  <2> QED BY <2>2, <2>3 DEF k
<1>1a. m[n] = f /\ n \notin 1 .. Len(l) /\ \A i \in 1 .. Len(l) : m[i] = l[i]
  BY AppendFacts
<1>1b. \A i \in 1 .. Len(l) : \A u : Left(l, u, i) => Left(m, u, i)
  BY LeftGrows
<1>2. /\ \A i \in S : l[i].task \in s.cold
      /\ \A u \in s.cold : \E i \in S :
           /\ l[i].task = u
           /\ \A k \in S : l[k].task = u => k = i
           /\ u # s.root /\ ~s.tasks[u].live => Left(l, u, i)
      /\ s.hits = 0 => \A u \in Children(s) : s.tasks[u].live
      /\ s.hits = 1 => \E v \in Children(s) : \A u \in Children(s) : u # v => s.tasks[u].live
  BY DEF ColdInv
<1>3. t.root = s.root /\ Children(t) \subseteq Children(s) \cup {f.task} /\ Children(s) \subseteq s.cold
      /\ Children(s) \subseteq Children(t)
  BY DEF Children, Stays
<1>3a. s.cold \subseteq DOMAIN s.tasks
  BY DEF IsReducer
<1> HIDE DEF S, n
<1>4. \A i \in S \cup {n} : m[i].task \in t.cold
  BY <1>1, <1>1a, <1>2
<1>5. ASSUME NEW u \in t.cold
      PROVE  \E i \in P!Succeeded(m, "exec") :
                          /\ m[i].task = u
                          /\ \A k \in P!Succeeded(m, "exec") : m[k].task = u => k = i
                          /\ u # t.root /\ ~t.tasks[u].live => Left(m, u, i)
  <2>1. CASE u \in s.cold
    <3>1. PICK i \in S : /\ l[i].task = u
                         /\ \A k \in S : l[k].task = u => k = i
                         /\ u # s.root /\ ~s.tasks[u].live => Left(l, u, i)
      BY <1>2, <2>1
    <3>2. t.tasks[u].live = s.tasks[u].live /\ u # f.task
      BY <1>3a, <2>1
    <3>3. i \in P!Succeeded(m, "exec") /\ m[i] = l[i] /\ i \in 1 .. Len(l)
      BY <1>1, <1>1a, <3>1
    <3>4. ASSUME NEW k \in P!Succeeded(m, "exec"), m[k].task = u PROVE k = i
      <4>1. k \in S
        BY <1>1, <1>1a, <3>2, <3>4
      <4> QED BY <1>1, <1>1a, <3>1, <3>4, <4>1
    <3>5. u # t.root /\ ~t.tasks[u].live => Left(m, u, i)
      BY <1>1b, <1>3, <3>1, <3>2, <3>3
    <3> QED BY <3>1, <3>3, <3>4, <3>5
  <2>2. CASE u = f.task
    <3>1. t.tasks[u].live
      BY <2>2
    <3>2. \A k \in S : m[k].task # u
      BY <1>1, <1>1a, <1>2, <2>2
    <3> QED BY <1>1, <1>1a, <2>2, <3>1, <3>2
  <2> QED BY <1>5, <2>1, <2>2
<1>6. t.hits = 0 => \A u \in Children(t) : t.tasks[u].live
  BY <1>2, <1>3, <1>3a
<1>7. t.hits = 1 => \E v \in Children(t) : \A u \in Children(t) : u # v => t.tasks[u].live
  BY <1>2, <1>3, <1>3a
<1>9. \A i \in P!Succeeded(m, "exec") : m[i].task \in t.cold
  BY <1>1, <1>4
<1>10. \A u \in t.cold : \E i \in P!Succeeded(m, "exec") :
           /\ m[i].task = u
           /\ \A k \in P!Succeeded(m, "exec") : m[k].task = u => k = i
           /\ u # t.root /\ ~t.tasks[u].live => Left(m, u, i)
  BY <1>5
<1> QED BY <1>6, <1>7, <1>9, <1>10, ColdFolds

\* Every frame of the cold start keeps its invariant.
LEMMA ColdStep ==
  ASSUME NEW s, NEW l, NEW f, NEW t, NEW m, IsReducer(s), LogInv(s, l), Handled(s, f, t),
         s.phase = Cold, ColdInv(s, l), m = Grown(s, l, f)
  PROVE  ColdInv(t, m)
<1>0. IsLog(l) /\ s.cold \subseteq DOMAIN s.tasks /\ Cold \notin Poison \cup Remote \cup Denied
      /\ Cold # Model /\ Cold # Jit
  BY PlanAssumption DEF LogInv, IsReducer
<1>1. CASE f.event \notin {"OPERATION_RETURN", "TASK_EXIT"}
  <2>1. Stays(s, t) /\ Counts(s, t) /\ Lives(s, t)
    BY <1>1, AsideFacts
  <2>2. SameStarts(l, m)
    <3>1. ~Succeeds(l, f, "exec")
      BY <1>1 DEF Succeeds
    <3> QED BY <1>0, <3>1, NoStart
  <2>3. /\ t.root = s.root /\ t.cold = s.cold /\ t.hits = s.hits
        /\ \A u \in s.cold : t.tasks[u].live = s.tasks[u].live
    BY <1>0, <2>1 DEF Stays, Counts, Lives
  <2> QED BY <2>2, <2>3, ColdAside
<1>2. CASE f.event = "OPERATION_RETURN" /\ P!ReturnOk(s, f) /\ t = P!Return(s, f)
  <2>1. /\ Stays(s, t) /\ Closes(s, t, f.op) /\ s.open[f.op].kind = f.kind
        /\ \A u \in DOMAIN s.tasks : t.tasks[u].live = s.tasks[u].live
        /\ ~P!Completes(s, f) => t.hits = s.hits
        /\ ~Starts(s, f) => t.cold = s.cold
    BY <1>2, ReturnFacts
  <2>2. f.op \in DOMAIN s.open
    BY <2>1 DEF Closes
  <2>3. f.kind = "exec" => (s.open[f.op].path = "plan" <=> Attempted(l, f.op))
    BY <2>1, <2>2 DEF LogInv, Telling
  <2>4. CASE Starts(s, f)
    <3>1. f.kind = "exec" /\ Attempted(l, f.op)
      BY <2>3, <2>4 DEF Starts
    <3>2. m = Lengthened(l, f)
      BY <1>2, <3>1, BearsFacts DEF Grown
    <3>3. /\ t.cold = s.cold \cup {f.task} /\ f.task \in DOMAIN s.tasks /\ s.tasks[f.task].live
      BY <1>2, <2>4, ReturnFacts
    <3>4. f.task \notin s.cold /\ (P!Completes(s, f) <=> s.phase \in Denied)
      BY <1>2, <2>4, ReturnKinds DEF Starts
    <3>5. t.hits = s.hits
      BY <1>0, <2>1, <3>4
    <3>6. Succeeds(l, f, "exec")
      BY <1>2, <2>4, <3>1 DEF Succeeds, Starts
    <3> QED BY <1>0, <2>1, <3>2, <3>3, <3>4, <3>5, <3>6, ColdStarts
  <2>5. CASE ~Starts(s, f)
    <3>1. ~Succeeds(l, f, "exec")
      BY <2>3, <2>5 DEF Starts, Succeeds
    <3>2. SameStarts(l, m)
      BY <1>0, <3>1, NoStart
    <3>3. ~P!Completes(s, f)
      BY <1>0, <1>2, ReturnKinds DEF Mapping
    <3> QED BY <1>0, <2>1, <2>5, <3>2, <3>3, ColdAside DEF Stays
  <2> QED BY <2>4, <2>5
<1>3. CASE f.event = "TASK_EXIT" /\ P!ExitOk(s, f) /\ t = P!Exit(s, f)
  <2>1. m = Lengthened(l, f)
    BY <1>3, BearsFacts DEF Grown
  <2>2. SameStarts(l, m)
    <3>1. ~Succeeds(l, f, "exec")
      BY <1>3 DEF Succeeds
    <3> QED BY <1>0, <3>1, NoStart
  <2>3. CASE f.task \in s.cold
    BY <1>0, <1>3, <2>1, <2>2, <2>3, ColdLeaves
  <2>4. CASE f.task \notin s.cold
    <3>1. /\ Stays(s, t) /\ t.cold = s.cold /\ t.hits = s.hits
          /\ \A u \in DOMAIN s.tasks : u # f.task => t.tasks[u].live = s.tasks[u].live
      BY <1>3, <2>4, ExitFacts
    <3>2. \A u \in s.cold : t.tasks[u].live = s.tasks[u].live
      BY <1>0, <2>4, <3>1
    <3> QED BY <2>2, <3>1, <3>2, ColdAside DEF Stays
  <2> QED BY <2>3, <2>4
<1> QED BY <1>1, <1>2, <1>3 DEF Handled

(* The file opened once.                                                     *)
LEMMA SameOpened ==
  ASSUME NEW s, NEW l, NEW f, NEW m, IsLog(l), m = Grown(s, l, f), NEW kind, ~Succeeds(l, f, kind)
  PROVE  P!Succeeded(m, kind) = P!Succeeded(l, kind) /\ 1 .. Len(l) \subseteq 1 .. Len(m)
<1>1. CASE m = l
  BY <1>1
<1>2. CASE m = Lengthened(l, f)
  <2>1. P!Succeeded(m, kind) = P!Succeeded(l, kind)
    BY <1>2, SucceededFacts
  <2>2. 1 .. Len(m) = (1 .. Len(l)) \cup {Len(l) + 1}
    BY <1>2, AppendFacts
  <2> QED BY <2>1, <2>2
<1> QED BY <1>1, <1>2 DEF Grown

\* A frame that opens nothing of the plan's, and one that does.
LEMMA OpenedAside ==
  ASSUME NEW s, NEW l, NEW t, NEW m, OpenedInv(s, l), t.hits = s.hits,
         P!Succeeded(m, "file_open") = P!Succeeded(l, "file_open"), 1 .. Len(l) \subseteq 1 .. Len(m)
  PROVE  OpenedInv(t, m)
<1>1. t.hits = 0 => P!Succeeded(m, "file_open") = {}
  BY DEF OpenedInv
<1>2. ASSUME t.hits = 1 PROVE \E i \in 1 .. Len(m) : P!Succeeded(m, "file_open") = {i}
  <2>1. PICK i \in 1 .. Len(l) : P!Succeeded(l, "file_open") = {i}
    BY <1>2 DEF OpenedInv
  <2>2. P!Succeeded(m, "file_open") = {i} /\ i \in 1 .. Len(m)
    BY <2>1
  <2> QED BY <2>2
<1> QED BY <1>1, <1>2 DEF OpenedInv

LEMMA OpenedHit ==
  ASSUME NEW s, NEW l, NEW f, NEW t, NEW m, IsLog(l), s.hits \in Nat, OpenedInv(s, l),
         t.hits = s.hits + 1, m = Lengthened(l, f), Succeeds(l, f, "file_open")
  PROVE  OpenedInv(t, m)
<1>1. t.hits # 0 /\ (t.hits = 1 => s.hits = 0)
  OBVIOUS
<1>2. ASSUME t.hits = 1 PROVE \E i \in 1 .. Len(m) : P!Succeeded(m, "file_open") = {i}
  <2> DEFINE k == "file_open"
  <2>1. P!Succeeded(l, k) = {}
    BY <1>1, <1>2 DEF OpenedInv
  <2>2. Succeeds(l, f, k)
    OBVIOUS
  <2> HIDE DEF k
  <2>3. P!Succeeded(m, k) = P!Succeeded(l, k) \cup {Len(l) + 1}
    BY <2>2, SucceededFacts
  <2>4. P!Succeeded(m, k) = {Len(l) + 1}
    BY <2>1, <2>3
  <2>5. Len(l) + 1 \in 1 .. Len(m)
    BY AppendFacts
  <2> QED BY <2>4, <2>5 DEF k
<1> QED BY <1>1, <1>2 DEF OpenedInv

\* The frame opens the plan's file, or has nothing to do with it.
Hits(s, l, f, t, m) == t.hits = s.hits + 1 /\ m = Lengthened(l, f) /\ Succeeds(l, f, "file_open")
Misses(s, l, f, t) == t.hits = s.hits /\ ~Succeeds(l, f, "file_open")

\* A return counts when it opens the plan's file, and only then.
LEMMA OpeningReturns ==
  ASSUME NEW s, NEW l, NEW f, NEW t, NEW m, IsReducer(s), LogInv(s, l), s.phase \in {Model, Jit},
         f.event = "OPERATION_RETURN", P!ReturnOk(s, f), t = P!Return(s, f), m = Grown(s, l, f)
  PROVE  /\ Hits(s, l, f, t, m) \/ Misses(s, l, f, t)
         /\ Hits(s, l, f, t, m) => f.kind = "file_open" /\ s.open[f.op].path = "plan" /\ f.success
         /\ Misses(s, l, f, t) => ~(f.kind = "file_open" /\ s.open[f.op].path = "plan" /\ f.success)
<1>0. s.phase \notin Poison \cup Remote \cup Denied
  BY PlanAssumption
<1>1. /\ Closes(s, t, f.op) /\ s.open[f.op].kind = f.kind
      /\ P!Completes(s, f) => t.hits = s.hits + 1
      /\ ~P!Completes(s, f) => t.hits = s.hits
  BY ReturnFacts
<1>2. f.op \in DOMAIN s.open
  BY <1>1 DEF Closes
<1>3. CASE f.kind = "file_open"
  <2>1. s.open[f.op].path = "plan" <=> Attempted(l, f.op)
    BY <1>1, <1>2, <1>3 DEF LogInv, Telling
  <2>2. P!Completes(s, f) <=> (s.open[f.op].path = "plan" /\ f.success)
    <3>1. s.open[f.op].rows # 0
      BY <1>0, <1>3, ReturnKinds
    <3> QED BY <1>3, <3>1, ReturnKinds
  <2>3. Succeeds(l, f, "file_open") <=> (s.open[f.op].path = "plan" /\ f.success)
    BY <1>3, <2>1 DEF Succeeds
  <2>4. m = Lengthened(l, f)
    BY <1>3, BearsFacts DEF Grown
  <2> QED BY <1>1, <1>3, <2>2, <2>3, <2>4 DEF Hits, Misses
<1>4. CASE f.kind # "file_open"
  <2>1. ~P!Completes(s, f)
    BY <1>0, <1>4, ReturnKinds DEF Mapping
  <2>2. ~Succeeds(l, f, "file_open")
    BY <1>4 DEF Succeeds
  <2> QED BY <1>1, <1>4, <2>1, <2>2 DEF Hits, Misses
<1> QED BY <1>3, <1>4

\* No other frame counts.
LEMMA Opening ==
  ASSUME NEW s, NEW l, NEW f, NEW t, NEW m, IsReducer(s), LogInv(s, l), Handled(s, f, t),
         s.phase \in {Model, Jit}, m = Grown(s, l, f)
  PROVE  Hits(s, l, f, t, m) \/ Misses(s, l, f, t)
<1>1. CASE f.event \notin {"OPERATION_RETURN", "TASK_EXIT"}
  <2>1. Counts(s, t)
    BY <1>1, AsideFacts
  <2> QED BY <1>1, <2>1 DEF Counts, Misses, Succeeds
<1>2. CASE f.event = "OPERATION_RETURN" /\ P!ReturnOk(s, f) /\ t = P!Return(s, f)
  BY <1>2, OpeningReturns
<1>3. CASE f.event = "TASK_EXIT" /\ P!ExitOk(s, f) /\ t = P!Exit(s, f)
  <2>1. f.task \in s.cold => t.hits = s.hits + 1 /\ s.phase = Cold
    BY <1>3, ExitFacts
  <2>2. f.task \notin s.cold => t.hits = s.hits
    BY <1>3, ExitFacts
  <2>3. ~Succeeds(l, f, "file_open")
    BY <1>3 DEF Succeeds
  <2> QED BY <2>1, <2>2, <2>3, PlanAssumption DEF Misses
<1> QED BY <1>1, <1>2, <1>3 DEF Handled

\* Every frame keeps the count of the opened file.
LEMMA OpenedStep ==
  ASSUME NEW s, NEW l, NEW f, NEW t, NEW m, IsReducer(s), LogInv(s, l), Handled(s, f, t),
         s.phase \in {Model, Jit}, OpenedInv(s, l), m = Grown(s, l, f)
  PROVE  OpenedInv(t, m)
<1>0. IsLog(l) /\ s.hits \in Nat
  BY DEF LogInv, IsReducer
<1>1. CASE Hits(s, l, f, t, m)
  BY <1>0, <1>1, OpenedHit DEF Hits
<1>2. CASE Misses(s, l, f, t)
  <2> DEFINE k == "file_open"
  <2>1. ~Succeeds(l, f, k) /\ t.hits = s.hits
    BY <1>2 DEF Misses
  <2> HIDE DEF k
  <2>2. P!Succeeded(m, k) = P!Succeeded(l, k) /\ 1 .. Len(l) \subseteq 1 .. Len(m)
    BY <1>0, <2>1, SameOpened
  <2> QED BY <2>1, <2>2, OpenedAside DEF k
<1> QED BY <1>1, <1>2, Opening

(* The jit object: where it was looked up.                                   *)
LEMMA LookedUpGrows ==
  ASSUME NEW s, NEW l, NEW f, NEW m, IsLog(l), m = Grown(s, l, f), NEW x, LookedUp(l, x)
  PROVE  LookedUp(m, x)
<1>1. CASE m = l
  BY <1>1
<1>2. CASE m = Lengthened(l, f)
  <2>1. PICK d \in 1 .. Len(l) : l[d].event = "FILE_POLICY" /\ P!OfThePlan(l, d) /\ l[d].object = x
    BY DEF LookedUp
  <2>2. d \in 1 .. Len(m) /\ m[d] = l[d]
    BY <1>2, AppendFacts
  <2>3. P!OfThePlan(m, d)
    BY <1>2, <2>1, OfThePlanFacts
  <2> QED BY <2>1, <2>2, <2>3 DEF LookedUp
<1> QED BY <1>1, <1>2 DEF Grown

\* The remembered object was looked up at the plan's path.
LEMMA JitObjectStep ==
  ASSUME NEW s, NEW l, NEW f, NEW t, NEW m, IsReducer(s), LogInv(s, l), Handled(s, f, t),
         s.phase = Jit, JitObject(s, l), m = Grown(s, l, f)
  PROVE  JitObject(t, m)
<1>0. IsLog(l)
  BY DEF LogInv
<1>1. CASE t.object = s.object
  <2>1. t.object # None => LookedUp(l, t.object)
    BY <1>1 DEF JitObject
  <2>2. t.object # None => LookedUp(m, t.object)
    BY <1>0, <2>1, LookedUpGrows
  <2> QED BY <2>2 DEF JitObject
<1>2. CASE f.event = "FILE_POLICY" /\ P!FilePolicyOk(s, f) /\ t = P!FilePolicy(s, f)
  <2>1. /\ s.open[f.op].kind = "file_open" /\ Becomes(s, t, f.op, RowOf(s.open[f.op], f))
        /\ t.object = IF s.phase = Jit /\ s.open[f.op].path = "plan" THEN f.object ELSE s.object
    BY <1>2, FilePolicyFacts
  <2>2. CASE s.open[f.op].path = "plan"
    <3>1. f.op \in DOMAIN s.open
      BY <2>1 DEF Becomes
    <3>2. Attempted(l, f.op)
      BY <2>1, <2>2, <3>1 DEF LogInv, Telling
    <3>3. m = Lengthened(l, f)
      BY <1>2, BearsFacts DEF Grown
    <3>4. Len(l) + 1 \in 1 .. Len(m) /\ m[Len(l) + 1] = f
      BY <1>0, <3>3, AppendFacts
    <3>5. P!OfThePlan(m, Len(l) + 1)
      BY <1>0, <3>2, <3>3, OfThePlanFacts
    <3>6. LookedUp(m, f.object)
      BY <1>2, <3>4, <3>5 DEF LookedUp
    <3>7. t.object = f.object
      BY <2>1, <2>2
    <3> QED BY <3>6, <3>7 DEF JitObject
  <2>3. CASE s.open[f.op].path # "plan"
    BY <1>1, <2>1, <2>3
  <2> QED BY <2>2, <2>3
<1>3. CASE f.event \notin {"OPERATION_RETURN", "TASK_EXIT", "FILE_POLICY"}
  <2>1. t.object = s.object
    BY <1>3, AsideFacts
  <2> QED BY <1>1, <2>1
<1>4. CASE f.event = "OPERATION_RETURN" /\ P!ReturnOk(s, f) /\ t = P!Return(s, f)
  <2>1. t.object = s.object
    BY <1>4, ReturnFacts
  <2> QED BY <1>1, <2>1
<1>5. CASE f.event = "TASK_EXIT" /\ P!ExitOk(s, f) /\ t = P!Exit(s, f)
  <2>1. t.object = s.object
    BY <1>5, ExitFacts
  <2> QED BY <1>1, <2>1
<1> QED BY <1>2, <1>3, <1>4, <1>5 DEF Handled

(* What is about to map it.                                                  *)
LEMMA OthersToo ==
  ASSUME NEW s, NEW l, NEW f, NEW m, IsLog(l), m = Grown(s, l, f), NEW o, NEW x, RowsTold(l, o, x),
         P!Bears(s.phase, f) => f.op # o
  PROVE  RowsTold(m, o, x)
<1>1. CASE m = l
  BY <1>1
<1>2. CASE P!Bears(s.phase, f) /\ m = Lengthened(l, f)
  <2>1. /\ 1 .. Len(m) = (1 .. Len(l)) \cup {Len(l) + 1} /\ m[Len(l) + 1] = f
        /\ \A i \in 1 .. Len(l) : m[i] = l[i]
    BY <1>2, AppendFacts
  <2> QED BY <1>2, <2>1 DEF RowsTold
<1> QED BY <1>1, <1>2 DEF Grown

\* The rows of a mapping are in the log.
LEMMA RowTold ==
  ASSUME NEW l, NEW f, NEW m, IsLog(l), m = Lengthened(l, f), NEW y,
         f.object \in y.objects, f.deny => y.denied,
         \A j \in 1 .. Len(l) : l[j].op = f.op => l[j].object \in y.objects /\ ~l[j].deny
  PROVE  RowsTold(m, f.op, y)
<1>1. /\ 1 .. Len(m) = (1 .. Len(l)) \cup {Len(l) + 1} /\ m[Len(l) + 1] = f
      /\ \A i \in 1 .. Len(l) : m[i] = l[i]
  BY AppendFacts
<1> QED BY <1>1 DEF RowsTold

(* Only a mapping policy touches an operation that maps.                     *)
LEMMA NoOtherMaps ==
  ASSUME NEW s, NEW f, NEW t, IsReducer(s), Handled(s, f, t),
         f.event \notin {"MAPPING_POLICY", "TASK_EXIT"}, f.op \in DOMAIN t.open
  PROVE  t.open[f.op].kind \notin Mapping
<1>1. CASE f.event = "TASK_ALLOC_ATTEMPT" /\ P!AllocOk(s, f) /\ t = P!Alloc(s, f)
  <2> DEFINE x == P!NewOp(f, "task_alloc")
  <2>1. f.op \notin s.used /\ t = P!Mint(s, f, "task_alloc")
    BY <1>1 DEF P!AllocOk, P!CanMint, P!Alloc
  <2>2. Opens(s, t, f.op, x)
    BY <2>1, MintFacts
  <2>3. x.kind = "task_alloc"
    BY NewOpFacts
  <2>4. t.open[f.op] = x
    BY <2>2 DEF Opens
  <2> HIDE DEF x
  <2> QED BY <2>3, <2>4 DEF Mapping
<1>2. CASE f.event = "TASK_CREATED" /\ P!CreatedOk(s, f) /\ t = P!Created(s, f)
  <2>1. Closes(s, t, f.op)
    BY <1>2, CreatedFacts
  <2>2. f.op \notin DOMAIN t.open
    BY <2>1 DEF Closes
  <2> QED BY <2>2
<1>3. CASE f.event = "EXEC_ATTEMPT" /\ P!AttemptOk(s, f) /\ t = P!Attempt(s, f)
  <2>1. CASE f.op \in DOMAIN s.open
    <3> DEFINE y == [s.open[f.op] EXCEPT !.passes = s.open[f.op].passes + 1]
    <3>1. Becomes(s, t, f.op, y) /\ s.open[f.op].kind = "exec"
      BY <1>3, <2>1, AttemptFacts
    <3>2. IsOp(s.open[f.op]) /\ s.open[f.op].passes + 1 \in Nat
      BY <2>1 DEF IsReducer, IsOp
    <3>3. y.kind = "exec"
      BY <3>1, <3>2, PassFacts
    <3>4. t.open[f.op] = y
      BY <3>1 DEF Becomes
    <3> HIDE DEF y
    <3> QED BY <3>3, <3>4 DEF Mapping
  <2>2. CASE f.op \notin DOMAIN s.open
    <3> DEFINE x == P!NewOp(f, "exec")
               y == [x EXCEPT !.passes = 1]
    <3>1. Opens(s, t, f.op, y)
      BY <1>3, <2>2, AttemptFacts
    <3>2. IsOp(x) /\ x.kind = "exec"
      BY NewOpFacts
    <3> HIDE DEF x
    <3>3. y.kind = "exec"
      BY <3>2, PassFacts
    <3>4. t.open[f.op] = y
      BY <3>1 DEF Opens
    <3> HIDE DEF y
    <3> QED BY <3>3, <3>4 DEF Mapping
  <2> QED BY <2>1, <2>2
<1>4. CASE f.event = "EXEC_COMMIT" /\ P!CommitOk(s, f) /\ t = P!Commit(s, f)
  <2>2. PICK y : Becomes(s, t, f.op, y) /\ y.kind = "exec"
    BY <1>4, CommitFacts
  <2> QED BY <2>2 DEF Becomes, Mapping
<1>5. CASE f.event = "FILE_OPEN_ATTEMPT" /\ P!FileAttemptOk(s, f) /\ t = P!Mint(s, f, "file_open")
  <2> DEFINE x == P!NewOp(f, "file_open")
  <2>1. f.op \notin s.used
    BY <1>5 DEF P!FileAttemptOk, P!CanMint
  <2>2. Opens(s, t, f.op, x)
    BY <1>5, <2>1, MintFacts
  <2>3. x.kind = "file_open"
    BY NewOpFacts
  <2>4. t.open[f.op] = x
    BY <2>2 DEF Opens
  <2> HIDE DEF x
  <2> QED BY <2>3, <2>4 DEF Mapping
<1>6. CASE f.event = "FILE_POLICY" /\ P!FilePolicyOk(s, f) /\ t = P!FilePolicy(s, f)
  <2> DEFINE y == RowOf(s.open[f.op], f)
  <2>1. Becomes(s, t, f.op, y) /\ s.open[f.op].kind = "file_open"
    BY <1>6, FilePolicyFacts
  <2>2. IsOp(s.open[f.op])
    BY <2>1 DEF Becomes, IsReducer
  <2>3. y.kind = "file_open"
    BY <2>1, <2>2, RowIsOp
  <2>4. t.open[f.op] = y
    BY <2>1 DEF Becomes
  <2> HIDE DEF y
  <2> QED BY <2>3, <2>4 DEF Mapping
<1>8. CASE f.event = "NETWORK_POLICY" /\ P!NetworkPolicyOk(s, f) /\ t = P!NetworkPolicy(s, f)
  <2> DEFINE x == P!NewOp(f, "connect")
             y == RowOf(x, f)
  <2>1. f.op \notin s.used /\ t = P!Row(P!Mint(s, f, "connect"), f)
    BY <1>8 DEF P!NetworkPolicyOk, P!CanMint, P!NetworkPolicy
  <2>2. Opens(s, t, f.op, y)
    BY <2>1, MintRowFacts
  <2>3. IsOp(x) /\ x.kind = "connect"
    BY NewOpFacts
  <2> HIDE DEF x
  <2>4. y.kind = "connect"
    BY <2>3, RowIsOp
  <2>5. t.open[f.op] = y
    BY <2>2 DEF Opens
  <2> HIDE DEF y
  <2> QED BY <2>4, <2>5 DEF Mapping
<1>9. CASE f.event = "OPERATION_RETURN" /\ P!ReturnOk(s, f) /\ t = P!Return(s, f)
  <2>1. Closes(s, t, f.op)
    BY <1>9, ReturnFacts
  <2>2. f.op \notin DOMAIN t.open
    BY <2>1 DEF Closes
  <2> QED BY <2>2
<1> QED BY <1>1, <1>2, <1>3, <1>4, <1>5, <1>6, <1>8, <1>9 DEF Handled

\* Every frame keeps the rows of the mappings.
LEMMA JitRowsStep ==
  ASSUME NEW s, NEW l, NEW f, NEW t, NEW m, IsReducer(s), LogInv(s, l), Handled(s, f, t),
         s.phase = Jit, JitRows(s, l), m = Grown(s, l, f)
  PROVE  JitRows(t, m)
<1>0. IsLog(l) /\ DOMAIN s.open \subseteq s.used
      /\ \A i \in 1 .. Len(l) : l[i].op \in s.used
  BY PlanAssumption DEF LogInv, IsReducer
<1>1. OpStep(s, t, f)
  BY HandledOpStep
<1>2. SUFFICES ASSUME NEW o \in DOMAIN t.open, t.open[o].kind \in Mapping
               PROVE  RowsTold(m, o, t.open[o])
  BY DEF JitRows
<1>3. CASE o # f.op
  <2>1. o \in DOMAIN s.open /\ t.open[o] = s.open[o]
    BY <1>1, <1>3 DEF OpStep
  <2>2. RowsTold(l, o, t.open[o])
    BY <1>2, <2>1 DEF JitRows
  <2> QED BY <1>0, <1>3, <2>2, OthersToo
<1>4. CASE f.event = "TASK_EXIT" /\ P!ExitOk(s, f) /\ t = P!Exit(s, f)
  <2>1. t.open = s.open
    BY <1>4, ExitFacts
  <2>2. RowsTold(l, o, t.open[o])
    BY <1>2, <2>1 DEF JitRows
  <2>3. ~P!Bears(s.phase, f)
    BY <1>4, BearsFacts
  <2> QED BY <1>0, <2>2, <2>3, OthersToo
<1>5. CASE o = f.op /\ f.event = "MAPPING_POLICY" /\ P!MappingPolicyOk(s, f) /\ t = P!MappingPolicy(s, f)
  <2>0. m = Lengthened(l, f)
    BY <1>5, BearsFacts DEF Grown
  <2>1. CASE f.op \in DOMAIN s.open
    <3> DEFINE x == s.open[f.op]
               y == RowOf(x, f)
    <3>1. Becomes(s, t, f.op, y) /\ x.kind = "mprotect" /\ ~x.denied
      BY <1>5, <2>1, MappingPolicyFacts
    <3>2. IsOp(x) /\ RowsTold(l, f.op, x)
      BY <2>1, <3>1 DEF IsReducer, JitRows, Mapping
    <3>3. t.open[f.op] = y
      BY <3>1 DEF Becomes
    <3> HIDE DEF x
    <3>4. y.denied = f.deny /\ y.objects = x.objects \cup {f.object}
      BY <3>2, RowIsOp
    <3> HIDE DEF y
    <3>5. \A j \in 1 .. Len(l) : l[j].op = f.op => l[j].object \in y.objects /\ ~l[j].deny
      BY <3>1, <3>2, <3>4 DEF RowsTold
    <3>6. f.object \in y.objects /\ (f.deny => y.denied)
      BY <3>4
    <3>7. RowsTold(m, f.op, y)
      BY <1>0, <2>0, <3>5, <3>6, RowTold
    <3> QED BY <1>5, <3>3, <3>7
  <2>2. CASE f.op \notin DOMAIN s.open
    <3> DEFINE x == P!NewOp(f, f.kind)
               y == RowOf(x, f)
    <3>1. Opens(s, t, f.op, y) /\ f.op \notin s.used
      BY <1>5, <2>2, MappingPolicyFacts
    <3>2. IsOp(x)
      BY NewOpFacts
    <3>3. t.open[f.op] = y
      BY <3>1 DEF Opens
    <3> HIDE DEF x
    <3>4. y.denied = f.deny /\ y.objects = x.objects \cup {f.object}
      BY <3>2, RowIsOp
    <3> HIDE DEF y
    <3>5. \A j \in 1 .. Len(l) : l[j].op = f.op => l[j].object \in y.objects /\ ~l[j].deny
      BY <1>0, <3>1
    <3>6. f.object \in y.objects /\ (f.deny => y.denied)
      BY <3>4
    <3>7. RowsTold(m, f.op, y)
      BY <1>0, <2>0, <3>5, <3>6, RowTold
    <3> QED BY <1>5, <3>3, <3>7
  <2> QED BY <2>1, <2>2
<1>6. CASE o = f.op /\ f.event \notin {"MAPPING_POLICY", "TASK_EXIT"}
  BY <1>2, <1>6, NoOtherMaps
<1> QED BY <1>3, <1>4, <1>5, <1>6 DEF Handled

(* How far it has got.                                                       *)
LEMMA MappedReturns ==
  ASSUME NEW l, NEW f, NEW m, IsLog(l), m = Lengthened(l, f), NEW x, NEW y, NEW kind,
         RowsTold(l, f.op, x), x.objects = {y}, LookedUp(l, y), ~x.denied,
         f.event = "OPERATION_RETURN", f.kind = kind, f.success
  PROVE  Len(l) + 1 \in P!Mapped(m, kind)
<1> DEFINE n == Len(l) + 1
<1>1. /\ n \in 1 .. Len(m) /\ m[n] = f /\ 1 .. n - 1 = 1 .. Len(l)
      /\ \A i \in 1 .. Len(l) : m[i] = l[i]
  BY AppendFacts
<1> HIDE DEF n
<1>2. P!Returns(m, n, kind)
  BY <1>1 DEF P!Returns
<1>3. PICK d \in 1 .. Len(l) : l[d].event = "FILE_POLICY" /\ P!OfThePlan(l, d) /\ l[d].object = y
  BY DEF LookedUp
<1>4. P!OfThePlan(m, d)
  BY <1>3, OfThePlanFacts
<1>5. m[d].event = "FILE_POLICY" /\ m[d].object = y
  BY <1>1, <1>3
<1>6. \A j \in 1 .. Len(l) : l[j].op = f.op => l[j].object = y /\ ~l[j].deny
  BY DEF RowsTold
<1>7. \A j \in 1 .. n - 1 : m[j].op = m[n].op => m[j].object = m[d].object /\ ~m[j].deny
  BY <1>1, <1>5, <1>6
<1>8. d \in 1 .. n - 1
  BY <1>1, <1>3
<1>9. n \in P!Mapped(m, kind)
  BY <1>1, <1>2, <1>4, <1>5, <1>7, <1>8 DEF P!Mapped
<1> QED BY <1>9 DEF n

\* Logged or not, a frame leaves what is mapped.
LEMMA MappedKeeps ==
  ASSUME NEW s, NEW l, NEW f, NEW m, IsLog(l), m = Grown(s, l, f), NEW kind
  PROVE  P!Mapped(l, kind) \subseteq P!Mapped(m, kind)
<1>1. CASE m = l
  BY <1>1
<1>2. CASE m = Lengthened(l, f)
  BY <1>2, MappedGrows
<1> QED BY <1>1, <1>2 DEF Grown

\* A frame that gets the object no further; the one that opens the file; and one that maps.
LEMMA OrderAside ==
  ASSUME NEW s, NEW l, NEW t, NEW m, JitOrder(s, l), t.hits = s.hits, t.jit = s.jit,
         P!Succeeded(m, "file_open") = P!Succeeded(l, "file_open"),
         P!Mapped(l, "mmap") \subseteq P!Mapped(m, "mmap"),
         P!Mapped(l, "mprotect") \subseteq P!Mapped(m, "mprotect")
  PROVE  JitOrder(t, m)
<1>1. t.jit >= 1 => t.hits >= 1
  BY DEF JitOrder
<1>2. ASSUME t.hits = 1, NEW i \in P!Succeeded(m, "file_open")
      PROVE  /\ t.jit = 2 => \E j \in P!Mapped(m, "mmap") : i < j
             /\ t.jit = 3 => \E j \in P!Mapped(m, "mmap"), k \in P!Mapped(m, "mprotect") : i < j /\ j < k
  <2>1. /\ s.jit = 2 => \E j \in P!Mapped(l, "mmap") : i < j
        /\ s.jit = 3 => \E j \in P!Mapped(l, "mmap"), k \in P!Mapped(l, "mprotect") : i < j /\ j < k
    BY <1>2 DEF JitOrder
  <2> QED BY <2>1
<1> QED BY <1>1, <1>2 DEF JitOrder

LEMMA OrderHit ==
  ASSUME NEW s, NEW l, NEW t, NEW m, JitOrder(s, l), s.hits \in Nat, t.hits = s.hits + 1, t.jit = 1
  PROVE  JitOrder(t, m)
BY DEF JitOrder

LEMMA OrderMaps ==
  ASSUME NEW s, NEW l, NEW t, NEW m, NEW n, IsLog(l), JitOrder(s, l), t.hits = s.hits,
         s.hits \in Nat, n = Len(l) + 1,
         P!Succeeded(m, "file_open") = P!Succeeded(l, "file_open"),
         P!Mapped(l, "mmap") \subseteq P!Mapped(m, "mmap"),
         \/ s.jit = 1 /\ t.jit = 2 /\ n \in P!Mapped(m, "mmap")
         \/ s.jit = 2 /\ t.jit = 3 /\ n \in P!Mapped(m, "mprotect")
  PROVE  JitOrder(t, m)
<1>0. Len(l) \in Nat
  BY AppendFacts
<1>1. t.jit >= 1 => t.hits >= 1
  BY DEF JitOrder
<1>2. ASSUME t.hits = 1, NEW i \in P!Succeeded(m, "file_open")
      PROVE  /\ t.jit = 2 => \E j \in P!Mapped(m, "mmap") : i < j
             /\ t.jit = 3 => \E j \in P!Mapped(m, "mmap"), k \in P!Mapped(m, "mprotect") : i < j /\ j < k
  <2>1. i \in 1 .. Len(l)
    BY <1>2 DEF P!Succeeded
  <2>2. CASE s.jit = 1 /\ t.jit = 2 /\ n \in P!Mapped(m, "mmap")
    <3>1. i < n
      BY <1>0, <2>1
    <3> QED BY <2>2, <3>1
  <2>3. CASE s.jit = 2 /\ t.jit = 3 /\ n \in P!Mapped(m, "mprotect")
    <3>1. PICK j \in P!Mapped(l, "mmap") : i < j
      BY <1>2, <2>3 DEF JitOrder
    <3>2. j \in 1 .. Len(l)
      BY <3>1 DEF P!Mapped
    <3>3. j < n
      BY <1>0, <3>2
    <3>4. j \in P!Mapped(m, "mmap")
      BY <3>1
    <3> QED BY <2>3, <3>1, <3>3, <3>4
  <2> QED BY <2>2, <2>3
<1> QED BY <1>1, <1>2 DEF JitOrder

(* A return from the mapping of the object, and any other.                   *)
Maps(s, f) ==
  /\ f.kind \in Mapping /\ f.success /\ s.object # None /\ s.open[f.op].objects = {s.object}

\* What each return does to the stage of the object.
LEMMA StageFacts ==
  ASSUME NEW s, NEW f, s.phase = Jit
  PROVE  /\ f.kind = "file_open" /\ s.open[f.op].path = "plan" /\ f.success => P!JitStage(s, f) = 1
         /\ ~(f.kind = "file_open" /\ s.open[f.op].path = "plan" /\ f.success) /\ ~Maps(s, f) =>
              P!JitStage(s, f) = s.jit
         /\ Maps(s, f) /\ f.kind = "mmap" => P!JitStage(s, f) = 2
         /\ Maps(s, f) /\ f.kind = "mprotect" => P!JitStage(s, f) = 3
BY DEF P!JitStage, Maps, Mapping

\* A return keeps the order of open, mmap and mprotect.
LEMMA JitOrderReturn ==
  ASSUME NEW s, NEW l, NEW f, NEW t, NEW m, IsReducer(s), LogInv(s, l), s.phase = Jit,
         JitInv(s, l), m = Grown(s, l, f), NEW n, n = Len(l) + 1,
         f.event = "OPERATION_RETURN", P!ReturnOk(s, f), Closes(s, t, f.op), s.open[f.op].kind = f.kind,
         t.jit = P!JitStage(s, f), Hits(s, l, f, t, m) \/ Misses(s, l, f, t),
         Hits(s, l, f, t, m) => f.kind = "file_open" /\ s.open[f.op].path = "plan" /\ f.success,
         Misses(s, l, f, t) => ~(f.kind = "file_open" /\ s.open[f.op].path = "plan" /\ f.success)
  PROVE  JitOrder(t, m)
<1>0. IsLog(l) /\ s.hits \in Nat /\ f.op \in DOMAIN s.open
      /\ JitObject(s, l) /\ JitRows(s, l) /\ JitOrder(s, l)
  BY DEF LogInv, IsReducer, Closes, JitInv
<1>1. P!Mapped(l, "mmap") \subseteq P!Mapped(m, "mmap")
      /\ P!Mapped(l, "mprotect") \subseteq P!Mapped(m, "mprotect")
  BY <1>0, MappedKeeps
<1>2. CASE Hits(s, l, f, t, m)
  <2>1. t.jit = 1
    BY <1>2, StageFacts
  <2>2. t.hits = s.hits + 1
    BY <1>2 DEF Hits
  <2> QED BY <1>0, <2>1, <2>2, OrderHit
<1>3. CASE Misses(s, l, f, t)
  <2> DEFINE k == "file_open"
  <2>1. ~Succeeds(l, f, k) /\ t.hits = s.hits
    BY <1>3 DEF Misses
  <2> HIDE DEF k
  <2>2. P!Succeeded(m, k) = P!Succeeded(l, k)
    BY <1>0, <2>1, SameOpened
  <2>3. CASE ~Maps(s, f)
    <3>1. t.jit = s.jit
      BY <1>3, <2>3, StageFacts
    <3> QED BY <1>0, <1>1, <2>1, <2>2, <3>1, OrderAside DEF k
  <2>4. CASE Maps(s, f)
    <3>1. f.kind \in Mapping /\ f.success /\ s.object # None /\ s.open[f.op].objects = {s.object}
      BY <2>4 DEF Maps
    <3>2. /\ s.open[f.op].denied => ~f.success
          /\ \/ f.kind = "mmap" /\ s.jit = 1
             \/ f.kind = "mprotect" /\ s.jit = 2
      BY <3>1, ReturnKinds
    <3>3. LookedUp(l, s.object)
      BY <1>0, <3>1 DEF JitObject
    <3>4. RowsTold(l, f.op, s.open[f.op])
      BY <1>0, <3>1 DEF JitRows
    <3>5. m = Lengthened(l, f)
      <4>1. P!Bears(s.phase, f)
        BY <3>1, BearsFacts DEF Mapping
      <4> QED BY <4>1 DEF Grown
    <3>6. n \in P!Mapped(m, f.kind)
      <4> DEFINE kind == f.kind
      <4>1. f.kind = kind
        OBVIOUS
      <4> HIDE DEF kind
      <4>2. Len(l) + 1 \in P!Mapped(m, kind)
        BY <1>0, <3>1, <3>2, <3>3, <3>4, <3>5, <4>1, MappedReturns
      <4> QED BY <4>2 DEF kind
    <3>7. \/ s.jit = 1 /\ t.jit = 2 /\ n \in P!Mapped(m, "mmap")
          \/ s.jit = 2 /\ t.jit = 3 /\ n \in P!Mapped(m, "mprotect")
      <4>1. CASE f.kind = "mmap" /\ s.jit = 1
        <5>1. t.jit = 2
          BY <2>4, <4>1, StageFacts
        <5> QED BY <3>6, <4>1, <5>1
      <4>2. CASE f.kind = "mprotect" /\ s.jit = 2
        <5>1. t.jit = 3
          BY <2>4, <4>2, StageFacts
        <5> QED BY <3>6, <4>2, <5>1
      <4> QED BY <3>2, <4>1, <4>2
    <3> QED BY <1>0, <1>1, <2>1, <2>2, <3>7, OrderMaps DEF k
  <2> QED BY <2>3, <2>4
<1> QED BY <1>2, <1>3

\* Every frame of the jit phase keeps its invariant.
LEMMA JitStep ==
  ASSUME NEW s, NEW l, NEW f, NEW t, NEW m, IsReducer(s), LogInv(s, l), Handled(s, f, t),
         s.phase = Jit, JitInv(s, l), m = Grown(s, l, f)
  PROVE  JitInv(t, m)
<1>0. IsLog(l) /\ OpenedInv(s, l) /\ JitObject(s, l) /\ JitRows(s, l) /\ JitOrder(s, l)
  BY DEF LogInv, JitInv
<1>1. OpenedInv(t, m)
  BY <1>0, OpenedStep
<1>2. JitObject(t, m)
  BY <1>0, JitObjectStep
<1>3. JitRows(t, m)
  BY <1>0, JitRowsStep
<1>4. P!Mapped(l, "mmap") \subseteq P!Mapped(m, "mmap")
      /\ P!Mapped(l, "mprotect") \subseteq P!Mapped(m, "mprotect")
  BY <1>0, MappedKeeps
<1>5. ASSUME f.event # "OPERATION_RETURN", t.hits = s.hits, t.jit = s.jit PROVE JitOrder(t, m)
  <2> DEFINE k == "file_open"
  <2>1. ~Succeeds(l, f, k)
    BY <1>5 DEF Succeeds
  <2> HIDE DEF k
  <2>2. P!Succeeded(m, k) = P!Succeeded(l, k)
    BY <1>0, <2>1, SameOpened
  <2> QED BY <1>0, <1>4, <1>5, <2>2, OrderAside DEF k
<1>6. JitOrder(t, m)
  <2>1. CASE f.event \notin {"OPERATION_RETURN", "TASK_EXIT"}
    BY <1>5, <2>1, AsideFacts DEF Counts
  <2>2. CASE f.event = "TASK_EXIT" /\ P!ExitOk(s, f) /\ t = P!Exit(s, f)
    <3>1. t.jit = s.jit /\ (f.task \in s.cold => s.phase = Cold) /\ (f.task \notin s.cold => t.hits = s.hits)
      BY <2>2, ExitFacts
    <3>2. t.hits = s.hits
      BY <3>1, PlanAssumption
    <3> QED BY <1>5, <2>2, <3>1, <3>2
  <2>3. CASE f.event = "OPERATION_RETURN" /\ P!ReturnOk(s, f) /\ t = P!Return(s, f)
    <3>1. Closes(s, t, f.op) /\ s.open[f.op].kind = f.kind /\ t.jit = P!JitStage(s, f)
      BY <2>3, ReturnFacts
    <3>2. /\ Hits(s, l, f, t, m) \/ Misses(s, l, f, t)
          /\ Hits(s, l, f, t, m) => f.kind = "file_open" /\ s.open[f.op].path = "plan" /\ f.success
          /\ Misses(s, l, f, t) => ~(f.kind = "file_open" /\ s.open[f.op].path = "plan" /\ f.success)
      BY <2>3, OpeningReturns
    <3> QED BY <2>3, <3>1, <3>2, JitOrderReturn
  <2> QED BY <2>1, <2>2, <2>3 DEF Handled
<1> QED BY <1>1, <1>2, <1>3, <1>6 DEF JitInv

-----------------------------------------------------------------------------
\* Nothing of a later phase happens early.
LEMMA NotYetStep ==
  ASSUME NEW s, NEW f, NEW t, IsReducer(s), Handled(s, f, t), NotYet(s), s.stage >= 4
  PROVE  NotYet(t)
<1>0. s.phase \in Nat /\ Cold \in Nat /\ Jit \in Nat /\ s.stage \in Nat
  BY PlanAssumption DEF IsReducer
<1>1. ASSUME Stays(s, t), s.phase < Cold => t.cold = s.cold,
             s.phase < Jit => t.jit = s.jit /\ t.object = s.object
      PROVE  NotYet(t)
  <2>1. t.phase = s.phase /\ t.stage = s.stage /\ ~(t.stage < 4)
    BY <1>0, <1>1 DEF Stays
  <2> QED BY <1>1, <2>1 DEF NotYet
<1>2. CASE f.event \notin {"OPERATION_RETURN", "TASK_EXIT", "FILE_POLICY"}
  BY <1>1, <1>2, AsideFacts DEF Counts
<1>3. CASE f.event = "FILE_POLICY" /\ P!FilePolicyOk(s, f) /\ t = P!FilePolicy(s, f)
  <2>1. Stays(s, t) /\ t.cold = s.cold /\ t.jit = s.jit
    BY <1>3, FilePolicyFacts DEF Quiet, Counts
  <2>2. t.object = IF s.phase = Jit /\ s.open[f.op].path = "plan" THEN f.object ELSE s.object
    BY <1>3, FilePolicyFacts
  <2>3. s.phase < Jit => s.phase # Jit
    BY <1>0
  <2>4. s.phase < Jit => t.object = s.object
    BY <2>2, <2>3
  <2> QED BY <1>1, <2>1, <2>4
<1>4. CASE f.event = "OPERATION_RETURN" /\ P!ReturnOk(s, f) /\ t = P!Return(s, f)
  <2>1. Stays(s, t) /\ t.object = s.object /\ t.jit = P!JitStage(s, f) /\ (~Starts(s, f) => t.cold = s.cold)
    BY <1>4, ReturnFacts
  <2>2. s.phase # Jit => t.jit = s.jit
    BY <2>1 DEF P!JitStage
  <2>3. s.phase # Cold => t.cold = s.cold
    BY <2>1 DEF Starts
  <2>4. (s.phase < Jit => s.phase # Jit) /\ (s.phase < Cold => s.phase # Cold)
    BY <1>0
  <2> QED BY <1>1, <2>1, <2>2, <2>3, <2>4
<1>5. CASE f.event = "TASK_EXIT" /\ P!ExitOk(s, f) /\ t = P!Exit(s, f)
  <2>1. Stays(s, t) /\ t.object = s.object /\ t.jit = s.jit /\ t.cold = s.cold
    BY <1>5, ExitFacts
  <2> QED BY <1>1, <2>1
<1> QED BY <1>2, <1>3, <1>4, <1>5 DEF Handled

\* Every frame of the interval keeps what the reducer stands for.
LEMMA GoodStep ==
  ASSUME NEW s, NEW l, NEW f, NEW t, NEW m, Good(s, l), Handled(s, f, t), s.stage >= 4,
         m = Grown(s, l, f)
  PROVE  Good(t, m) /\ Stays(s, t)
<1>0. IsReducer(s) /\ LogInv(s, l) /\ NotYet(s) /\ PhaseInv(s, l) /\ IsLog(l)
  BY DEF Good, LogInv
<1>1. OpStep(s, t, f)
  BY <1>0, HandledOpStep
<1>2. IsReducer(t) /\ Stays(s, t) /\ t.phase = s.phase
  BY <1>1 DEF OpStep, Stays
<1>3. LogInv(t, m)
  BY <1>0, <1>1, LogStep
<1>4. NotYet(t)
  BY <1>0, NotYetStep
<1>5. s.phase \in P!Controls => m = Lengthened(l, f)
  BY BearsFacts DEF Grown
<1>6. s.phase \in Poison => RefusalInv(t, m, "FILE_OPEN_ATTEMPT", "file_open")
  BY <1>0, <1>5, PoisonStep DEF PhaseInv, P!Controls
<1>7. s.phase \in Remote => RefusalInv(t, m, "NETWORK_POLICY", "connect")
  BY <1>0, <1>5, RemoteStep DEF PhaseInv, P!Controls
<1>8. s.phase \in Denied => RefusalInv(t, m, "EXEC_ATTEMPT", "exec")
  BY <1>0, <1>5, DeniedStep DEF PhaseInv, P!Controls
<1>9. s.phase = Cold => ColdInv(t, m)
  BY <1>0, ColdStep DEF PhaseInv
<1>10. s.phase = Model => OpenedInv(t, m)
  BY <1>0, OpenedStep DEF PhaseInv
<1>11. s.phase = Jit => JitInv(t, m)
  BY <1>0, JitStep DEF PhaseInv
<1>12. PhaseInv(t, m)
  BY <1>2, <1>6, <1>7, <1>8, <1>9, <1>10, <1>11 DEF PhaseInv
<1> QED BY <1>2, <1>3, <1>4, <1>12 DEF Good

LEMMA EmptyLog ==
  ASSUME NEW kind
  PROVE  IsLog(<<>>) /\ Len(<<>>) = 0 /\ 1 .. Len(<<>>) = {} /\ P!Succeeded(<<>>, kind) = {}
<1>1. <<>> \in Seq({}) /\ Len(<<>>) = 0
  OBVIOUS
<1>2. 1 .. Len(<<>>) = {}
  BY <1>1
<1> QED BY <1>1, <1>2 DEF IsLog, P!Succeeded

(* A phase begins with nothing told.                                         *)
LEMMA Begins ==
  ASSUME NEW t, IsReducer(t), NotYet(t), DOMAIN t.open = {}, t.hits = 0,
         t.phase = Cold => t.cold = {}, t.phase = Jit => t.jit = 0 /\ t.object = None
  PROVE  Good(t, <<>>)
<1>1. IsLog(<<>>) /\ 1 .. Len(<<>>) = {}
  BY EmptyLog
<1>2. P!Succeeded(<<>>, "exec") = {} /\ P!Succeeded(<<>>, "file_open") = {}
  BY EmptyLog
<1>3. LogInv(t, <<>>)
  BY <1>1 DEF LogInv
<1>4. \A event, kind : RefusalInv(t, <<>>, event, kind)
  BY DEF RefusalInv
<1>5. t.phase = Cold => ColdInv(t, <<>>)
  BY <1>2 DEF ColdInv, Children
<1>6. OpenedInv(t, <<>>)
  BY <1>2 DEF OpenedInv
<1>7. t.phase = Jit => JitInv(t, <<>>)
  BY <1>2, <1>6 DEF JitInv, JitObject, JitRows, JitOrder
<1> QED BY <1>3, <1>4, <1>5, <1>6, <1>7 DEF Good, PhaseInv

\* A marker begins the next phase.
LEMMA MarkerFacts ==
  ASSUME NEW s, NEW l, NEW f, NEW t, Good(s, l), P!MarkerOk(s, f), t = P!Marker(s, f), s.stage >= 4
  PROVE  Good(t, <<>>) /\ t.phase = s.phase + 1 /\ t.terminal = s.terminal /\ t.ok = s.ok
<1>0. IsReducer(s) /\ NotYet(s) /\ IsRecord(s) /\ s.phase \in Nat /\ s.stage \in Nat
  BY DEF Good, IsReducer
<1>1. f.phase = s.phase + 1 /\ DOMAIN s.open = {}
  BY DEF P!MarkerOk
<1>2. /\ IsRecord(t) /\ t.ok = s.ok /\ t.stage = s.stage /\ t.phase = f.phase /\ t.root = s.root
      /\ t.tasks = s.tasks /\ t.open = s.open /\ t.used = s.used /\ t.hits = 0
      /\ t.cold = s.cold /\ t.object = s.object /\ t.jit = s.jit /\ t.terminal = s.terminal
  BY <1>0 DEF P!Marker, IsRecord
<1>3. IsReducer(t)
  BY <1>0, <1>1, <1>2 DEF IsReducer
<1>4. /\ t.phase < Cold \/ t.phase = Cold => s.phase < Cold
      /\ t.phase < Jit \/ t.phase = Jit => s.phase < Jit
      /\ ~(t.stage < 4)
  BY <1>0, <1>1, <1>2, PlanAssumption
<1>5. NotYet(t) /\ (t.phase = Cold => t.cold = {}) /\ (t.phase = Jit => t.jit = 0 /\ t.object = None)
  BY <1>0, <1>2, <1>4 DEF NotYet
<1>6. Good(t, <<>>)
  BY <1>1, <1>2, <1>3, <1>5, Begins
<1> QED BY <1>1, <1>2, <1>6

\* What each kind of phase must show.
LEMMA ShowsFacts ==
  ASSUME NEW l, NEW root, NEW n
  PROVE  /\ n \in Poison => (P!Shows(l, root, n) <=> P!Refused(l, "FILE_OPEN_ATTEMPT"))
         /\ n \in Remote => (P!Shows(l, root, n) <=> (P!Refused(l, "NETWORK_POLICY") /\ l[1].deny))
         /\ n \in Denied => (P!Shows(l, root, n) <=> P!Refused(l, "EXEC_ATTEMPT"))
         /\ n = Cold => (P!Shows(l, root, n) <=>
              \E i \in 1 .. Len(l) :
                /\ {i} = {j \in P!Succeeded(l, "exec") : l[j].task # root}
                /\ Left(l, l[i].task, i))
         /\ n = Model => (P!Shows(l, root, n) <=> \E i \in 1 .. Len(l) : {i} = P!Succeeded(l, "file_open"))
         /\ n = Jit => (P!Shows(l, root, n) <=>
              \E i \in 1 .. Len(l) :
                /\ {i} = P!Succeeded(l, "file_open")
                /\ \E j \in P!Mapped(l, "mmap"), k \in P!Mapped(l, "mprotect") : i < j /\ j < k)
         /\ n \notin Poison \cup Remote \cup Denied \cup {Cold, Model, Jit} => P!Shows(l, root, n)
<1>0. /\ Cold \notin Poison \cup Remote \cup Denied /\ Model \notin Poison \cup Remote \cup Denied
      /\ Jit \notin Poison \cup Remote \cup Denied /\ Cold # Model /\ Cold # Jit /\ Model # Jit
      /\ Poison \cap Remote = {} /\ Poison \cap Denied = {} /\ Remote \cap Denied = {}
  BY PlanAssumption
<1>1. CASE n \in Poison
  BY <1>0, <1>1 DEF P!Shows
<1>2. CASE n \in Remote
  BY <1>0, <1>2 DEF P!Shows
<1>3. CASE n \in Denied
  BY <1>0, <1>3 DEF P!Shows
<1>4. CASE n = Cold
  BY <1>0, <1>4 DEF P!Shows, Left
<1>5. CASE n = Model
  BY <1>0, <1>5 DEF P!Shows
<1>6. CASE n = Jit
  BY <1>0, <1>6 DEF P!Shows
<1>7. CASE n \notin Poison \cup Remote \cup Denied \cup {Cold, Model, Jit}
  BY <1>0, <1>7 DEF P!Shows
<1> QED BY <1>1, <1>2, <1>3, <1>4, <1>5, <1>6, <1>7

\* A phase that may be closed shows its control.
LEMMA ClosedShows ==
  ASSUME NEW s, NEW l, NEW f, Good(s, l), P!MarkerOk(s, f)
  PROVE  P!Shows(l, s.root, s.phase)
<1> DEFINE n == s.phase
<1>0. /\ DOMAIN s.open = {} /\ ~P!OthersLive(s) /\ IsReducer(s) /\ PhaseInv(s, l) /\ LogInv(s, l)
      /\ s.phase = 1 \/ (s.hits = 1 /\ (s.phase = Jit => s.jit = 3))
  BY DEF P!MarkerOk, P!ControlClosed, Good
<1>1. CASE n \notin Poison \cup Remote \cup Denied \cup {Cold, Model, Jit}
  BY <1>1, ShowsFacts
<1>2. CASE n \in Poison \cup Remote \cup Denied \cup {Cold, Model, Jit}
  <2>0. s.hits = 1 /\ (n = Jit => s.jit = 3)
    BY <1>0, <1>2, PlanAssumption
  <2>1. CASE n \in Poison
    <3>1. P!Refused(l, "FILE_OPEN_ATTEMPT")
      BY <1>0, <2>0, <2>1 DEF PhaseInv, RefusalInv
    <3> QED BY <2>1, <3>1, ShowsFacts
  <2>2. CASE n \in Remote
    <3>1. P!Refused(l, "NETWORK_POLICY") /\ Planned(l, "NETWORK_POLICY")
      BY <1>0, <2>0, <2>2 DEF PhaseInv, RefusalInv
    <3>2. l[1].deny
      BY <3>1 DEF Planned
    <3> QED BY <2>2, <3>1, <3>2, ShowsFacts
  <2>3. CASE n \in Denied
    <3>1. P!Refused(l, "EXEC_ATTEMPT")
      BY <1>0, <2>0, <2>3 DEF PhaseInv, RefusalInv
    <3> QED BY <2>3, <3>1, ShowsFacts
  <2>4. CASE n = Cold
    <3> DEFINE S == P!Succeeded(l, "exec")
    <3>1. /\ \A i \in S : l[i].task \in s.cold
          /\ \A u \in s.cold : \E i \in S :
               /\ l[i].task = u
               /\ \A k \in S : l[k].task = u => k = i
               /\ u # s.root /\ ~s.tasks[u].live => Left(l, u, i)
          /\ \E v \in Children(s) : \A u \in Children(s) : u # v => s.tasks[u].live
      BY <1>0, <2>0, <2>4 DEF PhaseInv, ColdInv
    <3>2. S \subseteq 1 .. Len(l)
      BY DEF P!Succeeded
    <3> HIDE DEF S
    <3>3. \A u \in Children(s) : ~s.tasks[u].live /\ u # s.root /\ u \in s.cold
      BY <1>0 DEF P!OthersLive, Children, IsReducer
    <3>4. PICK v \in Children(s) : \A u \in Children(s) : u = v
      BY <3>1, <3>3
    <3>5. PICK i \in S : /\ l[i].task = v
                         /\ \A k \in S : l[k].task = v => k = i
                         /\ v # s.root /\ ~s.tasks[v].live => Left(l, v, i)
      BY <3>1, <3>3
    <3>6. Left(l, l[i].task, i)
      BY <3>3, <3>5
    <3>7. \A j \in S : l[j].task # s.root => j = i
      BY <3>1, <3>4, <3>5 DEF Children
    <3>8. {i} = {j \in S : l[j].task # s.root}
      BY <3>3, <3>5, <3>7
    <3>9. i \in 1 .. Len(l)
      BY <3>2
    <3>10. \E k \in 1 .. Len(l) : /\ {k} = {j \in P!Succeeded(l, "exec") : l[j].task # s.root}
                                  /\ Left(l, l[k].task, k)
      BY <3>6, <3>8, <3>9 DEF S
    <3> QED BY <2>4, <3>10, ShowsFacts
  <2>5. CASE n = Model
    <3>1. \E i \in 1 .. Len(l) : {i} = P!Succeeded(l, "file_open")
      BY <1>0, <2>0, <2>5 DEF PhaseInv, OpenedInv
    <3> QED BY <2>5, <3>1, ShowsFacts
  <2>6. CASE n = Jit
    <3>1. PICK i \in 1 .. Len(l) : P!Succeeded(l, "file_open") = {i}
      BY <1>0, <2>0, <2>6 DEF PhaseInv, JitInv, OpenedInv
    <3>2. \E j \in P!Mapped(l, "mmap"), k \in P!Mapped(l, "mprotect") : i < j /\ j < k
      BY <1>0, <2>0, <2>6, <3>1 DEF PhaseInv, JitInv, JitOrder
    <3> QED BY <2>6, <3>1, <3>2, ShowsFacts
  <2> QED BY <1>2, <2>1, <2>2, <2>3, <2>4, <2>5, <2>6
<1> QED BY <1>1, <1>2

\* The reducer before the first frame.
LEMMA FreshIsGood == Good(P!Fresh, <<>>) /\ P!Fresh.ok /\ ~P!Fresh.terminal
<1> DEFINE t == P!Fresh
<1>1. /\ t.ok = TRUE /\ t.stage = 0 /\ t.phase = 0 /\ t.tasks = <<>> /\ t.open = <<>>
      /\ t.used = {} /\ t.hits = 0 /\ t.cold = {} /\ t.object = None /\ t.jit = 0
      /\ t.terminal = FALSE /\ IsRecord(t)
  BY DEF P!Fresh, IsRecord
<1> HIDE DEF t
<1>2. DOMAIN <<>> = {} /\ IsTable(<<>>)
  BY DEF IsTable
<1>3. IsReducer(t) /\ DOMAIN t.open = {}
  BY <1>1, <1>2 DEF IsReducer
<1>4. NotYet(t)
  BY <1>1, <1>3 DEF NotYet
<1>5. Good(t, <<>>)
  BY <1>1, <1>3, <1>4, Begins
<1> QED BY <1>1, <1>5 DEF t

\* The frames of the bootstrap.
LEMMA StagedFacts ==
  ASSUME NEW s, NEW l, NEW f, NEW t, Good(s, l), t = P!Staged(s, f), s.stage < 4
  PROVE  /\ t.ok = s.ok /\ t.terminal = s.terminal /\ s.phase = 0
         /\ t.phase # s.phase => Good(t, <<>>)
         /\ t.phase = s.phase => Good(t, Grown(s, l, f))
<1> DEFINE x == [parent |-> 0, live |-> TRUE, doomed |-> FALSE, minted |-> 0]
           us == IF s.stage = 1 THEN s.used \cup {f.op} ELSE s.used
           rt == IF s.stage = 3 THEN f.task ELSE s.root
           ph == IF s.stage = 3 THEN 1 ELSE 0
           ts == IF s.stage = 3 THEN P!Put(s.tasks, f.task, x) ELSE s.tasks
<1>0. IsReducer(s) /\ NotYet(s) /\ IsRecord(s) /\ LogInv(s, l)
      /\ s.stage \in Nat /\ IsTable(s.tasks)
  BY DEF Good, IsReducer
<1>1. s.phase = 0 /\ DOMAIN s.open = {} /\ s.hits = 0 /\ s.cold = {} /\ s.jit = 0 /\ s.object = None
  BY <1>0, PlanAssumption DEF NotYet
<1>2. t = [s EXCEPT !.stage = s.stage + 1, !.used = us, !.root = rt, !.phase = ph, !.tasks = ts]
  BY DEF P!Staged
<1>3. s.used \subseteq us /\ ph \in {0, 1} /\ (s.stage + 1 < 4 => ph = 0)
  BY <1>0
<1>4. IsTask(x)
  BY DEF IsTask
<1>5. IsTable(ts) /\ (\A u \in DOMAIN ts : IsTask(ts[u])) /\ DOMAIN s.tasks \subseteq DOMAIN ts
  BY <1>0, <1>4 DEF IsTable, P!Put, IsReducer
<1> HIDE DEF x, us, rt, ph, ts
<1>6. /\ IsRecord(t) /\ t.ok = s.ok /\ t.stage = s.stage + 1 /\ t.phase = ph /\ t.root = rt
      /\ t.tasks = ts /\ t.open = s.open /\ t.used = us /\ t.hits = s.hits
      /\ t.cold = s.cold /\ t.object = s.object /\ t.jit = s.jit /\ t.terminal = s.terminal
  BY <1>0, <1>2 DEF IsRecord
<1>7. IsReducer(t)
  BY <1>0, <1>1, <1>3, <1>5, <1>6 DEF IsReducer
<1>8. NotYet(t) /\ t.phase # Cold /\ t.phase # Jit
  BY <1>0, <1>1, <1>3, <1>6, PlanAssumption DEF NotYet
<1>9. Good(t, <<>>)
  BY <1>1, <1>6, <1>7, <1>8, Begins
<1>10. Grown(s, l, f) = l
  <2>1. s.phase \notin P!Controls \cup {Cold, Model, Jit}
    BY <1>1, PlanAssumption DEF P!Controls
  <2> QED BY <2>1, BearsFacts DEF Grown
<1>11. t.phase \notin Poison \cup Remote \cup Denied \cup {Cold, Model, Jit}
  BY <1>3, <1>6, PlanAssumption
<1>12. LogInv(t, l) \/ t.phase # s.phase
  BY <1>0, <1>1, <1>3, <1>6 DEF LogInv
<1>13. t.phase = s.phase => Good(t, l)
  BY <1>7, <1>8, <1>11, <1>12 DEF Good, PhaseInv
<1> QED BY <1>1, <1>6, <1>9, <1>10, <1>13

\* A frame that is neither a marker nor the terminal one goes to its handler.
LEMMA RuntimeHandled ==
  ASSUME NEW s, NEW f, P!RuntimeOk(s, f), f.event \notin {"PHASE_MARKER", "TERMINAL"}
  PROVE  Handled(s, f, P!Runtime(s, f))
BY DEF P!RuntimeOk, P!Runtime, Handled

(* What a frame that is taken comes to.                                      *)
Ended(t) == t.phase = LastPhase /\ DOMAIN t.open = {} /\ ~P!OthersLive(t)

LEMMA ConsumeFacts ==
  ASSUME NEW s, NEW l, NEW f, NEW t, Good(s, l), s.ok, ~s.terminal, t = P!Consume(s, f), t.ok
  PROVE  /\ IsRecord(t)
         /\ t.terminal => t.phase = s.phase /\ Ended(t)
         /\ ~t.terminal /\ t.phase = s.phase => Good(t, Grown(s, l, f))
         /\ ~t.terminal /\ t.phase # s.phase =>
              Good(t, <<>>) /\ (s.phase > 0 => P!Shows(l, s.root, s.phase))
<1>0. IsReducer(s) /\ IsRecord(s) /\ s.stage \in Nat /\ s.phase \in Nat
  BY DEF Good, IsReducer
<1>1. ASSUME NEW x, Good(x, l) \/ Good(x, <<>>) \/ Good(x, Grown(s, l, f)) PROVE IsRecord(x)
  BY <1>1 DEF Good, IsReducer
<1>2. [s EXCEPT !.ok = FALSE].ok = FALSE
  BY <1>0 DEF IsRecord
<1>3. CASE s.stage < 4
  <2>1. t = P!Staged(s, f)
    BY <1>2, <1>3 DEF P!Consume
  <2>2. /\ t.terminal = s.terminal /\ s.phase = 0
        /\ t.phase # s.phase => Good(t, <<>>)
        /\ t.phase = s.phase => Good(t, Grown(s, l, f))
    BY <1>3, <2>1, StagedFacts
  <2> QED BY <1>1, <2>2
<1>4. CASE ~(s.stage < 4)
  <2>0. s.stage >= 4
    BY <1>0, <1>4
  <2>1. P!RuntimeOk(s, f) /\ t = P!Runtime(s, f)
    BY <1>2, <1>4 DEF P!Consume
  <2>2. CASE f.event = "PHASE_MARKER"
    <3>1. P!MarkerOk(s, f) /\ t = P!Marker(s, f)
      BY <2>1, <2>2 DEF P!RuntimeOk, P!Runtime
    <3>2. Good(t, <<>>) /\ t.phase = s.phase + 1 /\ t.terminal = s.terminal
      BY <2>0, <3>1, MarkerFacts
    <3>3. P!Shows(l, s.root, s.phase)
      BY <3>1, ClosedShows
    <3>4. t.phase # s.phase
      BY <1>0, <3>2
    <3> QED BY <1>1, <3>2, <3>3, <3>4
  <2>3. CASE f.event = "TERMINAL"
    <3>1. P!TerminalOk(s, f) /\ t = [s EXCEPT !.terminal = TRUE]
      BY <2>1, <2>3 DEF P!RuntimeOk, P!Runtime
    <3>2. IsRecord(t) /\ t.phase = s.phase /\ t.open = s.open /\ t.tasks = s.tasks
          /\ t.root = s.root /\ t.terminal = TRUE
      BY <1>0, <3>1 DEF IsRecord
    <3>3. Ended(t)
      BY <3>1, <3>2 DEF P!TerminalOk, Ended, P!OthersLive
    <3> QED BY <3>2, <3>3
  <2>4. CASE f.event \notin {"PHASE_MARKER", "TERMINAL"}
    <3>1. Handled(s, f, t)
      BY <2>1, <2>4, RuntimeHandled
    <3>2. Good(t, Grown(s, l, f)) /\ Stays(s, t)
      BY <2>0, <3>1, GoodStep
    <3>3. t.terminal = s.terminal /\ t.phase = s.phase
      BY <3>2 DEF Stays
    <3> QED BY <1>1, <3>2, <3>3
  <2> QED BY <2>2, <2>3, <2>4
<1> QED BY <1>3, <1>4

-----------------------------------------------------------------------------
\* What is taken so far is the plan's story, and what the reducer keeps stands for the
\* frames of the phase it is in; a stream that ended left nothing open.
AppraisalInv ==
  part = "appraiser" /\ reducer.ok =>
    /\ story /\ IsRecord(reducer)
    /\ reducer.terminal => Ended(reducer)
    /\ ~reducer.terminal => Good(reducer, log)

\* One frame more.
LEMMA FeedKeeps ==
  ASSUME AppraisalInv, part = "appraiser", part' = part, P!Feed
  PROVE  AppraisalInv'
<1>1. reducer.ok /\ ~reducer.terminal /\ story /\ Good(reducer, log)
  BY DEF P!Feed, AppraisalInv
<1>2. PICK f : LET next == P!Consume(reducer, f) IN
       /\ reducer' = IF next.ok THEN next ELSE [P!Fresh EXCEPT !.ok = FALSE]
       /\ log' = IF ~next.ok \/ next.phase # reducer.phase THEN <<>>
                 ELSE IF P!Bears(reducer.phase, f) THEN Append(log, f) ELSE log
       /\ story' = (story /\ (next.ok /\ next.phase # reducer.phase /\ reducer.phase > 0
                              => P!Shows(log, reducer.root, reducer.phase)))
  BY DEF P!Feed
<1> DEFINE t == P!Consume(reducer, f)
<1>3. /\ reducer' = IF t.ok THEN t ELSE [P!Fresh EXCEPT !.ok = FALSE]
      /\ log' = IF ~t.ok \/ t.phase # reducer.phase THEN <<>> ELSE Grown(reducer, log, f)
      /\ story' = (story /\ (t.ok /\ t.phase # reducer.phase /\ reducer.phase > 0
                              => P!Shows(log, reducer.root, reducer.phase)))
  BY <1>2 DEF Grown, Lengthened
<1>4. t.ok => /\ IsRecord(t)
              /\ t.terminal => t.phase = reducer.phase /\ Ended(t)
              /\ ~t.terminal /\ t.phase = reducer.phase => Good(t, Grown(reducer, log, f))
              /\ ~t.terminal /\ t.phase # reducer.phase =>
                   Good(t, <<>>) /\ (reducer.phase > 0 => P!Shows(log, reducer.root, reducer.phase))
  BY <1>1, ConsumeFacts
<1> HIDE DEF t
<1>5. CASE ~t.ok
  <2>1. reducer' = [P!Fresh EXCEPT !.ok = FALSE]
    BY <1>3, <1>5
  <2>2. ~reducer'.ok
    BY <2>1 DEF P!Fresh
  <2> QED BY <2>2 DEF AppraisalInv
<1>6. CASE t.ok
  <2>1. reducer' = t
    BY <1>3, <1>6
  <2>2. story'
    BY <1>1, <1>3, <1>4, <1>6
  <2>3. t.terminal => Ended(t)
    BY <1>4, <1>6
  <2>4. ~t.terminal => Good(t, log')
    BY <1>3, <1>4, <1>6
  <2>5. IsRecord(reducer') /\ (reducer'.terminal => Ended(reducer'))
        /\ (~reducer'.terminal => Good(reducer', log'))
    BY <1>4, <1>6, <2>1, <2>3, <2>4
  <2> QED BY <2>2, <2>5 DEF AppraisalInv
<1> QED BY <1>5, <1>6

\* A frame after the terminal one is refused.
LEMMA FeedMoreKeeps ==
  ASSUME AppraisalInv, part = "appraiser", part' = part, P!FeedMore
  PROVE  AppraisalInv'
<1>1. reducer.ok /\ reducer.terminal /\ IsRecord(reducer)
  BY DEF P!FeedMore, AppraisalInv
<1>2. reducer' = [reducer EXCEPT !.ok = FALSE]
  BY <1>1 DEF P!FeedMore, P!Consume
<1>3. ~reducer'.ok
  BY <1>1, <1>2 DEF IsRecord
<1> QED BY <1>3 DEF AppraisalInv

\* A stream the reducer of conf_proc_spp_diag_trace_semantics.py accepts shows the control
\* of every closed phase exactly once, in streams of any length, with any tasks, operations
\* and phases, and leaves nothing open.
THEOREM AppraisalIsSound == AllSpec => []AppraisedTellsThePlan
<1>1. AllInit => AppraisalInv
  <2> SUFFICES ASSUME AllInit, part = "appraiser" PROVE AppraisalInv
    BY DEF AppraisalInv
  <2>1. reducer = P!Fresh /\ log = <<>> /\ story
    BY DEF AllInit, P!Init
  <2>2. Good(reducer, log) /\ ~reducer.terminal /\ IsRecord(reducer)
    BY <2>1, FreshIsGood DEF Good, IsReducer
  <2> QED BY <2>1, <2>2 DEF AppraisalInv
<1>2. AppraisalInv /\ [AllNext]_all => AppraisalInv'
  <2> SUFFICES ASSUME AppraisalInv, [AllNext]_all PROVE AppraisalInv'
    OBVIOUS
  <2>1. CASE Core
    <3>1. part = "core" /\ part' = part
      BY <2>1 DEF Core
    <3> QED BY <3>1 DEF AppraisalInv
  <2>2. CASE Appraise
    <3>1. part = "appraiser" /\ part' = part /\ (P!Feed \/ P!FeedMore)
      BY <2>2 DEF Appraise, P!Next
    <3> QED BY <3>1, FeedKeeps, FeedMoreKeeps
  <2>3. CASE UNCHANGED all
    BY <2>3 DEF AppraisalInv, all, appraisal
  <2> QED BY <2>1, <2>2, <2>3 DEF AllNext
<1>3. AppraisalInv => AppraisedTellsThePlan
  BY DEF AppraisalInv, AppraisedTellsThePlan, P!AcceptedTellsThePlan, Ended
<1> QED BY <1>1, <1>2, <1>3, PTL DEF AllSpec
==============================================================================
