------------------------- MODULE SupervisionProofs -------------------------
(***************************************************************************)
(* Proofs about the collector, for any number of calling threads, any      *)
(* deadlines and any timeout; about a diagnostic run, for any number and   *)
(* size of records; about the supervision of its child, for any set of     *)
(* descendants; and about the health reports, without bounds.              *)
(*                                                                         *)
(* CollectorIsHonest is not inductive: it does not say why no process of   *)
(* an earlier call is left when the next one spawns.  IInv does: whoever   *)
(* is past the queue holds the lock, a live group belongs to the call that *)
(* is running or cleaning it up unless the collector is unavailable, and   *)
(* nobody gets past the unavailable flag.                                  *)
(*                                                                         *)
(* Nor is DiagnosticIsTold.  RunInv says where every unit of the record    *)
(* under way is, so that the host counts what the writer drained, and what *)
(* each place of the controller says of the writer.  ChildInv says that    *)
(* the processes are a forest whose live parents hold their children, so   *)
(* that a census that finds nobody has lost nobody.                        *)
(*                                                                         *)
(* ReportsInv orders what was posted, what the service holds and the file: *)
(* each is no older than the one before, and stamped before it was read.   *)
(***************************************************************************)
EXTENDS Supervision, Integers, Sequences, TLAPS, FiniteSetTheorems

\* Between lock.acquire and lock.release, and from the point where the call has
\* published "running".
Inside == {"holding", "entered", "communicating", "cleaning", "leaving", "unclean"}
Running == {"entered", "communicating", "cleaning", "unclean"}

LockHeld == \A c \in Callers : pc[c] \in Inside <=> lock = c

\* A call that is running found the collector available, and it says so.
RunningIsPublished ==
  /\ \A c \in Callers : pc[c] \in Running => state = "running" /\ ~unavailable
  /\ state = "running" => lock # None /\ ~unavailable
  /\ state = "unavailable" <=> unavailable

\* Where a live group can be: with the call that started it, from Popen to the end of its
\* cleanup; anywhere else only once the collector is unavailable.
LiveIsOwned ==
  /\ \A c \in Callers : Live(c) =>
       \/ pc[c] \in {"communicating", "cleaning", "unclean"}
       \/ pc[c] = "idle" /\ unavailable /\ result[c] # "success"
  /\ strays > 0 => unavailable

\* SingleOpener without the count.
OneIsLive ==
  /\ strays <= 1
  /\ \A c \in Callers : Live(c) => strays = 0
  /\ \A c, d \in Callers : Live(c) /\ Live(d) => c = d

IInv == TypeOK /\ LockHeld /\ RunningIsPublished /\ LiveIsOwned /\ OneIsLive

-----------------------------------------------------------------------------
\* A call always has a finite time left.
LEMMA RemainingIsTime ==
  ASSUME NEW d \in Deadlines
  PROVE  Remaining(d) \in Nat
BY CollectorAssumption DEF Remaining

\* Each of the collector's and of its processes' steps keeps the types.
LEMMA TypeInvariant == TypeOK /\ [Next]_vars => TypeOK'
<1> SUFFICES ASSUME TypeOK, [Next]_vars PROVE TypeOK'
  OBVIOUS
<1> USE DEF TypeOK, Failures
<1>1. ASSUME NEW c \in Callers, NEW d \in Deadlines, Call(c, d) PROVE TypeOK'
  BY <1>1, RemainingIsTime DEF Call
<1>2. ASSUME NEW c \in Callers, Step(c) PROVE TypeOK'
  <2>1. CASE QueueTimeout(c)
    BY <2>1 DEF QueueTimeout
  <2>2. CASE Acquire(c)
    BY <2>2 DEF Acquire
  <2>3. CASE Enter(c)
    BY <2>3 DEF Enter
  <2>4. CASE Spawn(c)
    BY <2>4 DEF Spawn
  <2>5. CASE Communicated(c)
    BY <2>5, CollectorAssumption DEF Communicated
  <2>6. CASE ExecutionTimeout(c)
    BY <2>6, CollectorAssumption DEF ExecutionTimeout
  <2>7. CASE Cleanup(c)
    BY <2>7 DEF Cleanup
  <2>8. CASE Leave(c)
    BY <2>8 DEF Leave
  <2> QED
    BY <1>2, <2>1, <2>2, <2>3, <2>4, <2>5, <2>6, <2>7, <2>8 DEF Step
<1>3. ASSUME NEW c \in Callers, CommandExits(c) \/ GroupEnds(c) PROVE TypeOK'
  BY <1>3 DEF CommandExits, GroupEnds
<1>4. CASE StrayEnds
  BY <1>4 DEF StrayEnds
<1>5. CASE Tick
  BY <1>5 DEF Tick
<1>6. CASE UNCHANGED vars
  BY <1>6 DEF vars
<1> QED
  BY <1>1, <1>2, <1>3, <1>4, <1>5, <1>6 DEF Next

\* The invariant's parts that are not types.
Facts == LockHeld /\ RunningIsPublished /\ LiveIsOwned /\ OneIsLive

\* A new call disturbs nobody that is running.
LEMMA CallKeeps ==
  ASSUME TypeOK, Facts, NEW c \in Callers, NEW d \in Deadlines, Call(c, d), TypeOK'
  PROVE  Facts'
BY CollectorAssumption
   DEF TypeOK, Facts, LockHeld, RunningIsPublished, LiveIsOwned, OneIsLive, Live, Alive,
       Inside, Running, Call

\* The steps of a call, up to the finally block.
LEMMA StepKeeps ==
  ASSUME TypeOK, Facts, NEW c \in Callers, Step(c), TypeOK'
  PROVE  Facts'
<1> USE CollectorAssumption
    DEF TypeOK, Facts, LockHeld, RunningIsPublished, LiveIsOwned, OneIsLive, Live, Alive,
        Inside, Running
<1>1. CASE QueueTimeout(c)
  BY <1>1 DEF QueueTimeout
<1>2. CASE Acquire(c)
  BY <1>2 DEF Acquire
<1>3. CASE Enter(c)
  BY <1>3 DEF Enter
<1>4. CASE Spawn(c)
  BY <1>4 DEF Spawn
<1>5. CASE Communicated(c)
  BY <1>5 DEF Communicated
<1>6. CASE ExecutionTimeout(c)
  BY <1>6 DEF ExecutionTimeout
<1>7. CASE Cleanup(c)
  BY <1>7 DEF Cleanup, CleanedUp
<1>8. CASE Leave(c)
  <2>1. /\ pc[c] \in {"leaving", "unclean"} /\ pc' = [pc EXCEPT ![c] = "idle"] /\ lock' = None
        /\ unavailable' = (unavailable \/ pc[c] # "leaving")
        /\ state' = (IF unavailable' THEN "unavailable" ELSE "idle")
        /\ result' = (IF pc[c] = "leaving" THEN result ELSE [result EXCEPT ![c] = "cleanup_failed"])
        /\ UNCHANGED <<left, group, strays>>
    BY <1>8 DEF Leave, Leaving, Clean
  <2>2. lock = c /\ pc'[c] = "idle" /\ \A d \in Callers : d # c => pc'[d] = pc[d] /\ pc[d] \notin Inside
    BY <2>1
  <2>3. LockHeld'
    BY <2>1, <2>2
  <2>4. RunningIsPublished'
    BY <2>1, <2>2
  <2>5. LiveIsOwned'
    BY <2>1, <2>2
  <2>6. OneIsLive'
    BY <2>1
  <2> QED
    BY <2>3, <2>4, <2>5, <2>6
<1> QED
  BY <1>1, <1>2, <1>3, <1>4, <1>5, <1>6, <1>7, <1>8 DEF Step

\* What the processes do on their own, and time.
LEMMA EnvironmentKeeps ==
  ASSUME TypeOK, Facts, TypeOK',
         \/ \E c \in Callers : CommandExits(c) \/ GroupEnds(c)
         \/ StrayEnds \/ Tick \/ UNCHANGED vars
  PROVE  Facts'
<1> USE DEF TypeOK, Facts, LockHeld, RunningIsPublished, LiveIsOwned, OneIsLive, Live, Alive,
        Inside, Running
<1>1. ASSUME NEW c \in Callers, CommandExits(c) \/ GroupEnds(c) PROVE Facts'
  BY <1>1 DEF CommandExits, GroupEnds
<1>2. CASE StrayEnds
  BY <1>2 DEF StrayEnds
<1>3. CASE Tick
  BY <1>3 DEF Tick
<1>4. CASE UNCHANGED vars
  BY <1>4 DEF vars
<1> QED
  BY <1>1, <1>2, <1>3, <1>4

\* At most one element, so at most one counted.
LEMMA AtMostOne ==
  ASSUME NEW X, \A x, y \in X : x = y
  PROVE  Cardinality(X) \in Nat /\ Cardinality(X) <= 1 /\ (X # {} => Cardinality(X) = 1)
         /\ (X = {} => Cardinality(X) = 0)
<1>1. CASE X = {}
  BY <1>1, FS_EmptySet
<1>2. CASE X # {}
  <2>1. PICK x \in X : TRUE
    BY <1>2
  <2>2. X = {x}
    BY <2>1
  <2>3. Cardinality({x}) = 1
    BY FS_Singleton
  <2>4. Cardinality(X) = 1
    BY <2>2, <2>3
  <2> QED
    BY <1>2, <2>4
<1> QED
  BY <1>1, <1>2

\* The count of SingleOpener from its uncounted form.
LEMMA OneIsLiveIsSingleOpener == TypeOK /\ OneIsLive => SingleOpener
<1> SUFFICES ASSUME TypeOK, OneIsLive PROVE SingleOpener
  OBVIOUS
<1> DEFINE L == {c \in Callers : Live(c)}
<1>1. /\ Cardinality(L) \in Nat /\ Cardinality(L) <= 1
      /\ (L = {} => Cardinality(L) = 0)
  BY AtMostOne DEF OneIsLive
<1>2. strays \in Nat /\ strays <= 1 /\ (L # {} => strays = 0)
  BY DEF TypeOK, OneIsLive
<1> HIDE DEF L
<1>3. strays + Cardinality(L) <= 1
  BY <1>1, <1>2
<1> QED
  BY <1>3 DEF SingleOpener, L

\* The invariant holds of every reachable state of the collector.
THEOREM CollectorInvariant == Spec => []IInv
<1>1. Init => IInv
  <2> SUFFICES ASSUME Init PROVE IInv
    OBVIOUS
  <2>1. TypeOK
    BY DEF Init, TypeOK, Failures
  <2>2. \A c \in Callers : pc[c] = "idle" /\ lock # c /\ ~Live(c)
    BY CollectorAssumption DEF Init, Live, Alive
  <2> QED
    BY <2>1, <2>2 DEF Init, IInv, LockHeld, RunningIsPublished, LiveIsOwned, OneIsLive, Inside,
       Running
<1>2. IInv /\ [Next]_vars => IInv'
  <2> SUFFICES ASSUME IInv, [Next]_vars PROVE IInv'
    OBVIOUS
  <2>1. TypeOK /\ Facts /\ TypeOK'
    BY TypeInvariant DEF IInv, Facts
  <2>2. Facts'
    BY <2>1, CallKeeps, StepKeeps, EnvironmentKeeps DEF Next
  <2> QED
    BY <2>1, <2>2 DEF IInv, Facts
<1> QED
  BY <1>1, <1>2, PTL DEF Spec

\* There are never two collector process groups with a live process, not even after a
\* cleanup that failed; snapshot() never says "idle" while one lives; and a call that
\* returned a response left none behind.
THEOREM CollectorHonesty == Spec => []CollectorIsHonest
<1>1. IInv => CollectorIsHonest
  <2> SUFFICES ASSUME IInv PROVE CollectorIsHonest
    OBVIOUS
  <2>1. SingleOpener
    BY OneIsLiveIsSingleOpener DEF IInv
  <2>2. SnapshotTruthful
    BY DEF IInv, TypeOK, SnapshotTruthful, RunningIsPublished, LiveIsOwned, Running
  <2>3. ResponseMeansQuiescent
    BY DEF IInv, ResponseMeansQuiescent, LiveIsOwned
  <2> QED
    BY <2>1, <2>2, <2>3 DEF CollectorIsHonest
<1> QED
  BY <1>1, CollectorInvariant, PTL

-----------------------------------------------------------------------------
(* A diagnostic run and its host.                                            *)

Units == [rec : Records, unit : Nat]
Places == {"start", "preflight", "advance", "act", "collect", "success", "poweroff",
           "invalidate", "failstop", "off", "exit"}
Last == {"failstop", "off", "exit"}
Withdrawn == D!Fault("EXPORT", D!Seal)

Writers ==
  [seq : Nat, pending : Records \cup {None}, off : Nat, poisoned : BOOLEAN,
   success : 0 .. MaxSuccess, sent : Nat, complete : BOOLEAN, invalidated : BOOLEAN,
   terminal : BOOLEAN]

Hosts ==
  [before : Nat, state : {"start", "success", "invalidated", "standalone_failure"}, seq : Nat,
   line : Seq(Units), got : Nat, of : Nat, failure : Faults \cup {None}, verdict : {None}]

RunTyped ==
  /\ at \in Places /\ phase \in 0 .. D!Seal /\ fault \in Faults \cup {None} /\ uart \in BOOLEAN
  /\ w \in Writers
  /\ queue \in Seq(Units)
  /\ host \in Hosts

\* The records the line has drained, and whether the one under way was read to its end.
One(b) == IF b THEN 1 ELSE 0
Drained == w.sent + One(w.invalidated) + One(w.terminal)
Under(kind) == w.pending # None /\ w.pending.kind = kind
Arrived == w.pending # None /\ w.off - Len(queue) = RecordSize
Heard(kind) == Arrived /\ w.pending.kind = kind

\* The driver holds the next units of the record under way, and the host those before.
StreamInv ==
  /\ w.pending = None => w.off = 0 /\ queue = <<>> /\ host.line = <<>>
  /\ w.pending # None =>
       /\ w.off <= RecordSize /\ Len(queue) <= w.off
       /\ \A i \in 1 .. Len(queue) :
            queue[i] = [rec |-> w.pending, unit |-> w.off - Len(queue) + i]
       /\ IF w.off - Len(queue) = RecordSize THEN host.line = <<>>
          ELSE /\ Len(host.line) = w.off - Len(queue)
               /\ \A i \in 1 .. Len(host.line) :
                    host.line[i] = [rec |-> w.pending, unit |-> i]

\* A record under way is the next one of the run.
RecordInv ==
  /\ w.seq = Drained + One(w.pending # None /\ w.off = RecordSize)
  /\ w.pending # None => w.pending.seq = Drained
  /\ Under("S") => /\ w.pending.part = w.sent + 1 /\ w.pending.of = w.success
                   /\ w.sent < w.success /\ ~w.invalidated /\ ~w.terminal
  /\ Under("I") => w.complete /\ ~w.invalidated /\ ~w.terminal /\ fault = Withdrawn
  /\ Under("F") => ~w.terminal /\ w.pending.fault = fault

\* How far the writer is, and what that says of the run.
WriterSays ==
  /\ w.sent <= w.success /\ (w.complete <=> w.success > 0 /\ w.sent = w.success)
  /\ w.success > 0 => phase = D!Seal
  /\ w.invalidated => w.complete /\ fault = Withdrawn
  /\ w.terminal \/ Under("F") => at \in Last /\ fault # None /\ (w.success = 0 \/ w.invalidated)

\* Where the controller is, and what that says of the writer.
PlaceSays ==
  /\ at \in {"start", "preflight", "advance", "act", "collect"} => w = D!Writer /\ fault = None
  /\ at = "collect" => phase = D!Seal
  /\ at \in {"success", "poweroff"} =>
       fault = None /\ w.success > 0 /\ ~w.invalidated /\ (w.pending # None => Under("S"))
  /\ at = "poweroff" => w.poisoned \/ (w.pending = None /\ w.complete)
  /\ at = "invalidate" => w.complete /\ fault = Withdrawn /\ (w.pending # None => Under("I"))
  /\ at = "failstop" =>
       /\ fault # None /\ (w.poisoned \/ w.success = 0 \/ w.invalidated)
       /\ w.poisoned \/ w.pending = None \/ Under("F")
  /\ at \in {"off", "exit"} =>
       \/ w.poisoned
       \/ /\ w.pending = None
          /\ uart => IF fault = None THEN w.complete /\ ~w.invalidated ELSE w.terminal

\* The host has read what has arrived.
HostSays ==
  /\ host.seq = Drained + One(Arrived)
  /\ host.got = w.sent + One(Heard("S"))
  /\ host.of = IF host.got = 0 THEN 0 ELSE w.success
  /\ host.failure = IF w.terminal \/ Heard("F") THEN fault ELSE None
  /\ host.state = IF w.invalidated \/ Heard("I") THEN "invalidated"
                  ELSE IF w.terminal \/ Heard("F") THEN "standalone_failure"
                  ELSE IF host.got > 0 THEN "success" ELSE "start"

RunInv == RunTyped /\ StreamInv /\ RecordInv /\ WriterSays /\ PlaceSays /\ HostSays

Early == {"start", "preflight", "advance", "act", "collect"}

-----------------------------------------------------------------------------
\* A run starts with an empty line and a host that has read nothing.
LEMMA RunInit == D!Init => RunInv
<1> SUFFICES ASSUME D!Init PROVE RunInv
  OBVIOUS
<1>0. PICK n \in 0 .. MaxPreamble + 1 : host = D!Unread(n)
  BY DEF D!Init
<1>1. /\ at = "start" /\ phase = 0 /\ fault = None /\ uart = FALSE /\ queue = <<>>
      /\ w = [seq |-> 0, pending |-> None, off |-> 0, poisoned |-> FALSE, success |-> 0, sent |-> 0,
              complete |-> FALSE, invalidated |-> FALSE, terminal |-> FALSE]
      /\ host = [before |-> n, state |-> "start", seq |-> 0, line |-> <<>>, got |-> 0, of |-> 0,
                 failure |-> None, verdict |-> None]
  BY <1>0 DEF D!Init, D!Writer, D!Unread
<1>2. RunTyped
  <2>1. <<>> \in Seq(Units) /\ 0 \in 0 .. MaxSuccess /\ 0 \in 0 .. D!Seal /\ n \in Nat
    BY RunAssumption DEF D!Seal
  <2> QED BY <1>1, <2>1 DEF RunTyped, Places, Writers, Hosts
<1>3. StreamInv /\ RecordInv /\ HostSays
  BY <1>1 DEF StreamInv, RecordInv, HostSays, Drained, One, Under, Arrived, Heard
<1>4. WriterSays /\ PlaceSays
  BY <1>1 DEF WriterSays, PlaceSays, D!Writer, Under
<1> QED BY <1>2, <1>3, <1>4 DEF RunInv

\* The withdrawal is a fault of the last phase.
LEMMA SealIs15 == D!Seal = 15 /\ Withdrawn \in Faults /\ Withdrawn # None
BY RunAssumption DEF D!Seal, Withdrawn, D!Fault, Faults

\* Up to the result the writer is untouched: the controller goes on, or fails.
LEMMA EarlyStep ==
  ASSUME RunInv, at \in Early, UNCHANGED <<w, queue, host>>,
         phase' \in 0 .. D!Seal, uart' \in BOOLEAN, at' = "collect" => phase' = D!Seal,
         \/ at' \in Early /\ fault' = fault
         \/ at' = "failstop" /\ fault' \in Faults
  PROVE  RunInv'
<1>1. /\ w.pending = None /\ w.success = 0 /\ w.sent = 0 /\ ~w.complete /\ ~w.invalidated
      /\ ~w.terminal /\ w.off = 0 /\ w.seq = 0 /\ ~w.poisoned /\ fault = None /\ w = D!Writer
  BY DEF RunInv, PlaceSays, Early, D!Writer
<1>2. fault' \in Faults \cup {None} /\ (at' = "failstop" => fault' # None)
  BY <1>1, RunAssumption DEF Early
<1>3. RunTyped'
  BY <1>2 DEF RunInv, RunTyped, Early, Places, D!Seal
<1>4. StreamInv' /\ HostSays'
  BY <1>1 DEF RunInv, StreamInv, HostSays, Drained, One, Arrived, Heard
<1>5. RecordInv' /\ WriterSays'
  BY <1>1 DEF RunInv, RecordInv, WriterSays, Drained, One, Under
<1>6. PlaceSays'
  BY <1>1, <1>2 DEF PlaceSays, Early, D!Writer
<1> QED BY <1>3, <1>4, <1>5, <1>6 DEF RunInv

\* The controller up to the sealed stream.
LEMMA EarlySteps ==
  ASSUME RunInv, D!Start \/ D!Preflight \/ D!Advance \/ D!Act \/ D!SealAndRead
  PROVE  RunInv'
<1> USE SealIs15
<1>1. phase \in 0 .. 15 /\ uart \in BOOLEAN /\ at \in Places
  BY DEF RunInv, RunTyped
<1>2. CASE D!Start
  <2>1. \A f \in D!InputFaults : f \in Faults
    BY DEF D!InputFaults, Faults
  <2>2. D!Fault("EXPORT", 1) \in Faults
    BY DEF D!Fault, Faults
  <2> QED BY <1>1, <1>2, <2>1, <2>2, EarlyStep DEF D!Start, D!Fails, Early
<1>3. CASE D!Preflight
  <2>1. \A f \in D!PreflightFaults : f \in Faults
    BY DEF D!PreflightFaults, Faults
  <2> QED BY <1>1, <1>3, <2>1, EarlyStep DEF D!Preflight, D!Fails, Early
<1>4. CASE D!Advance
  <2>1. D!Fault("TRACE", phase) \in Faults
    BY <1>1 DEF D!Fault, Faults
  <2> QED BY <1>1, <1>4, <2>1, EarlyStep DEF D!Advance, D!Fails, Early
<1>5. CASE D!Act
  <2>1. \A r \in D!PhaseReasons(phase) : D!Fault(r, phase) \in Faults
    BY <1>1 DEF D!Fault, Faults, D!PhaseReasons
  <2> QED BY <1>1, <1>5, <2>1, EarlyStep DEF D!Act, D!Fails, Early
<1>6. CASE D!SealAndRead
  <2>1. \A p \in {14, 15} : D!Fault("TRACE", p) \in Faults
    BY DEF D!Fault, Faults
  <2> QED BY <1>1, <1>6, <2>1, EarlyStep DEF D!SealAndRead, D!Fails, Early
<1> QED BY <1>2, <1>3, <1>4, <1>5, <1>6

\* load_success
LEMMA CollectStep ==
  ASSUME RunInv, D!Collect
  PROVE  RunInv'
<1> USE SealIs15
<1>1. phase \in 0 .. 15 /\ uart \in BOOLEAN /\ at = "collect" /\ at \in Early
  BY DEF RunInv, RunTyped, D!Collect, Early
<1>2. ASSUME NEW f \in D!CollectFaults, D!Fails(f), UNCHANGED <<phase, uart>> PROVE RunInv'
  <2>1. f \in Faults
    BY DEF D!CollectFaults, Faults
  <2> QED BY <1>1, <1>2, <2>1, EarlyStep DEF D!Fails
<1>3. ASSUME NEW n \in 1 .. MaxSuccess, at' = "success", w' = [w EXCEPT !.success = n],
             UNCHANGED <<phase, fault, uart, queue, host, power>>
      PROVE  RunInv'
  <2>1. w \in Writers /\ w.pending = None /\ w.success = 0 /\ w.sent = 0 /\ ~w.complete
        /\ ~w.invalidated /\ ~w.terminal /\ w.off = 0 /\ w.seq = 0 /\ ~w.poisoned
        /\ fault = None /\ phase = 15
    BY <1>1 DEF RunInv, RunTyped, PlaceSays, Early, D!Writer
  <2>2. /\ w' \in Writers /\ w'.success = n /\ w'.pending = None /\ w'.sent = 0 /\ ~w'.complete
        /\ ~w'.invalidated /\ ~w'.terminal /\ w'.off = 0 /\ w'.seq = 0 /\ ~w'.poisoned
    BY <1>3, <2>1, RunAssumption DEF Writers
  <2>3. RunTyped'
    BY <1>3, <2>2 DEF RunInv, RunTyped, Places
  <2>4. StreamInv' /\ RecordInv'
    BY <1>3, <2>1, <2>2 DEF RunInv, StreamInv, RecordInv, Drained, One, Under
  <2>5. HostSays'
    BY <1>3, <2>1, <2>2 DEF RunInv, HostSays, Drained, One, Arrived, Heard
  <2>6. WriterSays' /\ PlaceSays'
    BY <1>3, <2>1, <2>2, RunAssumption DEF WriterSays, PlaceSays, Under
  <2> QED BY <2>3, <2>4, <2>5, <2>6 DEF RunInv
<1> QED BY <1>2, <1>3 DEF D!Collect

\* The writer begins a record: nothing of it has been written.
LEMMA Begins ==
  ASSUME RunInv, NEW kind \in {"S", "I", "F"}, D!Begin(kind), D!CanStart
  PROVE  /\ w' \in Writers /\ w.pending = None /\ w'.pending \in Records /\ w'.pending # None
         /\ w'.pending = D!Record(kind) /\ w'.off = 0 /\ w'.seq = w.seq
         /\ w'.poisoned = w.poisoned /\ ~w.poisoned /\ w'.success = w.success /\ w'.sent = w.sent
         /\ w'.complete = w.complete /\ w'.invalidated = w.invalidated /\ w'.terminal = w.terminal
<1>1. w \in Writers /\ fault \in Faults \cup {None} /\ w.seq \in Nat /\ w.sent \in Nat
      /\ w.success \in Nat
  BY RunAssumption DEF RunInv, RunTyped, Writers
<1>2. D!Record(kind) \in Records /\ D!Record(kind) # None
  BY <1>1, RunAssumption DEF D!Record, Records
<1>3. w' = [w EXCEPT !.pending = D!Record(kind), !.off = 0]
  BY DEF D!Begin
<1> HIDE DEF D!Record
<1>4. w' \in Writers
  BY <1>1, <1>2, <1>3 DEF Writers
<1> QED BY <1>1, <1>2, <1>3, <1>4 DEF Writers, D!CanStart

\* What the host has read does not change by it.
LEMMA BeginKeeps ==
  ASSUME RunInv, NEW kind \in {"S", "I", "F"}, D!Begin(kind), D!CanStart,
         UNCHANGED <<at, phase, fault, uart, queue, host>>
  PROVE  /\ RunTyped' /\ StreamInv' /\ HostSays'
         /\ w'.pending.kind = kind /\ w'.pending.seq = Drained /\ Drained' = Drained
         /\ kind = "S" => w'.pending.part = w.sent + 1 /\ w'.pending.of = w.success
         /\ kind = "F" => w'.pending.fault = fault
<1>1. /\ w' \in Writers /\ w.pending = None /\ w'.pending \in Records /\ w'.pending # None
      /\ w'.pending = D!Record(kind) /\ w'.off = 0 /\ w'.seq = w.seq
      /\ w'.poisoned = w.poisoned /\ ~w.poisoned /\ w'.success = w.success /\ w'.sent = w.sent
      /\ w'.complete = w.complete /\ w'.invalidated = w.invalidated /\ w'.terminal = w.terminal
  BY Begins
<1>2. queue = <<>> /\ host.line = <<>> /\ Len(queue) = 0 /\ Len(host.line) = 0
  BY <1>1 DEF RunInv, StreamInv
<1>3. RunTyped'
  BY <1>1 DEF RunInv, RunTyped
<1>4. StreamInv'
  <2>1. queue' = queue /\ host' = host
    OBVIOUS
  <2>2. /\ w'.off <= RecordSize /\ Len(queue) <= w'.off /\ w'.off - Len(queue) # RecordSize
        /\ Len(host.line) = w'.off - Len(queue)
    <3>1. w'.off = 0 /\ Len(queue) = 0 /\ Len(host.line) = 0
      BY <1>1, <1>2
    <3>2. RecordSize \in Nat /\ RecordSize # 0
      BY RunAssumption
    <3> QED BY <3>1, <3>2
  <2>3. 1 .. Len(queue) = {} /\ 1 .. Len(host.line) = {}
    BY <1>2
  <2> QED BY <1>1, <2>1, <2>2, <2>3 DEF StreamInv
<1>5. ~Arrived' /\ ~Arrived
  BY <1>1, <1>2, RunAssumption DEF Arrived
<1>6. Drained' = Drained
  BY <1>1 DEF Drained
<1>7. HostSays'
  BY <1>1, <1>5, <1>6 DEF RunInv, HostSays, Heard, One
<1>8. w.seq = Drained
  BY <1>1 DEF RunInv, RunTyped, RecordInv, One, Drained, Writers
<1>9. /\ w'.pending.kind = kind /\ w'.pending.seq = w.seq
      /\ kind = "S" => w'.pending.part = w.sent + 1 /\ w'.pending.of = w.success
      /\ kind = "F" => w'.pending.fault = fault
  BY <1>1 DEF D!Record
<1> QED BY <1>3, <1>4, <1>6, <1>7, <1>8, <1>9

\* The result, its withdrawal and the failure each begin their record in their place.
LEMMA BeginStep ==
  ASSUME RunInv, NEW kind \in {"S", "I", "F"}, D!Begin(kind), D!CanStart,
         UNCHANGED <<at, phase, fault, uart, queue, host>>,
         \/ kind = "S" /\ at = "success" /\ ~w.complete
         \/ kind = "I" /\ at = "invalidate" /\ ~w.invalidated
         \/ kind = "F" /\ at = "failstop" /\ D!CanEmitFailure
  PROVE  RunInv'
<1>1. /\ w' \in Writers /\ w.pending = None /\ w'.pending \in Records /\ w'.pending # None
      /\ w'.pending = D!Record(kind) /\ w'.off = 0 /\ w'.seq = w.seq
      /\ w'.poisoned = w.poisoned /\ ~w.poisoned /\ w'.success = w.success /\ w'.sent = w.sent
      /\ w'.complete = w.complete /\ w'.invalidated = w.invalidated /\ w'.terminal = w.terminal
  BY Begins
<1>2. /\ RunTyped' /\ StreamInv' /\ HostSays'
      /\ w'.pending.kind = kind /\ w'.pending.seq = Drained /\ Drained' = Drained
      /\ kind = "S" => w'.pending.part = w.sent + 1 /\ w'.pending.of = w.success
      /\ kind = "F" => w'.pending.fault = fault
  BY BeginKeeps
<1>3. w \in Writers /\ w.sent \in Nat /\ w.success \in Nat
  BY RunAssumption DEF RunInv, RunTyped, Writers
<1>4. w'.seq = Drained' + One(w'.pending # None /\ w'.off = RecordSize)
  BY <1>1, <1>2, <1>3, RunAssumption DEF RunInv, RecordInv, One, Drained, Writers
<1>5. CASE kind = "S"
  <2>1. w.sent < w.success /\ ~w.invalidated /\ ~w.terminal /\ fault = None
    BY <1>1, <1>3, <1>5 DEF RunInv, WriterSays, PlaceSays, Last
  <2>2. RecordInv' /\ WriterSays' /\ PlaceSays'
    BY <1>1, <1>2, <1>4, <1>5, <2>1 DEF RunInv, RecordInv, WriterSays, PlaceSays, Under
  <2> QED BY <1>2, <2>2 DEF RunInv
<1>6. CASE kind = "I"
  <2>1. w.complete /\ ~w.invalidated /\ ~w.terminal /\ fault = Withdrawn
    BY <1>1, <1>3, <1>6 DEF RunInv, WriterSays, PlaceSays, Last
  <2>2. RecordInv' /\ WriterSays' /\ PlaceSays'
    BY <1>1, <1>2, <1>4, <1>6, <2>1 DEF RunInv, RecordInv, WriterSays, PlaceSays, Under
  <2> QED BY <1>2, <2>2 DEF RunInv
<1>7. CASE kind = "F"
  <2>1. ~w.terminal /\ fault # None /\ (w.success = 0 \/ w.invalidated)
    BY <1>1, <1>3, <1>7 DEF RunInv, PlaceSays, D!CanEmitFailure
  <2>2. RecordInv' /\ WriterSays' /\ PlaceSays'
    BY <1>1, <1>2, <1>4, <1>7, <2>1 DEF RunInv, RecordInv, WriterSays, PlaceSays, Under, Last
  <2> QED BY <1>2, <2>2 DEF RunInv
<1> QED BY <1>5, <1>6, <1>7

\* There is room for every record of a run: MAX_FRAMES is never met.
LEMMA Room ==
  ASSUME RunInv, w.pending = None, ~w.poisoned, ~w.terminal
  PROVE  D!CanStart
<1>1. w.sent \in Nat /\ w.success \in 0 .. MaxSuccess /\ w.sent <= w.success
  BY DEF RunInv, RunTyped, Writers, WriterSays
<1>2. w.seq = w.sent + One(w.invalidated)
  BY <1>1 DEF RunInv, RecordInv, Drained, One
<1>3. One(w.invalidated) \in 0 .. 1
  BY DEF One
<1>4. w.seq < MaxFrames
  BY <1>1, <1>2, <1>3, RunAssumption
<1> QED BY <1>4 DEF D!CanStart

\* The controller moves on and the writer stays as it is.
LEMMA MoveStep ==
  ASSUME RunInv, UNCHANGED <<phase, uart, w, queue, host>>, at' \in Places,
         \/ fault' = fault
         \/ fault' = Withdrawn /\ ~w.terminal /\ ~Under("F"),
         w.terminal \/ Under("F") => at' \in Last, PlaceSays'
  PROVE  RunInv'
<1>1. fault' \in Faults \cup {None}
  BY SealIs15 DEF RunInv, RunTyped
<1>2. RunTyped'
  BY <1>1 DEF RunInv, RunTyped
<1>3. StreamInv'
  BY DEF RunInv, StreamInv
<1>4. (Arrived' <=> Arrived) /\ Drained' = Drained
      /\ \A k \in {"S", "I", "F"} : (Under(k)' <=> Under(k)) /\ (Heard(k)' <=> Heard(k))
  BY DEF Arrived, Drained, Under, Heard
<1>5. CASE fault' = fault
  <2>1. RecordInv'
    BY <1>4, <1>5 DEF RunInv, RecordInv, One
  <2>2. WriterSays'
    BY <1>4, <1>5 DEF RunInv, WriterSays
  <2>3. HostSays'
    BY <1>4, <1>5 DEF RunInv, HostSays, One
  <2> QED BY <1>2, <1>3, <2>1, <2>2, <2>3 DEF RunInv
<1>6. CASE fault' = Withdrawn /\ ~w.terminal /\ ~Under("F")
  <2>1. RecordInv'
    BY <1>4, <1>6 DEF RunInv, RecordInv, One
  <2>2. WriterSays'
    BY <1>4, <1>6 DEF RunInv, WriterSays
  <2>3. ~Heard("F")
    BY <1>6 DEF Heard, Under, Arrived
  <2>4. HostSays'
    BY <1>4, <1>6, <2>3 DEF RunInv, HostSays, One
  <2> QED BY <1>2, <1>3, <2>1, <2>2, <2>4 DEF RunInv
<1> QED BY <1>5, <1>6

\* write_success: the next record, or the poweroff after the last.
LEMMA SuccessStep ==
  ASSUME RunInv, D!Success
  PROVE  RunInv'
<1>1. CASE w.pending = None /\ ~w.complete /\ D!CanStart /\ D!Begin("S") /\ D!Goto("success")
           /\ UNCHANGED <<fault, power>>
  BY <1>1, BeginStep DEF D!Success, D!Goto
<1>2. CASE /\ w.complete \/ w.poisoned \/ (w.pending = None /\ ~D!CanStart)
           /\ D!Goto("poweroff") /\ UNCHANGED <<fault, w, power>>
  <2>1. /\ at = "success" /\ at' = "poweroff" /\ UNCHANGED <<phase, uart, w, queue, host, fault>>
        /\ fault = None /\ w.success > 0 /\ ~w.invalidated /\ (w.pending # None => Under("S"))
        /\ ~w.terminal
    BY <1>2 DEF D!Success, D!Goto, RunInv, PlaceSays, WriterSays, Last
  <2>2. w.sent \in Nat /\ w.success \in Nat
    BY RunAssumption DEF RunInv, RunTyped, Writers
  <2>3. w.poisoned \/ (w.pending = None /\ w.complete)
    BY <1>2, <2>1, <2>2, Room DEF RunInv, RecordInv, WriterSays
  <2>4. PlaceSays'
    BY <2>1, <2>3 DEF PlaceSays, Under
  <2>5. ~Under("F")
    BY <2>1 DEF Under
  <2> QED BY <2>1, <2>4, <2>5, MoveStep DEF Places
<1> QED BY <1>1, <1>2 DEF D!Success

\* request_poweroff: only one that comes back gives the run a fault.
LEMMA PowerOffStep ==
  ASSUME RunInv, D!PowerOff
  PROVE  RunInv'
<1>1. /\ at = "poweroff" /\ UNCHANGED <<phase, uart, w, queue, host>>
      /\ fault = None /\ w.success > 0 /\ ~w.invalidated /\ (w.pending # None => Under("S"))
      /\ ~w.terminal /\ (w.poisoned \/ (w.pending = None /\ w.complete))
  BY DEF D!PowerOff, D!Goto, RunInv, PlaceSays, WriterSays, Last
<1>2. ~Under("F")
  BY <1>1 DEF Under
<1>3. CASE at' = "off" /\ fault' = fault
  <2>1. PlaceSays'
    BY <1>1, <1>3 DEF PlaceSays
  <2> QED BY <1>1, <1>2, <1>3, <2>1, MoveStep DEF Places
<1>4. CASE /\ fault' = Withdrawn
           /\ at' = IF w.complete /\ ~w.poisoned THEN "invalidate" ELSE "failstop"
  <2>1. PlaceSays'
    BY <1>1, <1>4, SealIs15 DEF PlaceSays, Under
  <2> QED BY <1>1, <1>2, <1>4, <2>1, MoveStep DEF Places
<1> QED BY <1>3, <1>4 DEF D!PowerOff, D!Goto, Withdrawn

\* emit_invalidator: the result is withdrawn once.
LEMMA InvalidateStep ==
  ASSUME RunInv, D!Invalidate
  PROVE  RunInv'
<1>1. CASE w.pending = None /\ ~w.invalidated /\ D!CanStart /\ D!Begin("I") /\ D!Goto("invalidate")
           /\ UNCHANGED <<fault, power>>
  BY <1>1, BeginStep DEF D!Invalidate, D!Goto
<1>2. CASE /\ w.poisoned \/ w.invalidated \/ (w.pending = None /\ ~D!CanStart)
           /\ D!Goto("failstop") /\ UNCHANGED <<fault, w, power>>
  <2>1. /\ at = "invalidate" /\ at' = "failstop" /\ UNCHANGED <<phase, uart, w, queue, host, fault>>
        /\ fault = Withdrawn /\ w.complete /\ ~w.terminal /\ (w.pending # None => Under("I"))
    BY <1>2 DEF D!Invalidate, D!Goto, RunInv, PlaceSays, WriterSays, Last
  <2>2. w.poisoned \/ (w.pending = None /\ w.invalidated)
    BY <1>2, <2>1, Room DEF RunInv, RecordInv
  <2>3. PlaceSays'
    BY <2>1, <2>2, SealIs15 DEF PlaceSays
  <2> QED BY <2>1, <2>3, MoveStep DEF Places, Last
<1> QED BY <1>1, <1>2 DEF D!Invalidate

\* _fail_stop: one failure record, if there is no result or it was withdrawn.
LEMMA FailStopStep ==
  ASSUME RunInv, D!FailStop
  PROVE  RunInv'
<1>1. CASE D!CanEmitFailure /\ D!CanStart /\ D!Begin("F") /\ D!Goto("failstop")
           /\ UNCHANGED <<fault, power>>
  BY <1>1, BeginStep DEF D!FailStop, D!Goto
<1>2. CASE /\ w.poisoned \/ (w.pending = None /\ ~(uart /\ D!CanEmitFailure /\ D!CanStart))
           /\ at' \in {"off", "exit"}
           /\ UNCHANGED <<phase, fault, uart, w, queue, host>>
  <2>1. /\ at = "failstop" /\ fault # None /\ (w.poisoned \/ w.success = 0 \/ w.invalidated)
    BY DEF D!FailStop, RunInv, PlaceSays
  <2>2. ~w.poisoned /\ uart => w.terminal
    BY <1>2, <2>1, Room DEF D!CanEmitFailure
  <2>3. PlaceSays'
    BY <1>2, <2>1, <2>2 DEF PlaceSays
  <2> QED BY <1>2, <2>3, MoveStep DEF Places, Last
<1> QED BY <1>1, <1>2 DEF D!FailStop

\* The deadline of a record.
LEMMA PoisonStep ==
  ASSUME RunInv, D!Poison
  PROVE  RunInv'
<1>1. w \in Writers
  BY DEF RunInv, RunTyped
<1>2. /\ w.pending # None /\ w' = [w EXCEPT !.poisoned = TRUE]
      /\ UNCHANGED <<at, phase, fault, uart, queue, host>>
  BY DEF D!Poison, D!Expires, D!Pending, D!Poisoned
<1>3. /\ w' \in Writers /\ w'.poisoned /\ w'.pending = w.pending /\ w'.off = w.off /\ w'.seq = w.seq
      /\ w'.success = w.success /\ w'.sent = w.sent /\ w'.complete = w.complete
      /\ w'.invalidated = w.invalidated /\ w'.terminal = w.terminal
  BY <1>1, <1>2 DEF Writers
<1>4. RunTyped'
  BY <1>2, <1>3 DEF RunInv, RunTyped
<1>5. StreamInv'
  BY <1>2, <1>3 DEF RunInv, StreamInv
<1>6. (Arrived' <=> Arrived) /\ Drained' = Drained
      /\ \A k \in {"S", "I", "F"} : (Under(k)' <=> Under(k)) /\ (Heard(k)' <=> Heard(k))
  BY <1>2, <1>3 DEF Arrived, Drained, Under, Heard
<1>7. RecordInv' /\ HostSays'
  BY <1>2, <1>3, <1>6 DEF RunInv, RecordInv, HostSays, One
<1>8. WriterSays'
  BY <1>2, <1>3, <1>6 DEF RunInv, WriterSays
<1>9. PlaceSays'
  <2>1. at \notin {"start", "preflight", "advance", "act", "collect"}
    BY <1>2 DEF RunInv, PlaceSays, D!Writer
  <2> QED BY <1>2, <1>3, <1>6, <2>1 DEF RunInv, PlaceSays
<1> QED BY <1>4, <1>5, <1>7, <1>8, <1>9 DEF RunInv

\* A place where a record may be under way.
LEMMA PendingPlaces ==
  ASSUME RunInv, w.pending # None, ~w.poisoned
  PROVE  /\ at \in {"success", "invalidate", "failstop"}
         /\ at = "success" => Under("S")
         /\ at = "invalidate" => Under("I")
         /\ at = "failstop" => Under("F")
BY DEF RunInv, RunTyped, Places, PlaceSays, D!Writer

\* Units appended to the queue.
LEMMA Joined ==
  ASSUME NEW U, NEW q \in Seq(U), NEW e \in Seq(U)
  PROVE  /\ q \o e \in Seq(U) /\ Len(q \o e) = Len(q) + Len(e)
         /\ \A i \in 1 .. Len(q) : (q \o e)[i] = q[i]
         /\ \A i \in Len(q) + 1 .. Len(q) + Len(e) : (q \o e)[i] = e[i - Len(q)]
<1>1. q \o e \in Seq(U) /\ Len(q \o e) = Len(q) + Len(e) /\ Len(q) \in Nat /\ Len(e) \in Nat
  OBVIOUS
<1>2. \A i \in 1 .. Len(q) + Len(e) : (q \o e)[i] = IF i <= Len(q) THEN q[i] ELSE e[i - Len(q)]
  OBVIOUS
<1> QED BY <1>1, <1>2

\* n more units of the record go to the driver.
LEMMA WriteStep ==
  ASSUME RunInv, D!Write
  PROVE  RunInv'
<1> DEFINE k == w.off - Len(queue)
<1>1. /\ w \in Writers /\ queue \in Seq(Units) /\ w.pending # None /\ ~w.poisoned
      /\ w.off < RecordSize /\ w.pending \in Records /\ w.off \in Nat /\ w.seq \in Nat
      /\ RecordSize \in Nat /\ Len(queue) \in Nat
      /\ UNCHANGED <<at, phase, fault, uart, host>>
  BY RunAssumption DEF RunInv, RunTyped, Writers, D!Write, D!Pending
<1>2. PICK n \in 1 .. RecordSize - w.off :
        /\ queue' = queue \o [i \in 1 .. n |-> [rec |-> w.pending, unit |-> w.off + i]]
        /\ w' = [w EXCEPT !.off = w.off + n,
                          !.seq = IF w.off + n = RecordSize THEN w.seq + 1 ELSE w.seq]
  BY DEF D!Write
<1>3. n \in Nat /\ n >= 1 /\ w.off + n <= RecordSize
  BY <1>1
<1>4. /\ w' \in Writers /\ w'.pending = w.pending /\ w'.off = w.off + n /\ w'.poisoned = w.poisoned
      /\ w'.seq = IF w.off + n = RecordSize THEN w.seq + 1 ELSE w.seq
      /\ w'.success = w.success /\ w'.sent = w.sent /\ w'.complete = w.complete
      /\ w'.invalidated = w.invalidated /\ w'.terminal = w.terminal
  <2> DEFINE o == w.off + n
             q == IF w.off + n = RecordSize THEN w.seq + 1 ELSE w.seq
  <2>1. o \in Nat /\ q \in Nat
    BY <1>1, <1>3
  <2>2. w' = [w EXCEPT !.off = o, !.seq = q]
    BY <1>2
  <2>3. o = w.off + n /\ q = IF w.off + n = RecordSize THEN w.seq + 1 ELSE w.seq
    OBVIOUS
  <2> HIDE DEF o, q
  <2>4. /\ w' \in Writers /\ w'.pending = w.pending /\ w'.off = o /\ w'.poisoned = w.poisoned
        /\ w'.seq = q /\ w'.success = w.success /\ w'.sent = w.sent /\ w'.complete = w.complete
        /\ w'.invalidated = w.invalidated /\ w'.terminal = w.terminal
    BY <1>1, <2>1, <2>2 DEF Writers
  <2> QED BY <2>3, <2>4
<1> DEFINE e == [i \in 1 .. n |-> [rec |-> w.pending, unit |-> w.off + i]]
<1>5. \A i \in 1 .. n : [rec |-> w.pending, unit |-> w.off + i] \in Units
  BY <1>1, <1>3 DEF Units
<1>6. e \in Seq(Units) /\ Len(e) = n /\ \A i \in 1 .. n : e[i] = [rec |-> w.pending, unit |-> w.off + i]
  BY <1>3, <1>5
<1>7. queue' = queue \o e
  BY <1>2
<1> HIDE DEF e
<1>8. /\ queue' \in Seq(Units) /\ Len(queue') = Len(queue) + n
      /\ \A i \in 1 .. Len(queue) : queue'[i] = queue[i]
      /\ \A i \in Len(queue) + 1 .. Len(queue) + n : queue'[i] = e[i - Len(queue)]
  <2>1. queue \in Seq(Units) /\ e \in Seq(Units) /\ Len(e) = n
    BY <1>1, <1>6
  <2>2. PICK q : q = queue \o e
    OBVIOUS
  <2>3. /\ q \in Seq(Units) /\ Len(q) = Len(queue) + Len(e)
        /\ \A i \in 1 .. Len(queue) : q[i] = queue[i]
        /\ \A i \in Len(queue) + 1 .. Len(queue) + Len(e) : q[i] = e[i - Len(queue)]
    BY ONLY <2>1, <2>2, Joined
  <2> QED BY <1>7, <2>1, <2>2, <2>3
<1>9. RunTyped'
  BY <1>1, <1>4, <1>8 DEF RunInv, RunTyped
<1>10. w'.off - Len(queue') = k /\ k # RecordSize /\ Len(queue) <= w.off
  BY <1>1, <1>3, <1>4, <1>8 DEF RunInv, StreamInv
<1>11. StreamInv'
  <2>1. ASSUME NEW i \in 1 .. Len(queue') PROVE queue'[i] = [rec |-> w'.pending, unit |-> k + i]
    <3>1. CASE i \in 1 .. Len(queue)
      BY <1>1, <1>4, <1>8, <3>1 DEF RunInv, StreamInv
    <3>2. CASE i \in Len(queue) + 1 .. Len(queue) + n
      <4>1. i - Len(queue) \in 1 .. n /\ w.off + (i - Len(queue)) = k + i
        BY <1>1, <1>3, <3>2
      <4> QED BY <1>4, <1>6, <1>8, <3>2, <4>1
    <3> QED BY <1>1, <1>3, <1>8, <3>1, <3>2
  <2>2. w'.off <= RecordSize /\ Len(queue') <= w'.off
    BY <1>1, <1>3, <1>4, <1>8, <1>10
  <2>3. /\ Len(host.line) = k
        /\ \A i \in 1 .. Len(host.line) : host.line[i] = [rec |-> w.pending, unit |-> i]
    BY <1>1, <1>10 DEF RunInv, StreamInv
  <2> HIDE DEF k
  <2> QED BY <1>1, <1>4, <1>10, <2>1, <2>2, <2>3 DEF StreamInv
<1>12. ~Arrived /\ ~Arrived'
  BY <1>4, <1>10 DEF Arrived
<1>13. Drained' = Drained /\ Drained \in Nat /\ \A x \in {"S", "I", "F"} : (Under(x)' <=> Under(x))
  BY <1>1, <1>4 DEF Drained, Under, One, Writers
<1>14. HostSays'
  BY <1>1, <1>4, <1>12, <1>13 DEF RunInv, HostSays, One, Heard
<1>15. w'.seq = Drained + One(w'.pending # None /\ w'.off = RecordSize)
  BY <1>1, <1>3, <1>4, <1>13 DEF RunInv, RecordInv, One
<1>16. RecordInv'
  BY <1>1, <1>4, <1>13, <1>15 DEF RunInv, RecordInv
<1>17. WriterSays'
  BY <1>1, <1>4, <1>13 DEF RunInv, WriterSays
<1>18. PlaceSays'
  BY <1>1, <1>4, <1>13, PendingPlaces DEF RunInv, PlaceSays
<1> QED BY <1>9, <1>11, <1>14, <1>16, <1>17, <1>18 DEF RunInv

\* The line is empty: the record is noted as sent.
LEMMA DrainStep ==
  ASSUME RunInv, D!Drain
  PROVE  RunInv'
<1>1. /\ w \in Writers /\ w.pending # None /\ ~w.poisoned /\ w.off = RecordSize /\ queue = <<>>
      /\ w.pending \in Records /\ w.sent \in Nat /\ w.success \in Nat
      /\ UNCHANGED <<at, phase, fault, uart, queue, host>>
  BY RunAssumption DEF RunInv, RunTyped, Writers, D!Drain, D!Pending
<1>2. w.pending.kind \in {"S", "I", "F"}
  BY <1>1 DEF Records
<1>3. w' = [w EXCEPT !.pending = None, !.off = 0,
                    !.sent = IF w.pending.kind = "S" THEN w.sent + 1 ELSE w.sent,
                    !.complete = w.complete \/ (w.pending.kind = "S" /\ w.sent + 1 = w.success),
                    !.invalidated = w.invalidated \/ w.pending.kind = "I",
                    !.terminal = w.terminal \/ w.pending.kind = "F"]
  BY DEF D!Drain
<1>4. /\ w' \in Writers /\ w'.pending = None /\ w'.off = 0 /\ w'.poisoned = w.poisoned
      /\ w'.seq = w.seq /\ w'.success = w.success
      /\ w'.sent = IF w.pending.kind = "S" THEN w.sent + 1 ELSE w.sent
      /\ w'.complete <=> w.complete \/ (w.pending.kind = "S" /\ w.sent + 1 = w.success)
      /\ w'.invalidated <=> w.invalidated \/ w.pending.kind = "I"
      /\ w'.terminal <=> w.terminal \/ w.pending.kind = "F"
  <2> DEFINE a == IF w.pending.kind = "S" THEN w.sent + 1 ELSE w.sent
             b == w.complete \/ (w.pending.kind = "S" /\ w.sent + 1 = w.success)
             c == w.invalidated \/ w.pending.kind = "I"
             d == w.terminal \/ w.pending.kind = "F"
  <2>1. a \in Nat /\ b \in BOOLEAN /\ c \in BOOLEAN /\ d \in BOOLEAN
    BY <1>1
  <2>2. w' = [w EXCEPT !.pending = None, !.off = 0, !.sent = a, !.complete = b, !.invalidated = c,
                      !.terminal = d]
    BY <1>3
  <2> HIDE DEF a, b, c, d
  <2>3. /\ w' \in Writers /\ w'.pending = None /\ w'.off = 0 /\ w'.poisoned = w.poisoned
        /\ w'.seq = w.seq /\ w'.success = w.success
        /\ w'.sent = a /\ w'.complete = b /\ w'.invalidated = c /\ w'.terminal = d
    BY <1>1, <2>1, <2>2 DEF Writers
  <2> QED BY <2>3 DEF a, b, c, d
<1>5. Arrived /\ ~Arrived' /\ host.line = <<>>
  <2>1. Len(queue) = 0 /\ w.off - Len(queue) = RecordSize
    BY <1>1, RunAssumption
  <2> QED BY <1>1, <1>4, <2>1 DEF Arrived, RunInv, StreamInv
<1>6. \A x \in {"S", "I", "F"} : (Under(x) <=> w.pending.kind = x) /\ (Heard(x) <=> w.pending.kind = x)
                                /\ ~Under(x)' /\ ~Heard(x)'
  BY <1>1, <1>4, <1>5 DEF Under, Heard
<1>7. /\ Under("S") => ~w.invalidated /\ ~w.terminal /\ w.sent < w.success
      /\ Under("I") => ~w.invalidated /\ ~w.terminal /\ w.complete /\ fault = Withdrawn
      /\ Under("F") => ~w.terminal /\ at \in Last /\ fault # None /\ (w.success = 0 \/ w.invalidated)
  BY DEF RunInv, RecordInv, WriterSays
<1>8. Drained' = Drained + 1 /\ Drained \in Nat
  BY <1>1, <1>2, <1>4, <1>6, <1>7 DEF Drained, One
<1>9. RunTyped'
  BY <1>1, <1>4 DEF RunInv, RunTyped
<1>10. StreamInv'
  BY <1>1, <1>4, <1>5 DEF StreamInv
<1>11. RecordInv'
  <2>1. w.seq = Drained + 1
    BY <1>1 DEF RunInv, RecordInv, One
  <2> QED BY <1>4, <1>6, <1>8, <2>1 DEF RecordInv, One
<1>12. HostSays'
  <2>1. host.seq = Drained + 1
    BY <1>5 DEF RunInv, HostSays, One
  <2>2. host.got = w'.sent
    BY <1>1, <1>4, <1>6 DEF RunInv, HostSays, One
  <2>3. /\ host.failure = IF w'.terminal THEN fault ELSE None
        /\ host.state = IF w'.invalidated THEN "invalidated"
                        ELSE IF w'.terminal THEN "standalone_failure"
                        ELSE IF host.got > 0 THEN "success" ELSE "start"
    BY <1>4, <1>6 DEF RunInv, HostSays
  <2>4. host.of = IF host.got = 0 THEN 0 ELSE w.success
    BY DEF RunInv, HostSays
  <2>5. w'.sent + One(Heard("S"))' = w'.sent
    BY <1>1, <1>4, <1>6 DEF One
  <2> QED BY <1>1, <1>4, <1>5, <1>6, <1>8, <2>1, <2>2, <2>3, <2>4, <2>5 DEF HostSays, One
<1>13. WriterSays'
  <2>1. w.sent <= w.success /\ (w.complete <=> w.success > 0 /\ w.sent = w.success)
        /\ (w.success > 0 => phase = D!Seal) /\ (w.invalidated => w.complete /\ fault = Withdrawn)
        /\ (w.terminal => at \in Last /\ fault # None /\ (w.success = 0 \/ w.invalidated))
    BY DEF RunInv, WriterSays
  <2>2. w'.sent <= w'.success /\ (w'.complete <=> w'.success > 0 /\ w'.sent = w'.success)
    BY <1>1, <1>2, <1>4, <1>6, <1>7, <2>1
  <2>3. w'.invalidated => w'.complete /\ fault = Withdrawn
    BY <1>4, <1>6, <1>7, <2>1
  <2>4. w'.terminal => at \in Last /\ fault # None /\ (w'.success = 0 \/ w'.invalidated)
    BY <1>4, <1>6, <1>7, <2>1
  <2> QED BY <1>1, <1>4, <1>6, <2>1, <2>2, <2>3, <2>4 DEF WriterSays
<1>14. PlaceSays'
  BY <1>1, <1>4, <1>6, <1>7, PendingPlaces DEF RunInv, PlaceSays
<1> QED BY <1>9, <1>10, <1>11, <1>12, <1>13, <1>14 DEF RunInv

\* Fewer than b lines of c units, and one more, are within b * c units.
LEMMA LinesFit == \A a, b, c \in Nat : a < b => a * c + c <= b * c
<1> SUFFICES ASSUME NEW a \in Nat, NEW b \in Nat, NEW c \in Nat, a < b
             PROVE  a * c + c <= b * c
  OBVIOUS
<1>1. PICK d \in Nat : b = (a + 1) + d
  <2>1. b - a - 1 \in Nat /\ b = (a + 1) + (b - a - 1)
    OBVIOUS
  <2> QED BY <2>1
<1>2. b * c = (a * c + c) + d * c
  BY <1>1
<1>3. d * c \in Nat /\ a * c \in Nat
  OBVIOUS
<1> QED BY <1>2, <1>3

\* A record under way is not beyond the frames of a run, nor beyond the host's limits.
LEMMA UnderWayFits ==
  ASSUME RunInv, w.pending # None, ~Arrived
  PROVE  /\ host.seq = Drained /\ Drained \in Nat /\ Drained < MaxFrames
         /\ \A n \in 0 .. RecordSize : ~D!Exceeds(host, n)
<1>1. /\ w \in Writers /\ w.pending \in Records /\ w.sent \in Nat /\ w.success \in 0 .. MaxSuccess
      /\ MaxSuccess \in Nat /\ host.seq = Drained + One(Arrived)
  BY RunAssumption DEF RunInv, RunTyped, Writers, HostSays
<1>2. ~w.terminal /\ w.sent <= w.success
  BY <1>1 DEF RunInv, RecordInv, WriterSays, Under, Records
<1>3. Drained \in Nat /\ Drained < MaxFrames
  <2>1. Drained = w.sent + One(w.invalidated) /\ One(w.invalidated) \in 0 .. 1
    BY <1>1, <1>2 DEF Drained, One
  <2> QED BY <1>1, <1>2, <2>1, RunAssumption
<1>4. host.seq = Drained
  BY <1>1, <1>3 DEF One
<1> DEFINE x == Drained * RecordSize
           y == MaxFrames * RecordSize
<1>5. x + RecordSize <= y /\ y <= MaxWire /\ x \in Nat /\ y \in Nat
  <2>1. RecordSize \in Nat /\ MaxFrames \in Nat /\ y <= MaxWire
    BY RunAssumption
  <2> QED BY <1>3, <2>1, LinesFit
<1> HIDE DEF x, y
<1>6. ASSUME NEW n \in 0 .. RecordSize PROVE n <= MaxLine /\ x + n <= MaxWire
  BY <1>5, RunAssumption
<1>7. \A n : D!Exceeds(host, n) <=> n > MaxLine \/ x + n > MaxWire
  BY <1>4 DEF D!Exceeds, x
<1>8. ASSUME NEW n \in 0 .. RecordSize PROVE ~D!Exceeds(host, n)
  BY <1>5, <1>6, <1>7, RunAssumption
<1> QED BY <1>3, <1>4, <1>8

\* The host reads the end of a record: it is the next one, and where it may be.
LEMMA RecordRead ==
  ASSUME RunInv, w.pending # None, ~Arrived, NEW h, h = D!Reading(host, w.pending)
  PROVE  /\ h \in Hosts /\ h.line = <<>> /\ h.seq = Drained + 1
         /\ h.got = w.sent + One(Under("S"))
         /\ h.of = IF h.got = 0 THEN 0 ELSE w.success
         /\ h.failure = IF w.terminal \/ Under("F") THEN fault ELSE None
         /\ h.state = IF w.invalidated \/ Under("I") THEN "invalidated"
                      ELSE IF w.terminal \/ Under("F") THEN "standalone_failure"
                      ELSE IF h.got > 0 THEN "success" ELSE "start"
<1>1. /\ host \in Hosts /\ w \in Writers /\ w.pending \in Records /\ fault \in Faults \cup {None}
      /\ w.sent \in Nat /\ w.success \in 0 .. MaxSuccess /\ MaxSuccess \in Nat
      /\ <<>> \in Seq(Units)
  BY RunAssumption DEF RunInv, RunTyped, Writers
<1>2. /\ host.seq = Drained /\ host.got = w.sent
      /\ host.of = IF w.sent = 0 THEN 0 ELSE w.success
      /\ host.failure = IF w.terminal THEN fault ELSE None
      /\ host.state = IF w.invalidated THEN "invalidated"
                      ELSE IF w.terminal THEN "standalone_failure"
                      ELSE IF w.sent > 0 THEN "success" ELSE "start"
  <2>1. ~Heard("S") /\ ~Heard("I") /\ ~Heard("F")
    BY DEF Heard
  <2>2. Drained + 0 = Drained /\ w.sent + 0 = w.sent
    BY <1>1 DEF Drained, One
  <2> QED BY <2>1, <2>2 DEF RunInv, HostSays, One
<1>3. /\ w.pending.kind \in {"S", "I", "F"} /\ w.pending.seq = Drained
      /\ \A x \in {"S", "I", "F"} : Under(x) <=> w.pending.kind = x
  BY <1>1 DEF RunInv, RecordInv, Under, Records
<1>4. /\ ~w.terminal /\ w.sent <= w.success
      /\ w.pending.kind = "S" => /\ w.pending.part = w.sent + 1 /\ w.pending.of = w.success
                                 /\ w.sent < w.success /\ ~w.invalidated
      /\ w.pending.kind = "I" => w.success > 0 /\ w.sent = w.success /\ ~w.invalidated
      /\ w.pending.kind = "F" => w.pending.fault = fault /\ (w.success = 0 \/ w.invalidated)
  BY <1>3 DEF RunInv, RecordInv, WriterSays
<1>5. Drained \in Nat /\ Drained < MaxFrames
  <2>1. Drained = w.sent + One(w.invalidated) /\ One(w.invalidated) \in 0 .. 1
    BY <1>1, <1>4 DEF Drained, One
  <2> QED BY <1>1, <1>4, <2>1, RunAssumption
<1> DEFINE next == [host EXCEPT !.seq = host.seq + 1, !.line = <<>>]
<1>6. /\ next \in Hosts /\ next.line = <<>> /\ next.seq = Drained + 1 /\ next.got = host.got
      /\ next.of = host.of /\ next.failure = host.failure /\ next.state = host.state
  <2>1. Drained + 1 \in Nat /\ host.seq + 1 = Drained + 1
    BY <1>2, <1>5
  <2> QED BY <1>1, <2>1 DEF Hosts
<1>7. ~(host.seq >= MaxFrames \/ w.pending.seq # host.seq)
  BY <1>2, <1>3, <1>5, RunAssumption
<1>8. CASE w.pending.kind = "S"
  <2>1. host.state \in {"start", "success"} /\ host.got < MaxSuccess /\ w.pending.part = host.got + 1
    BY <1>1, <1>2, <1>4, <1>8
  <2>2. h = [next EXCEPT !.state = "success", !.got = next.got + 1, !.of = w.pending.of]
    BY <1>7, <1>8, <2>1 DEF D!Reading
  <2>3. w.sent + 1 \in Nat /\ next.got + 1 = w.sent + 1 /\ w.success \in Nat /\ w.sent + 1 # 0
        /\ w.sent + 1 > 0
    BY <1>1, <1>2, <1>6
  <2> HIDE DEF next
  <2>4. /\ h \in Hosts /\ h.line = <<>> /\ h.seq = Drained + 1 /\ h.got = w.sent + 1
        /\ h.of = w.success /\ h.failure = next.failure /\ h.state = "success"
    <3>1. h = [next EXCEPT !.state = "success", !.got = w.sent + 1, !.of = w.success]
      BY <1>4, <1>8, <2>2, <2>3
    <3> QED BY <1>6, <2>3, <3>1 DEF Hosts
  <2>5. ~Under("I") /\ ~Under("F") /\ One(Under("S")) = 1
    BY <1>3, <1>8 DEF One
  <2> QED BY <1>2, <1>4, <1>6, <1>8, <2>3, <2>4, <2>5
<1>9. CASE w.pending.kind = "I"
  <2>1. host.state = "success" /\ host.got = host.of
    BY <1>1, <1>2, <1>4, <1>9
  <2>2. h = [next EXCEPT !.state = "invalidated"]
    BY <1>7, <1>9, <2>1 DEF D!Reading, D!InnerComplete
  <2> HIDE DEF next
  <2>3. /\ h \in Hosts /\ h.line = <<>> /\ h.seq = Drained + 1 /\ h.got = w.sent
        /\ h.of = host.of /\ h.failure = host.failure /\ h.state = "invalidated"
    BY <1>2, <1>6, <2>2 DEF Hosts
  <2>4. Under("I") /\ ~Under("F") /\ w.sent + One(Under("S")) = w.sent
    BY <1>1, <1>3, <1>9 DEF One
  <2> QED BY <1>2, <1>4, <2>3, <2>4
<1>10. CASE w.pending.kind = "F"
  <2>1. host.state = (IF w.invalidated THEN "invalidated" ELSE "start") /\ host.failure = None
    BY <1>1, <1>2, <1>4, <1>10
  <2> DEFINE x == IF host.state = "start" THEN "standalone_failure" ELSE host.state
  <2>2. h = [next EXCEPT !.state = x, !.failure = fault]
    BY <1>1, <1>4, <1>6, <1>7, <1>10, <2>1 DEF D!Reading
  <2>3. x = IF w.invalidated THEN "invalidated" ELSE "standalone_failure"
    BY <2>1
  <2> HIDE DEF next, x
  <2>4. /\ h \in Hosts /\ h.line = <<>> /\ h.seq = Drained + 1 /\ h.got = w.sent
        /\ h.of = host.of /\ h.failure = fault /\ h.state = x
    BY <1>1, <1>2, <1>6, <2>2, <2>3 DEF Hosts
  <2>5. ~Under("I") /\ Under("F") /\ w.sent + One(Under("S")) = w.sent
    BY <1>1, <1>3, <1>10 DEF One
  <2> QED BY <1>2, <1>4, <2>3, <2>4, <2>5
<1> QED BY <1>3, <1>8, <1>9, <1>10

\* The line moves one unit.
LEMMA TransmitStep ==
  ASSUME RunInv, D!Transmit
  PROVE  RunInv'
<1> DEFINE k == w.off - Len(queue)
           u == Head(queue)
           m == Append(host.line, u)
<1>1. /\ queue # <<>> /\ host' = D!Byte(host, u) /\ queue' = Tail(queue)
      /\ UNCHANGED <<at, phase, fault, uart, w>>
  BY DEF D!Transmit
<1>2. /\ host \in Hosts /\ w \in Writers /\ queue \in Seq(Units) /\ host.line \in Seq(Units)
      /\ w.off \in Nat /\ Len(queue) \in Nat /\ RecordSize \in Nat /\ host.verdict = None
  BY RunAssumption DEF RunInv, RunTyped, Writers, Hosts
<1>3. w.pending # None /\ w.pending \in Records
  BY <1>1, <1>2 DEF RunInv, StreamInv, Writers
<1>4. /\ w.off <= RecordSize /\ Len(queue) <= w.off /\ Len(queue) >= 1
      /\ \A i \in 1 .. Len(queue) : queue[i] = [rec |-> w.pending, unit |-> k + i]
  <2>1. Len(queue) # 0
    BY <1>1, <1>2
  <2> QED BY <1>2, <1>3, <2>1 DEF RunInv, StreamInv
<1>5. k \in Nat /\ k < RecordSize
  BY <1>2, <1>4
<1>6. /\ Len(host.line) = k
      /\ \A i \in 1 .. Len(host.line) : host.line[i] = [rec |-> w.pending, unit |-> i]
  BY <1>3, <1>5 DEF RunInv, StreamInv
<1>7. u = [rec |-> w.pending, unit |-> k + 1] /\ u \in Units
  <2>1. u = queue[1] /\ 1 \in 1 .. Len(queue)
    BY <1>1, <1>2, <1>4
  <2>2. u = [rec |-> w.pending, unit |-> k + 1]
    BY <1>4, <2>1
  <2>3. k + 1 \in Nat
    BY <1>5
  <2> QED BY <1>3, <2>2, <2>3 DEF Units
<1>8. /\ queue' \in Seq(Units) /\ Len(queue') = Len(queue) - 1
      /\ \A i \in 1 .. Len(queue) - 1 : queue'[i] = queue[i + 1]
  BY <1>1, <1>2, <1>4
<1>9. /\ w'.off - Len(queue') = k + 1
      /\ \A i \in 1 .. Len(queue') : queue'[i] = [rec |-> w.pending, unit |-> k + 1 + i]
  <2>1. w' = w
    BY <1>1
  <2>2. ASSUME NEW i \in 1 .. Len(queue) - 1
        PROVE  queue[i + 1] = [rec |-> w.pending, unit |-> k + 1 + i]
    <3>1. k \in Nat /\ Len(queue) \in Nat
      BY <1>2, <1>5
    <3>2. i + 1 \in 1 .. Len(queue) /\ k + (i + 1) = k + 1 + i
      <4> HIDE DEF k
      <4> QED BY <2>2, <3>1
    <3> QED BY <1>4, <3>2
  <2>3. w.off - (Len(queue) - 1) = k + 1
    BY <1>2
  <2> QED BY <1>8, <2>1, <2>2, <2>3
<1> HIDE DEF k, u
<1>10. /\ m \in Seq(Units) /\ Len(m) = k + 1
       /\ \A i \in 1 .. k + 1 : m[i] = [rec |-> w.pending, unit |-> i]
  <2>1. /\ m \in Seq(Units) /\ Len(m) = Len(host.line) + 1 /\ m[Len(host.line) + 1] = u
        /\ \A i \in 1 .. Len(host.line) : m[i] = host.line[i]
    BY <1>2, <1>7
  <2>2. ASSUME NEW i \in 1 .. k + 1 PROVE i = k + 1 \/ i \in 1 .. k
    BY <1>5
  <2> HIDE DEF m
  <2> QED BY <1>6, <1>7, <2>1, <2>2
<1>11. ~Arrived
  <2>1. w.off - Len(queue) # RecordSize
    BY <1>2, <1>5 DEF k
  <2> QED BY <2>1 DEF Arrived
<1>12. /\ Drained' = Drained /\ Drained \in Nat /\ w.sent \in Nat
       /\ \A x \in {"S", "I", "F"} : Under(x)' <=> Under(x)
  BY <1>1, <1>2 DEF Drained, Under, One, Writers
<1>13. RecordInv' /\ WriterSays' /\ PlaceSays'
  BY <1>1, <1>12 DEF RunInv, RecordInv, WriterSays, PlaceSays
<1>14. CASE k + 1 < RecordSize
  <2>1. host' = [host EXCEPT !.line = m]
    BY <1>1, <1>2, <1>7, <1>14 DEF D!Byte
  <2> HIDE DEF m
  <2>2. /\ host' \in Hosts /\ host'.line = m /\ host'.seq = host.seq /\ host'.got = host.got
        /\ host'.of = host.of /\ host'.failure = host.failure /\ host'.state = host.state
    BY <1>2, <1>10, <2>1 DEF Hosts
  <2>3. RunTyped'
    BY <1>1, <1>8, <2>2 DEF RunInv, RunTyped
  <2>4. w'.off - Len(queue') # RecordSize
    BY <1>5, <1>9, <1>14, <1>2
  <2>5. StreamInv'
    <3>1. w'.off <= RecordSize /\ Len(queue') <= w'.off
      BY <1>1, <1>2, <1>4, <1>8
    <3> QED BY <1>1, <1>3, <1>9, <1>10, <2>2, <2>4, <3>1 DEF StreamInv
  <2>6. ~Arrived'
    BY <2>4 DEF Arrived
  <2>7. HostSays'
    BY <1>1, <1>11, <1>12, <2>2, <2>6 DEF RunInv, HostSays, One, Heard
  <2> QED BY <1>13, <2>3, <2>5, <2>7 DEF RunInv
<1>15. CASE k + 1 = RecordSize
  <2>1. D!WellFormed(m)
    <3>1. 1 \in 1 .. k + 1
      BY <1>5
    <3> HIDE DEF m
    <3> QED BY <1>10, <1>15, <3>1 DEF D!WellFormed
  <2>2. host' = D!Reading(host, w.pending)
    <3>1. u.unit = RecordSize /\ u.rec = w.pending /\ ~(u.unit < RecordSize)
      BY <1>2, <1>7, <1>15
    <3>2. D!Marked(m)
      <4>1. MarkerSize \in Nat /\ MarkerSize < RecordSize
        BY RunAssumption
      <4>2. Len(m) >= MarkerSize /\ \A i \in 1 .. MarkerSize : i \in 1 .. k + 1
        BY <1>2, <1>5, <1>10, <1>15, <4>1
      <4> HIDE DEF m
      <4> QED BY <1>10, <4>2 DEF D!Marked
    <3>3. ~D!Exceeds(host, Len(m))
      <4>1. Len(m) \in 0 .. RecordSize
        BY <1>2, <1>10, <1>15
      <4> QED BY <1>3, <1>11, <4>1, UnderWayFits
    <3> QED BY <1>1, <1>2, <2>1, <3>1, <3>2, <3>3 DEF D!Byte
  <2> HIDE DEF m
  <2>3. /\ host' \in Hosts /\ host'.line = <<>> /\ host'.seq = Drained + 1
        /\ host'.got = w.sent + One(Under("S"))
        /\ host'.of = IF host'.got = 0 THEN 0 ELSE w.success
        /\ host'.failure = IF w.terminal \/ Under("F") THEN fault ELSE None
        /\ host'.state = IF w.invalidated \/ Under("I") THEN "invalidated"
                         ELSE IF w.terminal \/ Under("F") THEN "standalone_failure"
                         ELSE IF host'.got > 0 THEN "success" ELSE "start"
    BY <1>3, <1>11, <2>2, RecordRead
  <2>4. RunTyped'
    BY <1>1, <1>8, <2>3 DEF RunInv, RunTyped
  <2>5. w'.off - Len(queue') = RecordSize
    BY <1>9, <1>15
  <2>6. StreamInv'
    <3>1. w'.off <= RecordSize /\ Len(queue') <= w'.off
      BY <1>1, <1>2, <1>4, <1>8
    <3>2. \A i \in 1 .. Len(queue') :
            queue'[i] = [rec |-> w'.pending, unit |-> w'.off - Len(queue') + i]
      BY <1>1, <1>9
    <3> QED BY <1>1, <1>3, <2>3, <2>5, <3>1, <3>2 DEF StreamInv
  <2>7. Arrived' /\ \A x \in {"S", "I", "F"} : Heard(x)' <=> Under(x)
    BY <1>1, <1>3, <2>5 DEF Arrived, Heard, Under
  <2>8. HostSays'
    BY <1>1, <1>12, <2>3, <2>7 DEF HostSays, One
  <2> QED BY <1>13, <2>4, <2>6, <2>8 DEF RunInv
<1>16. k + 1 < RecordSize \/ k + 1 = RecordSize
  BY <1>2, <1>5
<1> QED BY <1>14, <1>15, <1>16

\* Every step of a run keeps its invariant.
LEMMA RunStep == RunInv /\ D!Next => RunInv'
BY EarlySteps, CollectStep, WriteStep, PoisonStep, DrainStep, TransmitStep, SuccessStep,
   PowerOffStep, InvalidateStep, FailStopStep DEF D!Next

\* What the host reads is what the run did, and at the end how it ended.
LEMMA RunInvTold == RunInv => D!HostReadsTheRun /\ D!OutcomeIsTold
<1> SUFFICES ASSUME RunInv PROVE D!HostReadsTheRun /\ D!OutcomeIsTold
  OBVIOUS
<1>1. /\ host \in Hosts /\ w \in Writers /\ host.verdict = None /\ w.sent \in Nat
      /\ w.success \in Nat /\ fault \in Faults \cup {None}
  BY RunAssumption DEF RunInv, RunTyped, Hosts, Writers
<1>2. /\ host.got = w.sent + One(Heard("S"))
      /\ host.of = IF host.got = 0 THEN 0 ELSE w.success
      /\ host.failure = IF w.terminal \/ Heard("F") THEN fault ELSE None
      /\ host.state = IF w.invalidated \/ Heard("I") THEN "invalidated"
                      ELSE IF w.terminal \/ Heard("F") THEN "standalone_failure"
                      ELSE IF host.got > 0 THEN "success" ELSE "start"
  BY DEF RunInv, HostSays
<1>3. ASSUME NEW nul \in 0 .. MaxFill
      PROVE  /\ D!Status(host, nul) = "invalid" => D!Unreadable(host, nul)
             /\ D!Status(host, nul) = "complete_result" => host.state = "success" /\ host.got = host.of
             /\ D!Status(host, nul) = "invalidated_result" => host.state = "invalidated"
             /\ D!Status(host, nul) = "standalone_failure" => host.state = "standalone_failure"
  <2>1. D!Semantic(host) \in {"complete_result", "incomplete", "invalidated_result", "standalone_failure"}
    BY DEF D!Semantic
  <2>2. /\ D!Semantic(host) = "complete_result" => host.state = "success" /\ host.got = host.of
        /\ D!Semantic(host) = "invalidated_result" => host.state = "invalidated"
        /\ D!Semantic(host) = "standalone_failure" => host.state = "standalone_failure"
    BY DEF D!Semantic, D!InnerComplete
  <2>3. ASSUME host.line # <<>>, ~(Len(host.line) < MarkerSize), nul = 0
        PROVE  D!Marked(host.line) /\ ~D!Exceeds(host, Len(host.line) + nul)
    <3>1. w.pending # None /\ ~Arrived /\ Len(host.line) \in Nat /\ Len(host.line) <= RecordSize
          /\ \A i \in 1 .. Len(host.line) : host.line[i] = [rec |-> w.pending, unit |-> i]
      <4>1. w.pending # None /\ ~Arrived
        BY <2>3 DEF RunInv, StreamInv, Arrived
      <4>2. /\ Len(host.line) = w.off - Len(queue) /\ w.off <= RecordSize
            /\ \A i \in 1 .. Len(host.line) : host.line[i] = [rec |-> w.pending, unit |-> i]
        BY <4>1 DEF RunInv, StreamInv, Arrived
      <4>3. /\ host.line \in Seq(Units) /\ queue \in Seq(Units) /\ w.off \in Nat
            /\ RecordSize \in Nat
        BY <1>1, RunAssumption DEF RunInv, RunTyped, Hosts, Writers
      <4>4. Len(host.line) \in Nat /\ Len(queue) \in Nat
        BY <4>3
      <4> QED BY <4>1, <4>2, <4>3, <4>4
    <3>2. Len(host.line) + nul = Len(host.line) /\ Len(host.line) \in 0 .. RecordSize
      BY <2>3, <3>1, RunAssumption
    <3>3. ~D!Exceeds(host, Len(host.line))
      BY <3>1, <3>2, UnderWayFits
    <3>4. MarkerSize \in Nat /\ Len(host.line) >= MarkerSize
          /\ \A i \in 1 .. MarkerSize : i \in 1 .. Len(host.line)
      BY <2>3, <3>1, RunAssumption
    <3>5. D!Marked(host.line)
      <4>1. ASSUME NEW i \in 1 .. MarkerSize PROVE host.line[i].unit = i
        <5>1. host.line[i] = [rec |-> w.pending, unit |-> i]
          BY <3>1, <3>4
        <5> QED BY <5>1
      <4> QED BY <3>4, <4>1 DEF D!Marked
    <3> QED BY <3>2, <3>3, <3>5
  <2>4. nul \in Nat /\ ~(nul > 0) => nul = 0
    BY <1>3, RunAssumption
  <2>5. D!Status(host, nul) \in {"complete_result", "invalidated_result", "standalone_failure"} =>
          D!Status(host, nul) = D!Semantic(host)
    BY <1>1 DEF D!Status
  <2>6. ASSUME D!Status(host, nul) = "invalid", ~D!Unreadable(host, nul) PROVE FALSE
    <3>1. /\ ~(host.before > MaxPreamble)
          /\ ~(host.seq = 0 /\ host.before + Len(host.line) + nul > MaxPreamble)
          /\ host.line # <<>> => ~(Len(host.line) < MarkerSize) /\ ~(nul > 0)
      BY <2>6 DEF D!Unreadable
    <3>2. host.line # <<>> => D!Marked(host.line) /\ ~D!Exceeds(host, Len(host.line) + nul)
      BY <2>3, <2>4, <3>1
    <3> QED BY <1>1, <2>1, <2>6, <3>1, <3>2 DEF D!Status
  <2> QED BY <2>2, <2>5, <2>6
<1>4. \A x \in {"S", "I", "F"} : Heard(x) => Under(x)
  BY DEF Heard, Under, Arrived
<1>5. /\ w.sent <= w.success /\ (w.complete <=> w.success > 0 /\ w.sent = w.success)
      /\ w.success > 0 => phase = D!Seal
      /\ w.invalidated => w.complete /\ fault = Withdrawn
      /\ w.terminal \/ Under("F") => at \in Last /\ fault # None /\ (w.success = 0 \/ w.invalidated)
      /\ Under("S") => w.sent < w.success /\ ~w.invalidated /\ ~w.terminal
      /\ Under("I") => w.complete /\ ~w.invalidated /\ ~w.terminal /\ fault = Withdrawn
  BY DEF RunInv, RecordInv, WriterSays
<1>6. host.got \in Nat /\ (Under("I") => ~Heard("S")) /\ (Under("F") => ~Heard("S"))
      /\ (~Heard("S") => host.got = w.sent)
  BY <1>1, <1>2 DEF One, Heard, Under
<1>7. D!HostReadsTheRun
  <2>1. host.failure # None => host.failure = fault
    BY <1>2
  <2>2. ASSUME host.state = "invalidated" PROVE phase = D!Seal /\ w.success = host.got /\ fault = Withdrawn
    <3>1. w.complete /\ fault = Withdrawn /\ ~Heard("S")
      BY <1>2, <1>4, <1>5, <1>6, <2>2
    <3> QED BY <1>5, <1>6, <3>1
  <2>3. ASSUME host.state = "success", host.got = host.of PROVE phase = D!Seal /\ w.success = host.got
    <3>1. host.got > 0 /\ host.of = w.success
      BY <1>1, <1>2, <1>6, <2>3
    <3> QED BY <1>5, <2>3, <3>1
  <2>4. ASSUME host.state = "standalone_failure" PROVE w.success = 0
    BY <1>2, <1>4, <1>5, <2>4
  <2>5. ASSUME NEW nul \in 0 .. MaxFill
        PROVE  /\ D!Status(host, nul) = "invalid" => D!Unreadable(host, nul)
               /\ D!Status(host, nul) \in {"complete_result", "invalidated_result"} =>
                    phase = D!Seal /\ w.success = host.got
               /\ D!Status(host, nul) = "standalone_failure" => w.success = 0
               /\ D!Status(host, nul) = "invalidated_result" => fault = D!Fault("EXPORT", D!Seal)
    BY <1>3, <2>2, <2>3, <2>4 DEF Withdrawn
  <2> QED BY <2>1, <2>5 DEF D!HostReadsTheRun
<1>8. D!OutcomeIsTold
  <2> SUFFICES ASSUME at \in {"off", "exit"}, uart, ~w.poisoned, host.before <= MaxPreamble,
                      NEW nul \in 0 .. MaxFill
               PROVE  IF fault = None THEN D!Status(host, nul) = "complete_result"
                      ELSE /\ host.failure = fault
                           /\ D!Status(host, nul) = IF w.success = 0 THEN "standalone_failure"
                                                    ELSE "invalidated_result"
    BY DEF D!OutcomeIsTold, D!Over
  <2>1. /\ w.pending = None
        /\ IF fault = None THEN w.complete /\ ~w.invalidated ELSE w.terminal
    BY DEF RunInv, PlaceSays
  <2>2. host.line = <<>> /\ ~Heard("S") /\ ~Heard("I") /\ ~Heard("F")
    BY <2>1 DEF RunInv, StreamInv, Heard, Arrived
  <2>9. w.sent > 0 \/ w.terminal => D!Status(host, nul) = D!Semantic(host)
    <3>1. ASSUME w.sent > 0 \/ w.terminal PROVE host.seq # 0
      <4>1. host.seq = Drained
        BY <1>1, <2>1 DEF RunInv, HostSays, Arrived, One, Drained
      <4> QED BY <1>1, <3>1, <4>1 DEF Drained, One, Writers
    <3>2. ~(host.before > MaxPreamble)
      BY <1>1, RunAssumption DEF Hosts
    <3> QED BY <1>1, <2>2, <3>1, <3>2 DEF D!Status
  <2>3. CASE fault = None
    <3>1. w.complete /\ ~w.invalidated /\ ~w.terminal
      BY <1>5, <2>1, <2>3
    <3>2. host.state = "success" /\ host.got = host.of
      BY <1>1, <1>2, <1>5, <1>6, <2>2, <3>1
    <3>3. D!Status(host, nul) = D!Semantic(host)
      <4>1. w.sent > 0
        BY <1>1, <1>5, <3>1
      <4> QED BY <1>1, <2>2, <2>9, <4>1
    <3> QED BY <2>3, <3>2, <3>3 DEF D!Semantic, D!InnerComplete
  <2>4. CASE fault # None
    <3>1. w.terminal /\ (w.success = 0 \/ w.invalidated)
      BY <1>5, <2>1, <2>4
    <3>2. host.failure = fault
      BY <1>2, <3>1
    <3>3. w.invalidated => w.success # 0
      BY <1>1, <1>5
    <3>4. host.state = IF w.success = 0 THEN "standalone_failure" ELSE "invalidated"
      BY <1>2, <2>2, <3>1, <3>3
    <3>5. D!Status(host, nul) = D!Semantic(host)
      BY <2>2, <2>9, <3>1
    <3> QED BY <2>4, <3>2, <3>4, <3>5 DEF D!Semantic
  <2> QED BY <2>3, <2>4
<1> QED BY <1>7, <1>8

-----------------------------------------------------------------------------
(* The supervision of a child.                                               *)

Procs == S!Procs
States == {"none", "live", "zombie", "gone"}
There == {"live", "zombie"}

ProcsTyped ==
  proc \in [Procs -> [st : States, parent : Procs \cup {Pid1}, group : BOOLEAN, pipe : BOOLEAN,
                      doomed : BOOLEAN]]

\* A process that is there is PID 1's, or its parent lives; who is not there yet is nobody's
\* parent; the child itself is PID 1's.
Parents ==
  /\ \A p \in Procs : proc[p].st \in There /\ proc[p].parent # Pid1 =>
       proc[proc[p].parent].st = "live"
  /\ \A p \in Procs : proc[p].parent # Pid1 => proc[proc[p].parent].st # "none"
  /\ \A p \in Procs : proc[p].st = "none" => proc[p].parent = Pid1

\* No process descends from itself: every set of processes has one whose parent is outside.
Forest == \A Q \in SUBSET Procs : Q # {} => \E p \in Q : proc[p].parent \notin Q

AllGone == \A p \in Procs : proc[p].st \in {"none", "gone"}

Loop == {"wait", "drain", "census", "signal", "check", "finally", "unwind", "returned", "raised"}

LoopTyped ==
  /\ loop \in Loop /\ term \in {"no", "sent", "due"} /\ kill \in {"no", "sent", "due"}
  /\ status \in {None, "exit0", "other"} /\ seen \in BOOLEAN /\ verdict \in BOOLEAN
  /\ late \in BOOLEAN /\ adopted \in SUBSET Procs

\* A census after the child was reaped that found nobody found all of them gone.
CensusInv ==
  /\ loop \in {"signal", "check"} /\ status # None /\ adopted = {} => AllGone
  /\ loop \in {"signal", "check"} /\ adopted # {} => seen
  /\ loop \in {"finally", "returned"} => AllGone

\* Nothing is terminated without a verdict or a descendant, and PID 1 reaps only then.
BlameInv ==
  /\ term # "no" => verdict \/ seen
  /\ kill # "no" \/ loop = "unwind" => term # "no"
  /\ ~verdict /\ ~seen => \A d \in Descendants : proc[d].st = "gone" => proc[d].parent # Pid1

ChildInv == ProcsTyped /\ Parents /\ Forest /\ LoopTyped /\ CensusInv /\ BlameInv

-----------------------------------------------------------------------------
\* PID 1, the child and its descendants are told apart.
LEMMA ProcsFacts ==
  /\ Pid1 \notin Procs /\ Main \in Procs /\ Descendants \subseteq Procs /\ Main \notin Descendants
  /\ None # "exit0" /\ None # "other"
BY ChildAssumption DEF Procs, S!Procs

\* If PID 1 has no live child, nobody lives: a live process has a live ancestor there.
LEMMA NobodyLives ==
  ASSUME ProcsTyped, Parents, Forest,
         \A p \in Procs : proc[p].parent = Pid1 => proc[p].st # "live"
  PROVE  \A p \in Procs : proc[p].st # "live"
<1> DEFINE Q == {p \in Procs : proc[p].st = "live"}
<1> SUFFICES ASSUME Q # {} PROVE FALSE
  OBVIOUS
<1>1. PICK p \in Q : proc[p].parent \notin Q
  BY DEF Forest
<1>2. proc[p].parent \in Procs \cup {Pid1} /\ proc[p].parent # Pid1
  BY DEF ProcsTyped
<1>3. proc[proc[p].parent].st = "live"
  BY <1>2 DEF Parents, There
<1> QED BY <1>1, <1>2, <1>3

\* And if it has no child at all, nobody is there.
LEMMA NobodyThere ==
  ASSUME ProcsTyped, Parents, Forest,
         \A p \in Procs : proc[p].parent = Pid1 => proc[p].st \notin There
  PROVE  AllGone
<1>1. \A p \in Procs : proc[p].st # "live"
  BY NobodyLives DEF There
<1>2. ASSUME NEW p \in Procs, proc[p].st \in There PROVE FALSE
  <2>1. proc[p].parent # Pid1 /\ proc[p].parent \in Procs \cup {Pid1}
    BY <1>2 DEF ProcsTyped
  <2> QED BY <1>1, <1>2, <2>1 DEF Parents
<1>3. \A p \in Procs : proc[p].st \in States
  BY DEF ProcsTyped
<1> QED BY <1>2, <1>3 DEF AllGone, There, States

\* Processes keep their parents or get PID 1.
LEMMA ForestKept ==
  ASSUME Forest, \A p \in Procs : proc'[p].parent \in {proc[p].parent, Pid1}
  PROVE  Forest'
<1> SUFFICES ASSUME NEW Q \in SUBSET Procs, Q # {} PROVE \E p \in Q : proc'[p].parent \notin Q
  BY DEF Forest, Procs, S!Procs
<1>1. PICK p \in Q : proc[p].parent \notin Q
  BY DEF Forest
<1> QED BY <1>1, ProcsFacts

Family == ProcsTyped /\ Parents /\ Forest

\* A zombie that is reaped was nobody's parent that counts.
LEMMA ReapedKept ==
  ASSUME Family, ProcsTyped',
         \A p \in Procs : /\ proc'[p].parent = proc[p].parent
                          /\ \/ proc'[p].st = proc[p].st
                             \/ proc[p].st = "zombie" /\ proc'[p].st = "gone"
  PROVE  Family'
<1>1. Forest'
  BY ForestKept DEF Family
<1>2. \A p \in Procs : proc[p].parent \in Procs \cup {Pid1}
  BY DEF Family, ProcsTyped
<1>3. Parents'
  BY <1>2 DEF Family, Parents, There, Procs, S!Procs
<1> QED BY <1>1, <1>3 DEF Family

\* A fork, a change of session or of pipes, an end and a reaping by the parent.
LEMMA ProcessKept ==
  ASSUME Family, S!Process
  PROVE  /\ Family' /\ ~AllGone
         /\ \A d \in Procs : proc'[d].st = "gone" /\ proc'[d].parent = Pid1 =>
               proc[d].st = "gone" /\ proc[d].parent = Pid1
<1> USE ProcsFacts
<1>1. /\ proc \in [Procs -> [st : States, parent : Procs \cup {Pid1}, group : BOOLEAN,
                            pipe : BOOLEAN, doomed : BOOLEAN]]
      /\ S!Procs = Procs
  BY DEF Family, ProcsTyped, Procs
<1>2. ASSUME NEW p \in Procs, NEW c \in Descendants, S!Fork(p, c)
      PROVE  Family' /\ ~AllGone /\ \A d \in Procs : proc'[d].st = "gone" /\ proc'[d].parent = Pid1 =>
               proc[d].st = "gone" /\ proc[d].parent = Pid1
  <2>1. /\ c \in Procs /\ proc[p].st = "live" /\ proc[c].st = "none" /\ c # p
        /\ proc' = [proc EXCEPT ![c] = [proc[p] EXCEPT !.parent = p]]
    BY <1>2 DEF S!Fork, S!Live
  <2>2. ProcsTyped'
    BY <1>1, <2>1 DEF ProcsTyped, Procs, S!Procs
  <2>3. /\ proc'[c].parent = p /\ proc'[c].st = "live"
        /\ \A q \in Procs : q # c => proc'[q] = proc[q]
    BY <1>1, <2>1
  <2>4. \A q \in Procs : proc[q].parent # c
    BY <1>1, <2>1 DEF Family, Parents
  <2>5. Parents'
    BY <1>1, <2>1, <2>3, <2>4 DEF Family, Parents, There, Procs, S!Procs
  <2>6. Forest'
    <3> SUFFICES ASSUME NEW Q \in SUBSET Procs, Q # {} PROVE \E q \in Q : proc'[q].parent \notin Q
      BY DEF Forest, Procs, S!Procs
    <3>1. CASE Q \ {c} = {}
      BY <2>1, <2>3, <3>1
    <3>2. CASE Q \ {c} # {}
      <4>1. PICK q \in Q \ {c} : proc[q].parent \notin Q \ {c}
        BY <3>2 DEF Family, Forest
      <4> QED BY <2>3, <2>4, <4>1
    <3> QED BY <3>1, <3>2
  <2> QED BY <2>1, <2>2, <2>3, <2>5, <2>6 DEF Family, AllGone
<1>3. ASSUME NEW p \in Procs, S!Setsid(p) \/ S!ClosePipe(p)
      PROVE  Family' /\ ~AllGone /\ \A d \in Procs : proc'[d].st = "gone" /\ proc'[d].parent = Pid1 =>
               proc[d].st = "gone" /\ proc[d].parent = Pid1
  <2>1. /\ proc[p].st = "live"
        /\ \/ proc' = [proc EXCEPT ![p].group = FALSE]
           \/ proc' = [proc EXCEPT ![p].pipe = FALSE]
    BY <1>3 DEF S!Setsid, S!ClosePipe, S!Live
  <2>2. ProcsTyped' /\ \A q \in Procs : proc'[q].st = proc[q].st /\ proc'[q].parent = proc[q].parent
    <3>1. PICK b \in BOOLEAN, e \in BOOLEAN :
            proc' = [proc EXCEPT ![p] = [proc[p] EXCEPT !.group = b, !.pipe = e]]
      <4>1. CASE proc' = [proc EXCEPT ![p].group = FALSE]
        <5>1. proc' = [proc EXCEPT ![p] = [proc[p] EXCEPT !.group = FALSE, !.pipe = proc[p].pipe]]
          BY <1>1, <4>1
        <5> QED BY <1>1, <5>1
      <4>2. CASE proc' = [proc EXCEPT ![p].pipe = FALSE]
        <5>1. proc' = [proc EXCEPT ![p] = [proc[p] EXCEPT !.group = proc[p].group, !.pipe = FALSE]]
          BY <1>1, <4>2
        <5> QED BY <1>1, <5>1
      <4> QED BY <2>1, <4>1, <4>2
    <3>2. PICK y : y = [proc[p] EXCEPT !.group = b, !.pipe = e]
      OBVIOUS
    <3>3. /\ y \in [st : States, parent : Procs \cup {Pid1}, group : BOOLEAN, pipe : BOOLEAN,
                   doomed : BOOLEAN]
          /\ y.st = proc[p].st /\ y.parent = proc[p].parent
      BY <1>1, <3>2
    <3>4. proc' = [proc EXCEPT ![p] = y]
      BY <3>1, <3>2
    <3> QED BY <1>1, <3>3, <3>4 DEF ProcsTyped
  <2>3. Family'
    BY <2>2, ReapedKept
  <2> QED BY <2>1, <2>2, <2>3 DEF AllGone
<1>4. ASSUME NEW p \in Procs, S!Ends(p)
      PROVE  Family' /\ ~AllGone /\ \A d \in Procs : proc'[d].st = "gone" /\ proc'[d].parent = Pid1 =>
               proc[d].st = "gone" /\ proc[d].parent = Pid1
  <2>1. /\ proc[p].st = "live"
        /\ proc' = [q \in Procs |->
                      IF q = p THEN [proc[p] EXCEPT !.st = "zombie", !.pipe = FALSE]
                      ELSE IF proc[q].parent = p /\ proc[q].st # "gone"
                           THEN [proc[q] EXCEPT !.parent = Pid1] ELSE proc[q]]
    BY <1>1, <1>4 DEF S!Ends, S!Live
  <2>2. /\ proc'[p].st = "zombie" /\ proc'[p].parent = proc[p].parent
        /\ \A q \in Procs \ {p} :
             /\ proc'[q].st = proc[q].st
             /\ proc[q].parent = p /\ proc[q].st # "gone" => proc'[q].parent = Pid1
             /\ ~(proc[q].parent = p /\ proc[q].st # "gone") => proc'[q].parent = proc[q].parent
    BY <1>1, <2>1
  <2>3. ProcsTyped'
    <3> DEFINE T == [st : States, parent : Procs \cup {Pid1}, group : BOOLEAN, pipe : BOOLEAN,
                     doomed : BOOLEAN]
    <3>1. ASSUME NEW q \in Procs
          PROVE  /\ proc[q] \in T /\ [proc[q] EXCEPT !.st = "zombie", !.pipe = FALSE] \in T
                 /\ [proc[q] EXCEPT !.parent = Pid1] \in T
      <4>1. proc[q] \in T
        BY <1>1
      <4> QED BY ONLY <4>1 DEF States
    <3> HIDE DEF T
    <3>2. proc' \in [Procs -> T]
      BY <2>1, <3>1
    <3> QED BY <3>2 DEF T, ProcsTyped, Procs, S!Procs
  <2>4. Forest'
    BY <2>2, ForestKept DEF Family
  <2>5. proc[p].parent # p
    <3>1. PICK q \in {p} : proc[q].parent \notin {p}
      BY DEF Family, Forest
    <3> QED BY <3>1
  <2>6. Parents'
    <3>1. ASSUME NEW q \in Procs, proc'[q].st \in There, proc'[q].parent # Pid1
          PROVE  proc'[proc'[q].parent].st = "live"
      <4>1. proc'[q].parent = proc[q].parent /\ proc[q].st \in There /\ proc[q].parent # p
        BY <2>1, <2>2, <2>5, <3>1 DEF There
      <4>2. proc[proc[q].parent].st = "live" /\ proc[q].parent \in Procs
        BY <1>1, <3>1, <4>1 DEF Family, Parents
      <4> QED BY <2>2, <4>1, <4>2
    <3>2. ASSUME NEW q \in Procs, proc'[q].parent # Pid1 PROVE proc'[proc'[q].parent].st # "none"
      <4>1. proc'[q].parent = proc[q].parent
        BY <2>2, <3>2
      <4>2. proc[proc[q].parent].st # "none" /\ proc[q].parent \in Procs
        BY <1>1, <3>2, <4>1 DEF Family, Parents
      <4> QED BY <2>2, <4>1, <4>2
    <3>3. ASSUME NEW q \in Procs, proc'[q].st = "none" PROVE proc'[q].parent = Pid1
      BY <2>2, <3>3 DEF Family, Parents
    <3> QED BY <3>1, <3>2, <3>3 DEF Parents, Procs, S!Procs
  <2> QED BY <2>1, <2>2, <2>3, <2>4, <2>6 DEF Family, AllGone
<1>5. ASSUME NEW p \in Procs, S!ParentReaps(p)
      PROVE  Family' /\ ~AllGone /\ \A d \in Procs : proc'[d].st = "gone" /\ proc'[d].parent = Pid1 =>
               proc[d].st = "gone" /\ proc[d].parent = Pid1
  <2>1. proc[p].st = "zombie" /\ proc[p].parent # Pid1 /\ proc' = [proc EXCEPT ![p].st = "gone"]
    BY <1>5 DEF S!ParentReaps
  <2>2. /\ ProcsTyped' /\ proc'[p].st = "gone" /\ proc'[p].parent = proc[p].parent
        /\ \A q \in Procs \ {p} : proc'[q] = proc[q]
    BY <1>1, <2>1 DEF ProcsTyped, Procs, S!Procs, States
  <2>3. Family'
    BY <2>1, <2>2, ReapedKept
  <2> QED BY <2>1, <2>2, <2>3 DEF AllGone
<1> QED BY <1>1, <1>2, <1>3, <1>4, <1>5 DEF S!Process

\* What PID 1 reaps, with _reap_adopted or with the wait for its child.
LEMMA ReapsKept ==
  ASSUME Family, proc' = S!Reaped
  PROVE  /\ Family'
         /\ \A p \in Procs : proc'[p].parent = proc[p].parent
         /\ \A p \in Procs : proc[p].parent # Pid1 \/ proc[p].st # "zombie" => proc'[p].st = proc[p].st
         /\ \A p \in Procs : proc[p].parent = Pid1 /\ proc[p].st = "zombie" => proc'[p].st = "gone"
<1>1. /\ proc \in [Procs -> [st : States, parent : Procs \cup {Pid1}, group : BOOLEAN,
                            pipe : BOOLEAN, doomed : BOOLEAN]]
      /\ S!Procs = Procs
  BY DEF Family, ProcsTyped, Procs
<1>2. proc' = [p \in Procs |-> IF proc[p].parent = Pid1 /\ proc[p].st = "zombie"
                                THEN [proc[p] EXCEPT !.st = "gone"] ELSE proc[p]]
  BY <1>1 DEF S!Reaped, S!Children
<1>3. ProcsTyped'
  BY <1>1, <1>2 DEF ProcsTyped, Procs, S!Procs, States
<1>4. /\ \A p \in Procs : proc'[p].parent = proc[p].parent
      /\ \A p \in Procs : proc[p].parent # Pid1 \/ proc[p].st # "zombie" => proc'[p].st = proc[p].st
      /\ \A p \in Procs : proc[p].parent = Pid1 /\ proc[p].st = "zombie" => proc'[p].st = "gone"
  BY <1>1, <1>2
<1>5. Family'
  BY <1>3, <1>4, ReapedKept
<1> QED BY <1>4, <1>5

\* At first only the child is there, and it is PID 1's.
LEMMA ChildInit == S!Init => ChildInv
<1> SUFFICES ASSUME S!Init PROVE ChildInv
  OBVIOUS
<1> USE ProcsFacts
<1>1. proc = [p \in Procs |-> IF p = Main THEN [S!Nobody EXCEPT !.st = "live", !.pipe = TRUE]
                               ELSE S!Nobody]
  BY DEF S!Init, Procs
<1>2. ProcsTyped
  BY <1>1 DEF ProcsTyped, S!Nobody, States
<1>3. \A p \in Procs : proc[p].parent = Pid1 /\ proc[p].st \in {"none", "live"}
  BY <1>1 DEF S!Nobody
<1>4. Parents /\ Forest
  BY <1>3 DEF Parents, Forest
<1>5. LoopTyped /\ CensusInv /\ BlameInv
  BY <1>3 DEF S!Init, LoopTyped, CensusInv, BlameInv, Loop
<1> QED BY <1>2, <1>4, <1>5 DEF ChildInv

\* Every step of the processes and of their supervision keeps the invariant.
LEMMA ChildStep == ChildInv /\ S!Next => ChildInv'
<1> SUFFICES ASSUME ChildInv, S!Next PROVE ChildInv'
  OBVIOUS
<1>1. /\ Family /\ LoopTyped /\ CensusInv /\ BlameInv
      /\ S!Procs = Procs
      /\ proc \in [Procs -> [st : States, parent : Procs \cup {Pid1}, group : BOOLEAN,
                             pipe : BOOLEAN, doomed : BOOLEAN]]
  BY DEF ChildInv, Family, ProcsTyped, Procs
<1> SUFFICES Family' /\ LoopTyped' /\ CensusInv' /\ BlameInv'
  BY DEF ChildInv, Family
<1> USE ProcsFacts
<1>2. ASSUME proc' = proc PROVE Family' /\ (AllGone' <=> AllGone)
  BY <1>1, <1>2 DEF Family, ProcsTyped, Parents, Forest, AllGone, Procs, S!Procs
<1>3. CASE S!Process
  <2>1. UNCHANGED <<late, loop, term, kill, status, open, adopted, seen, verdict>>
    BY <1>3 DEF S!Process, S!loop
  <2>2. /\ Family' /\ ~AllGone
        /\ \A d \in Procs : proc'[d].st = "gone" /\ proc'[d].parent = Pid1 =>
               proc[d].st = "gone" /\ proc[d].parent = Pid1
    BY <1>1, <1>3, ProcessKept
  <2>3. CensusInv' /\ LoopTyped'
    BY <1>1, <2>1, <2>2 DEF CensusInv, LoopTyped, Procs, S!Procs
  <2>4. BlameInv'
    BY <1>1, <2>1, <2>2 DEF BlameInv
  <2> QED BY <2>2, <2>3, <2>4
<1>4. CASE S!DeadlinePasses \/ S!TermDue \/ S!KillDue
  <2>1. /\ UNCHANGED <<proc, loop, status, open, adopted, seen, verdict>>
        /\ late' \in BOOLEAN
        /\ term' = term \/ (term = "sent" /\ term' = "due")
        /\ kill' = kill \/ (kill = "sent" /\ kill' = "due")
    BY <1>1, <1>4 DEF S!DeadlinePasses, S!TermDue, S!KillDue, S!loop, LoopTyped
  <2>2. LoopTyped' /\ CensusInv' /\ BlameInv'
    BY <1>1, <1>2, <2>1 DEF LoopTyped, CensusInv, BlameInv, Procs, S!Procs
  <2> QED BY <1>2, <2>1, <2>2
<1>5. CASE S!Wait
  <2>1. /\ loop = "wait" /\ loop' = "drain" /\ UNCHANGED <<late, term, kill, open, adopted, seen, verdict>>
        /\ status' \in {None, "exit0", "other"}
    BY <1>1, <1>5 DEF S!Wait, LoopTyped
  <2>2. /\ Family'
        /\ \A d \in Descendants : proc'[d].st = proc[d].st /\ proc'[d].parent = proc[d].parent
    <3>1. CASE proc[Main].st = "zombie" /\ proc' = [proc EXCEPT ![Main].st = "gone"]
      <4>1. /\ ProcsTyped' /\ proc'[Main].st = "gone" /\ proc'[Main].parent = proc[Main].parent
            /\ \A q \in Procs \ {Main} : proc'[q] = proc[q]
        BY <1>1, <3>1 DEF ProcsTyped, Procs, S!Procs, States
      <4> QED BY <1>1, <3>1, <4>1, ReapedKept
    <3>2. CASE proc' = proc
      BY <1>2, <3>2
    <3> QED BY <1>5, <3>1, <3>2 DEF S!Wait
  <2>3. LoopTyped' /\ CensusInv' /\ BlameInv'
    BY <1>1, <2>1, <2>2 DEF LoopTyped, CensusInv, BlameInv, Loop, Procs, S!Procs
  <2> QED BY <2>2, <2>3
<1>6. CASE S!Drain
  <2>1. /\ loop = "drain" /\ loop' = "census" /\ UNCHANGED <<proc, late, term, kill, status, adopted, seen>>
        /\ verdict' \in BOOLEAN /\ (verdict => verdict')
    BY <1>1, <1>6 DEF S!Drain, LoopTyped
  <2>2. LoopTyped' /\ CensusInv' /\ BlameInv'
    BY <1>1, <2>1 DEF LoopTyped, CensusInv, BlameInv, Loop, Procs, S!Procs
  <2> QED BY <1>2, <2>1, <2>2
<1>7. CASE S!Census
  <2>1. /\ loop = "census" /\ loop' = "signal" /\ UNCHANGED <<proc, late, term, kill, status, verdict>>
        /\ adopted' = S!Adopted /\ seen' = (seen \/ S!Adopted # {})
    BY <1>7 DEF S!Census
  <2>2. S!Adopted \in SUBSET Procs /\ (status # None => S!Adopted = S!Children)
    BY <1>1 DEF S!Adopted, S!Children
  <2>3. status # None /\ adopted' = {} => AllGone
    BY <1>1, <2>1, <2>2, NobodyThere DEF S!Children, Family, There
  <2>4. LoopTyped' /\ CensusInv' /\ BlameInv'
    BY <1>1, <1>2, <2>1, <2>2, <2>3 DEF LoopTyped, CensusInv, BlameInv, Loop, Procs, S!Procs
  <2> QED BY <1>2, <2>1, <2>4
<1>8. CASE S!Signal
  <2> DEFINE needs == verdict \/ late \/ adopted # {}
  <2>1. /\ loop = "signal" /\ loop' = "check" /\ UNCHANGED <<late, status, open, adopted, seen>>
        /\ term' = IF needs /\ term = "no" THEN "sent" ELSE term
        /\ verdict' = (verdict \/ (needs /\ term = "no" /\ late))
    BY <1>8 DEF S!Signal
  <2>2. \/ kill' = kill /\ proc' = proc
        \/ term = "due" /\ kill' = "sent" /\ proc' = S!Signalled(S!Children)
    BY <1>8 DEF S!Signal
  <2>3. /\ Family'
        /\ \A p \in Procs : proc'[p].st = proc[p].st /\ proc'[p].parent = proc[p].parent
    <3>1. CASE proc' = proc
      BY <1>2, <3>1
    <3>2. CASE proc' = S!Signalled(S!Children)
      <4>1. /\ ProcsTyped'
            /\ \A p \in Procs : proc'[p].st = proc[p].st /\ proc'[p].parent = proc[p].parent
        BY <1>1, <3>2 DEF S!Signalled, ProcsTyped, Procs, S!Procs
      <4> QED BY <1>1, <4>1, ReapedKept
    <3> QED BY <2>2, <3>1, <3>2
  <2>4. AllGone' <=> AllGone
    BY <2>3 DEF AllGone, Procs, S!Procs
  <2>5. LoopTyped' /\ CensusInv'
    BY <1>1, <2>1, <2>2, <2>4 DEF LoopTyped, CensusInv, Loop, Procs, S!Procs
  <2>6. term' # "no" => verdict' \/ seen'
    BY <1>1, <2>1 DEF LoopTyped, CensusInv, BlameInv
  <2>7. BlameInv'
    BY <1>1, <2>1, <2>2, <2>3, <2>6 DEF BlameInv, LoopTyped
  <2> QED BY <2>3, <2>5, <2>7
<1>9. CASE S!Check
  <2>1. loop = "check" /\ UNCHANGED <<late, term, kill, status, open, adopted, seen, verdict>>
    BY <1>9 DEF S!Check
  <2>2. CASE kill = "due"
    <3>1. proc' = S!Reaped /\ loop' \in {"unwind", "finally", "wait"}
          /\ (loop' = "finally" => status # None /\ adopted = {})
      BY <1>9, <2>2 DEF S!Check, S!Overdue
    <3>2. Family' /\ (verdict \/ seen)
      BY <1>1, <2>2, <3>1, ReapsKept DEF BlameInv
    <3>3. AllGone => AllGone'
      BY <1>1, <3>1, ReapsKept DEF AllGone, Procs, S!Procs
    <3>4. LoopTyped' /\ CensusInv' /\ BlameInv'
      BY <1>1, <2>1, <2>2, <3>1, <3>2, <3>3 DEF LoopTyped, CensusInv, BlameInv, Loop, Procs, S!Procs
    <3> QED BY <3>2, <3>4
  <2>3. CASE kill # "due"
    <3>1. proc' = proc /\ loop' \in {"finally", "wait"}
          /\ (loop' = "finally" => status # None /\ adopted = {})
      BY <1>9, <2>3 DEF S!Check
    <3>2. LoopTyped' /\ CensusInv' /\ BlameInv'
      BY <1>1, <1>2, <2>1, <3>1 DEF LoopTyped, CensusInv, BlameInv, Loop, Procs, S!Procs
    <3> QED BY <1>2, <3>1, <3>2
  <2> QED BY <2>2, <2>3
<1>10. CASE S!Finally
  <2>1. /\ loop \in {"finally", "unwind"} /\ proc' = S!Reaped
        /\ UNCHANGED <<late, term, kill, status, open, adopted, seen, verdict>>
        /\ loop' \in {"returned", "raised"} /\ (loop' = "returned" => loop = "finally")
    BY <1>10 DEF S!Finally
  <2>2. Family' /\ (AllGone => AllGone')
    BY <1>1, <2>1, ReapsKept DEF AllGone, Procs, S!Procs
  <2>3. LoopTyped' /\ CensusInv'
    BY <1>1, <2>1, <2>2 DEF LoopTyped, CensusInv, Loop, Procs, S!Procs
  <2>4. BlameInv'
    <3>1. CASE loop = "unwind"
      BY <1>1, <2>1, <3>1 DEF BlameInv
    <3>2. CASE loop = "finally"
      <4>1. \A p \in Procs : proc'[p].parent = proc[p].parent /\ proc'[p].st = proc[p].st
        BY <1>1, <2>1, <3>2, ReapsKept DEF CensusInv, AllGone
      <4> QED BY <1>1, <2>1, <4>1 DEF BlameInv
    <3> QED BY <2>1, <3>1, <3>2
  <2> QED BY <2>2, <2>3, <2>4
<1>11. CASE S!Done
  BY <1>1, <1>2, <1>11 DEF S!Done, S!vars, LoopTyped, CensusInv, BlameInv, Procs, S!Procs
<1> QED BY <1>3, <1>4, <1>5, <1>6, <1>7, <1>8, <1>9, <1>10, <1>11 DEF S!Next, S!Supervise

\* Nothing outlives a call that returned, and a child that left with 0 was alone.
LEMMA ChildInvTold == ChildInv => S!NothingOutlivesAChild
<1> SUFFICES ASSUME ChildInv PROVE S!NothingOutlivesAChild
  OBVIOUS
<1>1. loop = "returned" => AllGone
  BY DEF ChildInv, CensusInv
<1>2. ASSUME S!ReturnsZero, NEW d \in Descendants PROVE proc[d].st = "none" \/ proc[d].parent # Pid1
  BY <1>1, <1>2, ProcsFacts DEF S!ReturnsZero, AllGone, ChildInv, BlameInv
<1> QED BY <1>1, <1>2 DEF S!NothingOutlivesAChild, AllGone, Procs

-----------------------------------------------------------------------------
(* The health reports.                                                       *)

\* A snapshot that may be reported: stamped before the collector was read.
Snapshots == [written : Nat, at : Nat, boot : Nat]
Lawful(s) == s \in Snapshots /\ s.written <= s.at /\ s.at <= now /\ s.boot <= boot

\* x is no older than y.
NotBefore(x, y) == y.at <= x.at /\ y.boot <= x.boot

WriterInv ==
  \/ writer = [pc |-> "idle"]
  \/ writer \in [pc : {"collector"}, stamp : Nat] /\ writer.stamp <= now
  \/ /\ writer \in [pc : {"fleet", "file"}, stamp : Nat, at : Nat]
     /\ writer.stamp <= writer.at /\ writer.at <= now
     /\ file # None => file.at <= writer.at

\* What was posted is no newer than the file, which is there once anything was posted.
PostedInv ==
  /\ posted.at \in Nat /\ posted.boot \in Nat
  /\ file = None => posted.at = 0 /\ posted.boot = 0
  /\ file # None => Lawful(file) /\ NotBefore(file, posted)

\* What the health service holds was in the file, and is no older than what was posted.
Held(s) == s # None => file # None /\ Lawful(s) /\ NotBefore(file, s) /\ NotBefore(s, posted)

HealthInv ==
  /\ health.pc \in {"idle", "probed", "read", "judged"}
  /\ health.pc = "read" => Held(health.bytes)
  /\ health.pc = "judged" =>
       /\ Held(health.value) /\ health.time \in Nat
       /\ health.category = "current" =>
            health.value # None /\ health.time - health.value.written <= MaxAge

ReportsInv == now \in Nat /\ boot \in Nat /\ WriterInv /\ PostedInv /\ HealthInv

-----------------------------------------------------------------------------
\* The reports are recent where the invariant holds.
LEMMA ReportsInvRecent == ReportsInv => H!CurrentMeansRecent
<1> SUFFICES ASSUME ReportsInv, health.pc = "judged", health.category = "current"
             PROVE  /\ health.time - health.value.at <= MaxAge
                    /\ posted.boot <= health.value.boot
                    /\ posted.at <= health.value.at
  BY DEF H!CurrentMeansRecent
<1>1. /\ Held(health.value) /\ health.time \in Nat /\ health.value # None
      /\ health.time - health.value.written <= MaxAge
  BY DEF ReportsInv, HealthInv
<1>2. Lawful(health.value) /\ NotBefore(health.value, posted)
  BY <1>1 DEF Held
<1> QED BY <1>1, <1>2, HealthAssumption DEF Lawful, NotBefore, Snapshots

\* A step that moves neither the file, nor what was posted, nor the clock and the boot back.
LEMMA HeldKept ==
  ASSUME NEW s, Held(s), now \in Nat, boot \in Nat, now' \in Nat, boot' \in Nat,
         now <= now', boot <= boot', UNCHANGED <<file, posted>>
  PROVE  Held(s)'
BY DEF Held, Lawful, NotBefore, Snapshots

\* The same of what was posted.
LEMMA PostedKept ==
  ASSUME PostedInv, now \in Nat, boot \in Nat, now' \in Nat, boot' \in Nat,
         now <= now', boot <= boot', UNCHANGED <<file, posted>>
  PROVE  PostedInv'
BY DEF PostedInv, Lawful, NotBefore, Snapshots

\* Every step of the gateway and of the health service keeps the order.
LEMMA ReportsStep == ReportsInv /\ H!Next => ReportsInv'
<1> SUFFICES ASSUME ReportsInv, H!Next PROVE ReportsInv'
  OBVIOUS
<1> USE DEF ReportsInv
<1>1. CASE H!WriteStart \/ H!WriteCollector \/ H!WriteFleet
  <2>1. UNCHANGED <<now, boot, file, health, posted>>
    BY <1>1 DEF H!WriteStart, H!WriteCollector, H!WriteFleet
  <2>2. PostedInv' /\ HealthInv'
    BY <2>1 DEF PostedInv, HealthInv, Held, Lawful, NotBefore
  <2>3. WriterInv'
    <3>1. CASE H!WriteStart
      BY <3>1, <2>1 DEF H!WriteStart, H!Stamp, WriterInv
    <3>2. CASE H!WriteCollector
      BY <3>2, <2>1 DEF H!WriteCollector, WriterInv, PostedInv, Lawful, Snapshots
    <3>3. CASE H!WriteFleet
      BY <3>3, <2>1 DEF H!WriteFleet, WriterInv
    <3> QED BY <1>1, <3>1, <3>2, <3>3
  <2> QED BY <2>1, <2>2, <2>3
<1>2. CASE H!WriteFile
  <2> DEFINE s == [written |-> writer.stamp, at |-> writer.at, boot |-> boot]
  <2>1. /\ UNCHANGED <<now, boot, health, posted>> /\ writer' = [pc |-> "idle"]
        /\ writer \in [pc : {"fleet", "file"}, stamp : Nat, at : Nat]
        /\ writer.stamp <= writer.at /\ writer.at <= now
        /\ file # None => file.at <= writer.at
    BY <1>2 DEF H!WriteFile, WriterInv
  <2>2. file' = file \/ file' = s
    BY <1>2, <2>1, HealthAssumption DEF H!WriteFile
  <2>3. s \in Snapshots /\ s # None /\ Lawful(s) /\ s.at = writer.at /\ s.boot = boot
    BY <2>1, HealthAssumption DEF Lawful, Snapshots
  <2> HIDE DEF s
  <2>4. file # None => NotBefore(s, file)
    BY <2>1, <2>3 DEF PostedInv, Lawful, NotBefore
  <2>5. CASE file' = file
    BY <2>5, <2>1 DEF WriterInv, PostedInv, HealthInv, Held, Lawful, NotBefore
  <2>6. CASE file' = s
    <3>1. NotBefore(s, posted)
      BY <2>3, <2>4 DEF PostedInv, Lawful, NotBefore, Snapshots
    <3>2. PostedInv'
      BY <2>1, <2>3, <2>6, <3>1 DEF PostedInv, Lawful, NotBefore
    <3>3. ASSUME NEW x, Held(x) PROVE Held(x)'
      BY <2>1, <2>3, <2>4, <2>6, <3>3 DEF PostedInv, Held, Lawful, NotBefore, Snapshots
    <3>4. HealthInv'
      BY <2>1, <3>3 DEF HealthInv
    <3> QED BY <2>1, <3>2, <3>4 DEF WriterInv
  <2> QED BY <2>2, <2>5, <2>6
<1>3. CASE H!Restart \/ H!Tick
  <2>1. /\ now' \in Nat /\ boot' \in Nat /\ now <= now' /\ boot <= boot'
        /\ UNCHANGED <<file, health, posted>>
        /\ writer' = writer \/ writer' = [pc |-> "idle"]
    BY <1>3 DEF H!Restart, H!Tick
  <2>2. PostedInv'
    BY <2>1, PostedKept
  <2>3. HealthInv'
    BY <2>1, HeldKept DEF HealthInv
  <2>4. WriterInv'
    BY <2>1 DEF WriterInv
  <2> QED BY <2>1, <2>2, <2>3, <2>4
<1>4. CASE H!Probe \/ H!ReadFile \/ H!Judge
  <2>1. UNCHANGED <<now, boot, writer, file, posted>>
    BY <1>4 DEF H!Probe, H!ReadFile, H!Judge
  <2>2. PostedInv' /\ WriterInv'
    BY <2>1 DEF PostedInv, WriterInv, Lawful, NotBefore
  <2>3. HealthInv'
    <3>1. CASE H!Probe
      BY <3>1 DEF H!Probe, HealthInv
    <3>2. CASE H!ReadFile
      BY <3>2, <2>1 DEF H!ReadFile, HealthInv, Held, PostedInv, Lawful, NotBefore, Snapshots
    <3>3. CASE H!Judge
      <4>1. Held(health.bytes)
        BY <3>3 DEF H!Judge, HealthInv
      <4>2. PICK c \in {H!Category(health.bytes), "invalid"} :
              health' = [pc |-> "judged", seq |-> health.seq, time |-> now, value |-> health.bytes,
                         category |-> c]
        BY <3>3 DEF H!Judge
      <4>3. c = "current" => health.bytes # None /\ now - health.bytes.written <= MaxAge
        BY <4>1, HealthAssumption DEF H!Category, Held, Lawful, Snapshots
      <4> QED BY <2>1, <4>1, <4>2, <4>3 DEF HealthInv, Held, Lawful, NotBefore
    <3> QED BY <1>4, <3>1, <3>2, <3>3
  <2> QED BY <2>1, <2>2, <2>3
<1>5. CASE H!Post
  <2>1. /\ UNCHANGED <<now, boot, writer, file>> /\ health' = [pc |-> "idle", seq |-> health.seq]
        /\ health.pc = "judged"
    BY <1>5 DEF H!Post
  <2>2. PostedInv'
    <3>1. CASE posted' = posted
      BY <2>1, <3>1 DEF PostedInv, Lawful, NotBefore
    <3>2. CASE /\ health.category = "current"
               /\ posted' = [boot |-> health.value.boot, at |-> health.value.at]
      BY <2>1, <3>2 DEF PostedInv, HealthInv, Held, Lawful, NotBefore, Snapshots
    <3> QED BY <1>5, <3>1, <3>2 DEF H!Post
  <2>3. WriterInv' /\ HealthInv'
    BY <2>1 DEF WriterInv, HealthInv
  <2> QED BY <2>1, <2>2, <2>3
<1> QED BY <1>1, <1>2, <1>3, <1>4, <1>5 DEF H!Next

\* At first nothing is written and nothing posted.
LEMMA ReportsInit == H!Init => ReportsInv
BY DEF H!Init, ReportsInv, WriterInv, PostedInv, HealthInv

-----------------------------------------------------------------------------
(* The parts together.                                                       *)

PartInv ==
  /\ part = "run" => RunInv
  /\ part = "child" => ChildInv
  /\ part = "reports" => ReportsInv

\* A step that is not one of the run leaves it as it was.
LEMMA RunKept == RunInv /\ UNCHANGED run => RunInv'
BY DEF run, RunInv, RunTyped, StreamInv, RecordInv, WriterSays, PlaceSays, HostSays, Drained, One,
   Under, Arrived, Heard, D!Writer

\* The same of the child,
LEMMA ChildKept == ChildInv /\ UNCHANGED child => ChildInv'
BY DEF child, ChildInv, ProcsTyped, Parents, Forest, LoopTyped, CensusInv, BlameInv, AllGone, Procs,
   S!Procs

\* and of the reports.
LEMMA ReportsKept == ReportsInv /\ UNCHANGED reports => ReportsInv'
BY DEF reports, ReportsInv, WriterInv, PostedInv, HealthInv, Held, Lawful, NotBefore

\* Whichever part a behaviour is of, its invariant holds.
THEOREM PartInvariant == AllSpec => []PartInv
<1>1. AllInit => PartInv
  BY RunInit, ChildInit, ReportsInit DEF AllInit, PartInv
<1>2. PartInv /\ [AllNext]_all => PartInv'
  <2> SUFFICES ASSUME PartInv, [AllNext]_all PROVE PartInv'
    OBVIOUS
  <2>1. part' = part
    BY DEF AllNext, all, Collecting, Diagnosing, Supervising, Reporting
  <2>2. part = "run" => RunInv /\ (D!Next \/ UNCHANGED run)
    BY DEF PartInv, AllNext, all, Collecting, Diagnosing, Supervising, Reporting
  <2>3. part = "child" => ChildInv /\ (S!Next \/ UNCHANGED child)
    BY DEF PartInv, AllNext, all, Collecting, Diagnosing, Supervising, Reporting
  <2>4. part = "reports" => ReportsInv /\ (H!Next \/ UNCHANGED reports)
    BY DEF PartInv, AllNext, all, Collecting, Diagnosing, Supervising, Reporting
  <2> QED
    BY <2>1, <2>2, <2>3, <2>4, RunStep, RunKept, ChildStep, ChildKept, ReportsStep, ReportsKept
    DEF PartInv
<1> QED
  BY <1>1, <1>2, PTL DEF AllSpec

\* Whenever the host takes its copy of the serial line it reads nothing the run did not
\* do, and only the place of the cut makes a copy invalid; a run that is over and whose writer never gave up has told how it ended, however
\* many records its result has; and nothing outlives the supervision of a child that
\* returned, nor did a child that counts as successful leave anybody to PID 1.
THEOREM DiagnosticTold == AllSpec => []DiagnosticIsTold
<1>1. PartInv => DiagnosticIsTold
  BY RunInvTold, ChildInvTold DEF PartInv, DiagnosticIsTold
<1> QED
  BY <1>1, PartInvariant, PTL

\* A report that calls the collector's snapshot current is about a collector read no more
\* than the maximum age ago, and no report goes back behind one that was posted, across
\* any number of restarts of the gateway.
THEOREM ReportsRecent == AllSpec => []ReportsAreRecent
<1>1. PartInv => ReportsAreRecent
  BY ReportsInvRecent DEF PartInv, ReportsAreRecent
<1> QED
  BY <1>1, PartInvariant, PTL
=============================================================================
