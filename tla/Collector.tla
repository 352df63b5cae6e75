----------------------------- MODULE Collector -----------------------------
(***************************************************************************)
(* CommandCollector (ratls_gateway.py): the gateway runs one attestation   *)
(* collector process at a time, because the TPM device has a single        *)
(* opener.  Connection threads and the status worker call it with a        *)
(* deadline; a call queues on a lock, runs the command in a process group  *)
(* of its own, and cleans the whole group up before it releases the lock.  *)
(* A group that cannot be cleaned up makes the collector unavailable for   *)
(* good.                                                                   *)
(*                                                                         *)
(* Time is modelled by one countdown per call (the time left until `end',  *)
(* then the time left for the cleanup), so that no clock bound is needed.  *)
(* The counters and durations of snapshot() are left out: they steer       *)
(* nothing.                                                                *)
(***************************************************************************)
EXTENDS Naturals, FiniteSets

CONSTANTS
  Callers,      \* threads that call the collector
  Deadlines,    \* time a caller still has when it calls (None: no deadline)
  Timeout,      \* CommandCollector.timeout
  CleanupTime,  \* the second _cleanup allows itself
  None

\* No caller stands for the free lock, and every time is a number.
ASSUME CollectorAssumption ==
  /\ None \notin Callers
  /\ Timeout \in Nat /\ CleanupTime \in Nat
  /\ Deadlines \ {None} \subseteq Nat

VARIABLES
  pc,           \* where each caller is inside call()
  left,         \* each caller's countdown
  lock,         \* holder of CommandCollector._lock, or None
  state,        \* _state: what snapshot() reports
  unavailable,  \* _unavailable
  lastResult,   \* _last_result
  group,        \* the process group of the caller's current command
  strays,       \* groups abandoned by earlier calls with a process still alive
  result        \* local `result', then what call() returned or raised

vars == <<pc, left, lock, state, unavailable, lastResult, group, strays, result>>

\* A group lives while any of its processes is not a zombie: the command
\* itself ("running"), or descendants that outlived it ("orphaned").
Alive == {"running", "orphaned"}

Live(c) == group[c] \in Alive

Failures == {"failed", "queue_timeout", "execution_timeout", "cleanup_failed"}

Init ==
  /\ pc = [c \in Callers |-> "idle"]
  /\ left = [c \in Callers |-> 0]
  /\ lock = None
  /\ state = "idle"
  /\ unavailable = FALSE
  /\ lastResult = "none"
  /\ group = [c \in Callers |-> "none"]
  /\ strays = 0
  /\ result = [c \in Callers |-> "none"]

-----------------------------------------------------------------------------
\* Mutant: the caller's deadline replaces the collector's own timeout.
Remaining_DeadlineOnly(d) == d

\* end = min(deadline, monotonic() + timeout)
Remaining(d) == IF d = None \/ d > Timeout THEN Timeout ELSE d

Call(c, d) ==
  /\ pc[c] = "idle"
  /\ pc' = [pc EXCEPT ![c] = "queued"]
  /\ left' = [left EXCEPT ![c] = Remaining(d)]
  /\ result' = [result EXCEPT ![c] = "failed"]
  /\ group' = [group EXCEPT ![c] = "none"]
  /\ strays' = strays + (IF Live(c) THEN 1 ELSE 0)
  /\ UNCHANGED <<lock, state, unavailable, lastResult>>

\* lock.acquire(timeout=remaining) fails, or no time was left to begin with:
\* the call raises before its try block.
QueueTimeout(c) ==
  /\ pc[c] = "queued"
  /\ left[c] = 0
  /\ pc' = [pc EXCEPT ![c] = "idle"]
  /\ result' = [result EXCEPT ![c] = "queue_timeout"]
  /\ UNCHANGED <<left, lock, state, unavailable, lastResult, group, strays>>

Acquire(c) ==
  /\ pc[c] = "queued"
  /\ lock = None
  /\ left[c] > 0
  /\ lock' = c
  /\ pc' = [pc EXCEPT ![c] = "holding"]
  /\ UNCHANGED <<left, state, unavailable, lastResult, group, strays, result>>

\* With the lock: refuse when unavailable or late, else publish "running".
\* Mutant: the unavailable flag is not tested.
Enter_Reuse(c) ==
  /\ pc[c] = "holding"
  /\ pc' = [pc EXCEPT ![c] = "entered"]
  /\ state' = "running"
  /\ UNCHANGED <<left, lock, unavailable, lastResult, group, strays, result>>

Enter(c) ==
  /\ pc[c] = "holding"
  /\ \/ /\ unavailable
        /\ result' = [result EXCEPT ![c] = "cleanup_failed"]
        /\ pc' = [pc EXCEPT ![c] = "leaving"]
        /\ UNCHANGED state
     \/ /\ ~unavailable /\ left[c] = 0
        /\ result' = [result EXCEPT ![c] = "queue_timeout"]
        /\ pc' = [pc EXCEPT ![c] = "leaving"]
        /\ UNCHANGED state
     \/ /\ ~unavailable /\ left[c] > 0
        /\ state' = "running"
        /\ pc' = [pc EXCEPT ![c] = "entered"]
        /\ UNCHANGED result
  /\ UNCHANGED <<left, lock, unavailable, lastResult, group, strays>>

\* The second check of the deadline, then Popen, which may fail itself.
Spawn(c) ==
  /\ pc[c] = "entered"
  /\ \/ /\ left[c] = 0
        /\ result' = [result EXCEPT ![c] = "queue_timeout"]
        /\ pc' = [pc EXCEPT ![c] = "leaving"]
        /\ UNCHANGED group
     \/ /\ left[c] > 0
        /\ pc' = [pc EXCEPT ![c] = "leaving"]
        /\ UNCHANGED <<group, result>>
     \/ /\ left[c] > 0
        /\ group' = [group EXCEPT ![c] = "running"]
        /\ pc' = [pc EXCEPT ![c] = "communicating"]
        /\ UNCHANGED result
  /\ UNCHANGED <<left, lock, state, unavailable, lastResult, strays>>

-----------------------------------------------------------------------------
\* The command exits, possibly leaving descendants behind; or the last
\* descendant of a group ends.  External: the collector program.
CommandExits(c) ==
  /\ group[c] = "running"
  /\ group' = [group EXCEPT ![c] = "orphaned"]
  /\ UNCHANGED <<pc, left, lock, state, unavailable, lastResult, strays, result>>

GroupEnds(c) ==
  /\ Live(c)
  /\ group' = [group EXCEPT ![c] = "dead"]
  /\ UNCHANGED <<pc, left, lock, state, unavailable, lastResult, strays, result>>

StrayEnds ==
  /\ strays > 0
  /\ strays' = strays - 1
  /\ UNCHANGED <<pc, left, lock, state, unavailable, lastResult, group, result>>

\* communicate() returned: a response, or a bad exit, oversize or invalid JSON.
Communicated(c) ==
  /\ pc[c] = "communicating"
  /\ group[c] \in {"orphaned", "dead"}
  /\ \E r \in {"success", "failed"} : result' = [result EXCEPT ![c] = r]
  /\ pc' = [pc EXCEPT ![c] = "cleaning"]
  /\ left' = [left EXCEPT ![c] = CleanupTime]
  /\ UNCHANGED <<lock, state, unavailable, lastResult, group, strays>>

\* communicate() timed out: the command runs on, or a descendant holds a pipe.
ExecutionTimeout(c) ==
  /\ pc[c] = "communicating"
  /\ left[c] = 0
  /\ result' = [result EXCEPT ![c] = "execution_timeout"]
  /\ pc' = [pc EXCEPT ![c] = "cleaning"]
  /\ left' = [left EXCEPT ![c] = CleanupTime]
  /\ UNCHANGED <<lock, state, unavailable, lastResult, group, strays>>

\* _cleanup: SIGKILL to the group (GroupEnds is its effect, which an
\* uninterruptible process can delay), then wait until no process of the
\* group is left or the cleanup's second is over.
\* Mutant: the group counts as clean once the command itself was reaped.
CleanedUp_CommandOnly(c) == group[c] # "running"

CleanedUp(c) == ~Live(c)

\* Mutant: the wait for the group has no limit.
Cleanup_Unbounded(c) ==
  /\ pc[c] = "cleaning"
  /\ CleanedUp(c)
  /\ pc' = [pc EXCEPT ![c] = "leaving"]
  /\ UNCHANGED <<left, lock, state, unavailable, lastResult, group, strays, result>>

Cleanup(c) ==
  /\ pc[c] = "cleaning"
  /\ CleanedUp(c) \/ left[c] = 0
  /\ pc' = [pc EXCEPT ![c] = IF CleanedUp(c) THEN "leaving" ELSE "unclean"]
  /\ UNCHANGED <<left, lock, state, unavailable, lastResult, group, strays, result>>

Leaving(c) == pc[c] \in {"leaving", "unclean"}

Clean(c) == pc[c] = "leaving"

\* The rest of the finally block: publish the outcome and release the lock.  A
\* failed cleanup replaces the outcome and is raised instead of a response.
\* Mutant: the response is still returned after a failed cleanup.
Leave_KeepsResponse(c) ==
  /\ Leaving(c)
  /\ unavailable' = (unavailable \/ ~Clean(c))
  /\ state' = IF unavailable' THEN "unavailable" ELSE "idle"
  /\ lastResult' = result[c]
  /\ lock' = None
  /\ pc' = [pc EXCEPT ![c] = "idle"]
  /\ UNCHANGED <<left, group, strays, result>>

\* Mutant: a failed cleanup is reported but does not disable the collector.
Leave_StaysAvailable(c) ==
  /\ Leaving(c)
  /\ state' = "idle"
  /\ result' = IF Clean(c) THEN result ELSE [result EXCEPT ![c] = "cleanup_failed"]
  /\ lastResult' = result'[c]
  /\ lock' = None
  /\ pc' = [pc EXCEPT ![c] = "idle"]
  /\ UNCHANGED <<left, unavailable, group, strays>>

Leave(c) ==
  /\ Leaving(c)
  /\ unavailable' = (unavailable \/ ~Clean(c))
  /\ state' = IF unavailable' THEN "unavailable" ELSE "idle"
  /\ result' = IF Clean(c) THEN result ELSE [result EXCEPT ![c] = "cleanup_failed"]
  /\ lastResult' = result'[c]
  /\ lock' = None
  /\ pc' = [pc EXCEPT ![c] = "idle"]
  /\ UNCHANGED <<left, group, strays>>

-----------------------------------------------------------------------------
Waiting(c) == pc[c] # "idle"

\* Time passes for every call in progress.
Tick ==
  /\ \E c \in Callers : Waiting(c) /\ left[c] > 0
  /\ left' = [c \in Callers |-> IF Waiting(c) /\ left[c] > 0 THEN left[c] - 1 ELSE left[c]]
  /\ UNCHANGED <<pc, lock, state, unavailable, lastResult, group, strays, result>>

Step(c) ==
  \/ QueueTimeout(c)
  \/ Acquire(c)
  \/ Enter(c)
  \/ Spawn(c)
  \/ Communicated(c)
  \/ ExecutionTimeout(c)
  \/ Cleanup(c)
  \/ Leave(c)

Next ==
  \/ \E c \in Callers, d \in Deadlines : Call(c, d)
  \/ \E c \in Callers : Step(c) \/ CommandExits(c) \/ GroupEnds(c)
  \/ StrayEnds
  \/ Tick

\* Threads run and time passes; nothing is assumed of the command, of the
\* kernel killing it, or of the lock's fairness.
Fairness ==
  /\ WF_vars(Tick)
  /\ \A c \in Callers : WF_vars(Step(c))

Spec == Init /\ [][Next]_vars /\ Fairness

-----------------------------------------------------------------------------
TypeOK ==
  /\ pc \in [Callers -> {"idle", "queued", "holding", "entered", "communicating",
                         "cleaning", "leaving", "unclean"}]
  /\ left \in [Callers -> Nat]
  /\ lock \in Callers \cup {None}
  /\ state \in {"idle", "running", "unavailable"}
  /\ unavailable \in BOOLEAN
  /\ lastResult \in {"none", "success"} \cup Failures
  /\ group \in [Callers -> {"none", "running", "orphaned", "dead"}]
  /\ strays \in Nat
  /\ result \in [Callers -> {"none", "success"} \cup Failures]

\* At no time do two collector process groups have a live process: a timed-out
\* or crashed call never leaves a process behind that a later call could race
\* for the TPM ("single opener" comment at CommandCollector.__init__).
SingleOpener == strays + Cardinality({c \in Callers : Live(c)}) <= 1

\* snapshot() tells the truth: "idle" means no collector process exists at all,
\* "unavailable" is reported exactly when the collector refuses work for good,
\* and "running" only while some call holds the lock.
SnapshotTruthful ==
  /\ state = "idle" => strays = 0 /\ \A c \in Callers : ~Live(c)
  /\ state = "running" => lock # None /\ ~unavailable
  /\ state = "unavailable" <=> unavailable

\* A call that returned a response left no process of its group behind; a
\* failed cleanup is an error even when the command had answered.
ResponseMeansQuiescent ==
  \A c \in Callers : pc[c] = "idle" /\ result[c] = "success" => ~Live(c)

\* Never two collector processes, and everything the collector says of itself is true:
\* a snapshot of its state, and a response, which means its processes are gone
\* (CommandCollector.call, snapshot, _cleanup).
CollectorIsHonest == SingleOpener /\ SnapshotTruthful /\ ResponseMeansQuiescent

\* Every call returns, whatever the command does and however long others hold
\* the queue.
EveryCallReturns == \A c \in Callers : Waiting(c) ~> ~Waiting(c)
=============================================================================
