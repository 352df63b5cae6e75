---------------------------- MODULE Supervision ------------------------------
(* What must come back whatever it waits for, and what is reported of it: the  *)
(* calls of the collector, the health reports on it, a diagnostic run, the     *)
(* supervision of its children.  A behaviour is one of these, the part.        *)
EXTENDS Collector

CONSTANTS
  MaxSuccess, MaxFrames, RecordSize,   \* a diagnostic run's records
  MarkerSize, MaxLine, MaxWire, MaxPreamble, MaxFill,
  Descendants, Main, Pid1,             \* a child's processes
  MaxNow, MaxBoots, MaxSeq, MaxAge     \* the health reports

VARIABLES
  part,
  at, phase, fault, uart, w, queue, host, power,               \* the run
  proc, loop, late, term, kill, status, open, adopted, seen, verdict,   \* the child
  now, boot, writer, file, health, posted                      \* the reports

run == <<at, phase, fault, uart, w, queue, host, power>>
child == <<proc, loop, late, term, kill, status, open, adopted, seen, verdict>>
reports == <<now, boot, writer, file, health, posted>>
all == <<vars, part, run, child, reports>>

D == INSTANCE DiagRun

S == INSTANCE ChildSupervision WITH pc <- loop

H == INSTANCE HealthSnapshot

Faults ==
  [reason : {"INPUT", "BINDING", "CHILD", "GPU", "TRACE", "POLICY", "TPM", "IMA", "EXPORT"},
   phase : 0 .. D!Seal]

Records == [kind : {"S", "I", "F"}, seq : Nat, part : Nat, of : Nat, fault : Faults \cup {None}]

\* A result, its withdrawal and the failure fit in a run, 256 + 2 <= 258 records, and
\* in the host's limits; a record is more than its marker.  None is no fault and no
\* record.
ASSUME RunAssumption ==
  /\ MaxSuccess \in Nat /\ MaxFrames \in Nat /\ MaxSuccess + 2 <= MaxFrames
  /\ RecordSize \in Nat \ {0} /\ MarkerSize \in 1 .. RecordSize - 1
  /\ MaxLine \in Nat /\ RecordSize <= MaxLine
  /\ MaxWire \in Nat /\ MaxFrames * RecordSize <= MaxWire
  /\ MaxPreamble \in Nat /\ MaxFill \in Nat
  /\ None \notin Faults /\ None \notin Records

\* The child is not one of its descendants, nor PID 1 one of them.
ASSUME ChildAssumption ==
  Main \notin Descendants /\ Pid1 \notin Descendants \cup {Main} /\ None \notin {"exit0", "other"}

\* Times are numbers, and None is no time and no snapshot.
ASSUME HealthAssumption ==
  MaxAge \in Nat /\ None \notin Nat /\ None \notin [written : Nat, at : Nat, boot : Nat]

-----------------------------------------------------------------------------
\* A part that is not chosen holds None.
NoRun ==
  /\ at = None /\ phase = None /\ fault = None /\ uart = None
  /\ w = None /\ queue = None /\ host = None /\ power = None

NoChild ==
  /\ proc = None /\ loop = None /\ late = None /\ term = None /\ kill = None
  /\ status = None /\ open = None /\ adopted = None /\ seen = None /\ verdict = None

NoReports ==
  now = None /\ boot = None /\ writer = None /\ file = None /\ health = None /\ posted = None

AllInit ==
  /\ Init
  /\ \/ part = "collector" /\ NoRun /\ NoChild /\ NoReports
     \/ part = "run" /\ D!Init /\ NoChild /\ NoReports
     \/ part = "child" /\ NoRun /\ S!Init /\ NoReports
     \/ part = "reports" /\ NoRun /\ NoChild /\ H!Init

\* A step of one part leaves the others alone.
Collecting(A) == part = "collector" /\ A /\ UNCHANGED <<part, run, child, reports>>
Diagnosing(A) == part = "run" /\ A /\ UNCHANGED <<vars, part, child, reports>>
Supervising(A) == part = "child" /\ A /\ UNCHANGED <<vars, part, run, reports>>
Reporting(A) == part = "reports" /\ A /\ UNCHANGED <<vars, part, run, child>>

AllNext ==
  Collecting(Next) \/ Diagnosing(D!Next) \/ Supervising(S!Next) \/ Reporting(H!Next)

\* The controller of a diagnostic run, without the line it writes to.
RunSteps == \/ D!Start \/ D!Preflight \/ D!Advance \/ D!Act \/ D!SealAndRead \/ D!Collect
            \/ D!Write \/ D!Poison \/ D!Drain \/ D!Success \/ D!PowerOff \/ D!Invalidate
            \/ D!FailStop

\* Threads run, clocks advance, deadlines pass; nothing is assumed of a command, of the
\* kernel ending a process, of the lock's fairness or of the serial line moving.
AllFairness ==
  /\ WF_all(Collecting(Tick))
  /\ \A c \in Callers : WF_all(Collecting(Step(c)))
  /\ WF_all(Diagnosing(RunSteps))
  /\ WF_all(Supervising(S!Supervise))
  /\ WF_all(Supervising(S!DeadlinePasses))
  /\ WF_all(Supervising(S!TermDue))
  /\ WF_all(Supervising(S!KillDue))

AllSpec == AllInit /\ [][AllNext]_all /\ AllFairness

-----------------------------------------------------------------------------
\* The host reads of a diagnostic run what it did and is told how it ended, and
\* nothing outlives a child of it (FramedUartWriter, framed_export_and_poweroff,
\* observe_uart_blob; _run_fixed_child, _reap_adopted).
DiagnosticIsTold ==
  /\ part = "run" => D!HostReadsTheRun /\ D!OutcomeIsTold
  /\ part = "child" => S!NothingOutlivesAChild

\* A health report that calls its snapshot of the collector current is recent, and the
\* reports never go back in time or to an earlier gateway (SnapshotWriter.write,
\* read_snapshot).
ReportsAreRecent == part = "reports" => H!CurrentMeansRecent

Ended == (part = "run" /\ D!Over) \/ (part = "child" /\ S!Over)

\* Every call of the collector returns, every diagnostic run ends and the supervision
\* of every child comes back, whatever the command, the serial line and the child do
\* (the deadlines of CommandCollector.call, _write_pending, _drain, _run_fixed_child).
CallsComeBack ==
  /\ EveryCallReturns
  /\ (part \in {"run", "child"}) ~> Ended
=============================================================================
