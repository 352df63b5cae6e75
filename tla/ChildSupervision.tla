-------------------------- MODULE ChildSupervision --------------------------
(***************************************************************************)
(* How the diagnostic controller, as PID 1, runs one fixed child           *)
(* (_run_fixed_child in conf_proc_spp_diag_controller.py): the poll loop   *)
(* that waits, drains, counts adopted children, terminates, kills and      *)
(* reaps, against a child that may fork, have its descendants leave the    *)
(* process group, keep the pipes open, write too much or hang.             *)
(*                                                                         *)
(* Times are the order of events: `late' once the deadline is past, and    *)
(* a term or kill is "due" once its grace is over.  The processes, their   *)
(* reparenting to PID 1 and the pipes are the kernel's, external.          *)
(***************************************************************************)
EXTENDS Naturals, FiniteSets

CONSTANTS Descendants,   \* bound: processes the child can fork
          Main, Pid1, None

VARIABLES
  proc,     \* the processes: state, parent, whether in the child's group, pipe held
  pc,       \* where the loop is
  late,     \* the deadline is past
  term, kill,   \* "no", "sent", "due"
  status,   \* the child's wait status: None, "exit0", "other"
  open,     \* the read ends are open
  adopted,  \* the last census
  seen,     \* descendant_seen
  verdict   \* timed_out or overflow

vars == <<proc, pc, late, term, kill, status, open, adopted, seen, verdict>>
loop == <<pc, term, kill, status, open, adopted, seen, verdict>>

Procs == {Main} \cup Descendants

Nobody == [st |-> "none", parent |-> Pid1, group |-> TRUE, pipe |-> FALSE, doomed |-> FALSE]

Init ==
  /\ proc = [p \in Procs |->
               IF p = Main THEN [Nobody EXCEPT !.st = "live", !.pipe = TRUE] ELSE Nobody]
  /\ pc = "wait" /\ late = FALSE /\ term = "no" /\ kill = "no" /\ status = None
  /\ open = TRUE /\ adopted = {} /\ seen = FALSE /\ verdict = FALSE

Live(p) == proc[p].st = "live"

-----------------------------------------------------------------------------
\* The processes.
Fork(p, c) ==
  /\ Live(p) /\ ~proc[p].doomed /\ proc[c].st = "none"
  /\ proc' = [proc EXCEPT ![c] = [proc[p] EXCEPT !.parent = p]]

Setsid(p) == Live(p) /\ p # Main /\ proc[p].group /\ proc' = [proc EXCEPT ![p].group = FALSE]

ClosePipe(p) == Live(p) /\ proc[p].pipe /\ proc' = [proc EXCEPT ![p].pipe = FALSE]

\* A process ends, of itself or killed; its children are PID 1's.
Ends(p) ==
  /\ Live(p)
  /\ proc' = [q \in Procs |->
                IF q = p THEN [proc[p] EXCEPT !.st = "zombie", !.pipe = FALSE]
                ELSE IF proc[q].parent = p /\ proc[q].st # "gone" THEN [proc[q] EXCEPT !.parent = Pid1]
                ELSE proc[q]]

ParentReaps(p) ==
  /\ proc[p].st = "zombie" /\ proc[p].parent # Pid1
  /\ proc' = [proc EXCEPT ![p].st = "gone"]

Process ==
  /\ \/ \E p \in Procs, c \in Descendants : Fork(p, c)
     \/ \E p \in Procs : Setsid(p) \/ ClosePipe(p) \/ Ends(p) \/ ParentReaps(p)
  /\ UNCHANGED <<late, loop>>

\* The deadline and the two graces pass.
DeadlinePasses == ~late /\ late' = TRUE /\ UNCHANGED <<proc, loop>>
TermDue ==
  term = "sent" /\ term' = "due" /\ UNCHANGED <<proc, late, pc, kill, status, open, adopted, seen, verdict>>
KillDue ==
  kill = "sent" /\ kill' = "due" /\ UNCHANGED <<proc, late, pc, term, status, open, adopted, seen, verdict>>

-----------------------------------------------------------------------------
\* _adopted_child_pids: PID 1's direct children, dead ones too.
Children == {p \in Procs : proc[p].parent = Pid1 /\ proc[p].st \in {"live", "zombie"}}

Wait ==
  /\ pc = "wait" /\ pc' = "drain"
  /\ IF status = None /\ proc[Main].st = "zombie"
     THEN /\ \E s \in {"exit0", "other"} : status' = s
          /\ proc' = [proc EXCEPT ![Main].st = "gone"]
     ELSE UNCHANGED <<status, proc>>
  /\ UNCHANGED <<late, term, kill, open, adopted, seen, verdict>>

\* _drain_child_pipes: too much closes the pipes, the end of both closes them too.
Drain ==
  /\ pc = "drain" /\ pc' = "census"
  /\ \/ open /\ verdict' = TRUE /\ open' = FALSE
     \/ /\ open' = (open /\ \E p \in Procs : proc[p].pipe)
        /\ UNCHANGED verdict
  /\ UNCHANGED <<proc, late, term, kill, status, adopted, seen>>

\* Mutant: the descendants are only looked for while the child runs.
Adopted_Early == IF status = None THEN Children \ {Main} ELSE {}

\* Only a reaped child leaves its own to PID 1.
Adopted == IF status # None THEN Children ELSE {}

\* killpg and _signal_adopted with SIGKILL, after which nothing forks; SIGTERM may be
\* ignored, and any process may end at any time.
Signalled(ps) ==
  [p \in Procs |-> IF Live(p) /\ (p \in ps \/ proc[p].group)
                   THEN [proc[p] EXCEPT !.doomed = TRUE] ELSE proc[p]]

Census ==
  /\ pc = "census" /\ pc' = "signal"
  /\ adopted' = Adopted /\ seen' = (seen \/ Adopted # {})
  /\ UNCHANGED <<proc, late, term, kill, status, open, verdict>>

\* The overflow was noted in `verdict' when it happened.
Signal ==
  /\ pc = "signal" /\ pc' = "check"
  /\ LET needs == verdict \/ late \/ adopted # {} IN
     /\ term' = IF needs /\ term = "no" THEN "sent" ELSE term
     /\ verdict' = (verdict \/ (needs /\ term = "no" /\ late))
  /\ IF term = "due" /\ kill = "no"
     THEN kill' = "sent" /\ proc' = Signalled(Children)
     ELSE UNCHANGED <<kill, proc>>
  /\ UNCHANGED <<late, status, open, adopted, seen>>

\* _reap_adopted takes every dead child of PID 1, the child itself too.
Reaped == [p \in Procs |-> IF p \in Children /\ proc[p].st = "zombie"
                           THEN [proc[p] EXCEPT !.st = "gone"] ELSE proc[p]]

LiveChildren == {p \in Children : Live(p)}

\* Mutant: a child that does not die of SIGKILL is polled for ever.
Overdue_Never == FALSE

Overdue == LiveChildren # {} \/ status = None \/ open

\* Past the kill's grace everyone must be gone; else the loop ends with the child
\* reaped, the pipes closed and nobody adopted.
Check ==
  /\ pc = "check"
  /\ IF kill = "due"
     THEN /\ proc' = Reaped
          /\ pc' = IF Overdue THEN "unwind"
                   ELSE IF adopted = {} THEN "finally" ELSE "wait"
     ELSE /\ pc' = IF status # None /\ ~open /\ adopted = {} THEN "finally" ELSE "wait"
          /\ UNCHANGED proc
  /\ UNCHANGED <<late, term, kill, status, open, adopted, seen, verdict>>

\* The finally clause waits for the last of them, or gives up.
Clean == LiveChildren = {}

Finally ==
  /\ pc \in {"finally", "unwind"}
  /\ proc' = Reaped
  /\ \/ Clean /\ pc' = (IF pc = "finally" THEN "returned" ELSE "raised")
     \/ ~Clean /\ pc' = "raised"
  /\ UNCHANGED <<late, term, kill, status, open, adopted, seen, verdict>>

Supervise == Wait \/ Drain \/ Census \/ Signal \/ Check \/ Finally

Over == pc \in {"returned", "raised"}

Done == Over /\ UNCHANGED vars

Next == Process \/ DeadlinePasses \/ TermDue \/ KillDue \/ Supervise \/ Done

\* ChildResult: 255 unless the child left of itself, alone, in time and within its cap.
ReturnsZero == pc = "returned" /\ status = "exit0" /\ ~verdict /\ ~seen

-----------------------------------------------------------------------------
\* Nothing outlives a call that returns at all: not a descendant that changed session,
\* not one that held the pipes, not one forked while the child was being terminated.
\* And a child reported as having left with 0 was alone: no descendant of it was ever
\* handed to PID 1, dead or alive (_run_fixed_child, _reap_adopted).
NothingOutlivesAChild ==
  /\ pc = "returned" => \A p \in Procs : proc[p].st \in {"none", "gone"}
  /\ ReturnsZero =>
       \A d \in Descendants : proc[d].st = "none" \/ proc[d].parent # Pid1

\* The call comes back, whatever the child does: one that cannot be killed ends it with
\* an error (the deadline, the two graces and the reaping after them).
SupervisionEnds == <>Over
=============================================================================
