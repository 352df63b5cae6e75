------------------------------ MODULE DiagRun ------------------------------
(***************************************************************************)
(* One run of the diagnostic appliance and what the host reads of it: the  *)
(* PID-1 controller (conf_proc_spp_diag_controller.py), its framed serial  *)
(* writer (conf_proc_spp_diag_uart.py), the export that powers off after   *)
(* the last byte (conf_proc_spp_diag_export.py), the serial line, and the  *)
(* host's reading of whatever arrived (conf_proc_spp_diag_uart_observation)*)
(*                                                                         *)
(* A record is RecordSize units, its marker first and its line feed last;  *)
(* a unit carries its record.  Any deadline may have passed whenever it is *)
(* looked at, a write may take any part of a record, the line may stall at *)
(* any unit, and a poweroff may return.  The console spoke before the run, *)
(* without a marker.  The host may take its copy at any time, filled up    *)
(* with NULs, and reads it from the front, so `host' is its reading of     *)
(* what has arrived so far; a copy beyond MAX_RAW_SNAPSHOT_BYTES, refused  *)
(* unread, is not taken.                                                   *)
(***************************************************************************)
EXTENDS Integers, Sequences

CONSTANTS
  MaxSuccess,   \* MAX_SNAPSHOT_BYTES / MAX_S_PAYLOAD_BYTES, in records
  MaxFrames,    \* MAX_FRAMES
  RecordSize,   \* bound: units of a record
  MarkerSize,   \* bound: the first of them, MARKER
  MaxLine,      \* MAX_RECORD_WIRE_BYTES, in units
  MaxWire,      \* MAX_WIRE_BYTES
  MaxPreamble,  \* MAX_PREAMBLE_BYTES
  MaxFill,      \* bound: NULs behind a copy
  None

VARIABLES
  at,      \* where the controller is
  phase,   \* current_phase
  fault,   \* the ControllerFault, None without
  uart,    \* identity known, UART configured and writer made
  w,       \* the FramedUartWriter
  queue,   \* units the driver holds
  host,    \* what the host reads of the units it has
  power    \* "on", "off"; "returned" once a poweroff came back

vars == <<at, phase, fault, uart, w, queue, host, power>>

Seal == 15

\* run_controller: what each phase does after its ADVANCE, and the reason it fails
\* with: two CUDA children, three poisoned opens, three networks, three denied
\* execs and the jit mapping; phase 14 only seals.
PhaseReasons(p) ==
  CASE p \in 2 .. 3 -> {"CHILD", "GPU"}
    [] p \in 4 .. 6 \cup {13} -> {"TRACE"}
    [] p \in 7 .. 12 -> {"POLICY"}
    [] OTHER -> {}

\* parse_boot_inputs, read before anything is known of the run.
InputFaults == {[reason |-> "INPUT", phase |-> 0]}

\* verify_pid_fds and _preflight: the binding and plan, the fixtures, the modules,
\* the GPU bootstrap and the AppArmor profile; an error that is no ControllerFault
\* is reported as EXPORT.
PreflightFaults ==
  [reason : {"INPUT", "BINDING", "CHILD", "POLICY", "EXPORT"}, phase : {1}]
    \cup [reason : {"BINDING"}, phase : {0}]

\* _collect_and_export up to load_success.
CollectFaults == [reason : {"CHILD", "GPU", "TPM", "IMA", "EXPORT"}, phase : {Seal}]

Fault(r, p) == [reason |-> r, phase |-> p]

Writer ==
  [seq |-> 0, pending |-> None, off |-> 0, poisoned |-> FALSE, success |-> 0, sent |-> 0,
   complete |-> FALSE, invalidated |-> FALSE, terminal |-> FALSE]

-----------------------------------------------------------------------------
\* observe_uart_blob

\* A copy with n units of other output before the first marker.
Unread(n) ==
  [before |-> n, state |-> "start", seq |-> 0, line |-> <<>>, got |-> 0, of |-> 0,
   failure |-> None, verdict |-> None]

Verdict(o, v) == [o EXCEPT !.verdict = v]

\* inspect_uart_record and decode_uart_record accept one whole record and no other
\* line: its units in order, of one record.
WellFormed(line) ==
  /\ Len(line) = RecordSize
  /\ \A i \in 1 .. RecordSize : line[i].unit = i /\ line[i].rec = line[1].rec

\* _inner_success: parse_export_stream of the payloads so far.
InnerComplete(o) == o.got = o.of

\* One record; a record where it cannot be ends the reading.
Reading(o, rec) ==
  LET next == [o EXCEPT !.seq = @ + 1, !.line = <<>>] IN
  IF o.seq >= MaxFrames \/ rec.seq # o.seq THEN Verdict(next, "invalid")
  ELSE
  CASE rec.kind = "S" ->
         IF o.state \in {"start", "success"} /\ o.got < MaxSuccess /\ rec.part = o.got + 1
         THEN [next EXCEPT !.state = "success", !.got = @ + 1, !.of = rec.of]
         ELSE Verdict(next, "invalid")
    [] rec.kind = "I" ->
         IF o.state # "success" THEN Verdict(next, "invalid")
         ELSE IF ~InnerComplete(o) THEN Verdict(next, "incomplete")
         ELSE [next EXCEPT !.state = "invalidated"]
    [] rec.kind = "F" ->
         IF o.state \notin {"start", "invalidated"} \/ o.failure # None
         THEN Verdict(next, "invalid")
         ELSE [next EXCEPT !.state = IF o.state = "start" THEN "standalone_failure" ELSE @,
                           !.failure = rec.fault]

\* data.startswith(MARKER, offset)
Marked(line) == Len(line) >= MarkerSize /\ \A i \in 1 .. MarkerSize : line[i].unit = i

\* The limits of a line, and of all of them, for a line of n units behind o's records.
Exceeds(o, n) == n > MaxLine \/ o.seq * RecordSize + n > MaxWire

Byte(o, u) ==
  LET line == Append(o.line, u) IN
  IF o.verdict # None THEN o
  ELSE IF u.unit < RecordSize THEN [o EXCEPT !.line = line]
  ELSE IF Marked(line) /\ ~Exceeds(o, Len(line)) /\ WellFormed(line) THEN Reading(o, u.rec)
  ELSE Verdict(o, "invalid")

\* semantic_result, where a record ended; NULs behind it change nothing.
Semantic(o) ==
  CASE o.state = "success" -> IF InnerComplete(o) THEN "complete_result" ELSE "incomplete"
    [] o.state = "invalidated" -> "invalidated_result"
    [] o.state = "standalone_failure" -> "standalone_failure"
    [] OTHER -> "incomplete"

\* The reading of a copy that ends here, with `nul' NULs behind it: no marker yet, too
\* much before it, a record that ended the reading, the end of a record, and a record
\* that is cut, in its marker or behind it.
Status(o, nul) ==
  IF o.seq = 0 /\ o.verdict = None /\ ~Marked(o.line)
  THEN IF o.before + Len(o.line) + nul > MaxPreamble THEN "invalid" ELSE "incomplete"
  ELSE IF o.before > MaxPreamble THEN "invalid"
  ELSE IF o.verdict # None THEN o.verdict
  ELSE IF o.line = <<>> THEN Semantic(o)
  ELSE IF Marked(o.line) /\ ~Exceeds(o, Len(o.line) + nul) THEN "incomplete"
  ELSE "invalid"

-----------------------------------------------------------------------------
Init ==
  /\ at = "start" /\ phase = 0 /\ fault = None /\ uart = FALSE
  /\ w = Writer /\ queue = <<>> /\ power = "on"
  /\ \E n \in 0 .. MaxPreamble + 1 : host = Unread(n)

-----------------------------------------------------------------------------
\* The controller's own steps.

Fails(f) == fault' = f /\ at' = "failstop" /\ UNCHANGED <<w, queue, host, power>>

\* main: a fault before the UART is configured is poweroff-only.
Start ==
  /\ at = "start"
  /\ \/ \E f \in InputFaults : Fails(f) /\ UNCHANGED <<phase, uart>>
     \/ Fails(Fault("EXPORT", 1)) /\ UNCHANGED <<phase, uart>>          \* configure_uart
     \/ /\ at' = "preflight" /\ uart' = TRUE
        /\ UNCHANGED <<phase, fault, w, queue, host, power>>

Preflight ==
  /\ at = "preflight"
  /\ \/ \E f \in PreflightFaults : Fails(f) /\ UNCHANGED <<phase, uart>>
     \/ at' = "advance" /\ phase' = 1 /\ UNCHANGED <<fault, uart, w, queue, host, power>>

\* _advance: a failed or late command is blamed on the phase before.
Advance ==
  /\ at = "advance" /\ phase < Seal - 1
  /\ \/ Fails(Fault("TRACE", phase)) /\ UNCHANGED <<phase, uart>>
     \/ /\ phase' = phase + 1 /\ at' = "act"
        /\ UNCHANGED <<fault, uart, w, queue, host, power>>

\* _child and _direct
Act ==
  /\ at = "act"
  /\ \/ \E r \in PhaseReasons(phase) : Fails(Fault(r, phase)) /\ UNCHANGED <<phase, uart>>
     \/ at' = "advance" /\ UNCHANGED <<phase, fault, uart, w, queue, host, power>>

\* SEAL, and the one read of the sealed stream.
SealAndRead ==
  /\ at = "advance" /\ phase = Seal - 1
  /\ \/ \E p \in {Seal - 1, Seal} : Fails(Fault("TRACE", p)) /\ phase' = p /\ UNCHANGED uart
     \/ /\ at' = "collect" /\ phase' = Seal
        /\ UNCHANGED <<fault, uart, w, queue, host, power>>

\* _collect_and_export: the evidence, then FramedUartWriter.load_success.
Collect ==
  /\ at = "collect"
  /\ \/ \E f \in CollectFaults : Fails(f) /\ UNCHANGED <<phase, uart>>
     \/ \E n \in 1 .. MaxSuccess :
          /\ at' = "success" /\ w' = [w EXCEPT !.success = n]
          /\ UNCHANGED <<phase, fault, uart, queue, host, power>>

-----------------------------------------------------------------------------
\* FramedUartWriter

Record(kind) ==
  [kind |-> kind, seq |-> w.seq,
   part |-> IF kind = "S" THEN w.sent + 1 ELSE 0,
   of |-> IF kind = "S" THEN w.success ELSE 0,
   fault |-> IF kind = "F" THEN fault ELSE None]

\* Mutant: the invalidator is taken for the last record a run can hold.
CanStart_Full == ~w.poisoned /\ w.pending = None /\ w.seq < MaxFrames - 1

\* _start
CanStart == ~w.poisoned /\ w.pending = None /\ w.seq < MaxFrames

CanEmitFailure ==
  ~w.poisoned /\ w.pending = None /\ (w.success = 0 \/ w.invalidated) /\ ~w.terminal

Begin(kind) == w' = [w EXCEPT !.pending = Record(kind), !.off = 0]

Pending == w.pending # None /\ ~w.poisoned

\* _write_pending: any part of what is left; the line feed takes the number.
Write ==
  /\ Pending /\ w.off < RecordSize
  /\ \E n \in 1 .. RecordSize - w.off :
       /\ queue' = queue \o [i \in 1 .. n |-> [rec |-> w.pending, unit |-> w.off + i]]
       /\ w' = [w EXCEPT !.off = @ + n, !.seq = IF w.off + n = RecordSize THEN @ + 1 ELSE @]
  /\ UNCHANGED <<at, phase, fault, uart, host, power>>

\* Mutant: a drain that waits as long as the line does.
Expires_NotInDrain == Pending /\ w.off < RecordSize

\* A deadline or a write error, looked at before each write and all through the drain.
Expires == Pending

\* Mutant: the writer survives the record it could not finish.
Poisoned_Not == [w EXCEPT !.pending = None, !.off = 0]

\* _poison
Poisoned == [w EXCEPT !.poisoned = TRUE]

Poison ==
  /\ Expires
  /\ w' = Poisoned
  /\ UNCHANGED <<at, phase, fault, uart, queue, host, power>>

\* _drain, then what the caller of _send_record notes.
Drain ==
  /\ Pending /\ w.off = RecordSize /\ queue = <<>>
  /\ w' = [w EXCEPT !.pending = None, !.off = 0,
                    !.sent = IF w.pending.kind = "S" THEN @ + 1 ELSE @,
                    !.complete = @ \/ (w.pending.kind = "S" /\ w.sent + 1 = w.success),
                    !.invalidated = @ \/ w.pending.kind = "I",
                    !.terminal = @ \/ w.pending.kind = "F"]
  /\ UNCHANGED <<at, phase, fault, uart, queue, host, power>>

\* The serial line, external: the host gets the units in order, while power is on.
Transmit ==
  /\ queue # <<>> /\ power # "off"
  /\ host' = Byte(host, Head(queue)) /\ queue' = Tail(queue)
  /\ UNCHANGED <<at, phase, fault, uart, w, power>>

-----------------------------------------------------------------------------
\* framed_export_and_poweroff and _fail_stop

Goto(there) == at' = there /\ UNCHANGED <<phase, uart, queue, host>>

\* write_success sends the next record; an error asks for the poweroff at once.
Success ==
  /\ at = "success"
  /\ \/ /\ w.pending = None /\ ~w.poisoned /\ ~w.complete /\ CanStart
        /\ Begin("S") /\ Goto("success") /\ UNCHANGED <<fault, power>>
     \/ /\ w.complete \/ w.poisoned \/ (w.pending = None /\ ~CanStart)
        /\ Goto("poweroff") /\ UNCHANGED <<fault, w, power>>

\* request_poweroff: the machine stops, with what the driver still held, or the
\* call comes back.
PowerOff ==
  /\ at = "poweroff"
  /\ \/ power' = "off" /\ at' = "off" /\ UNCHANGED <<phase, fault, uart, w, queue, host>>
     \/ /\ power' = "returned" /\ fault' = Fault("EXPORT", Seal)
        /\ Goto(IF w.complete /\ ~w.poisoned THEN "invalidate" ELSE "failstop") /\ UNCHANGED w

\* emit_invalidator, once.
Invalidate ==
  /\ at = "invalidate"
  /\ \/ /\ w.pending = None /\ ~w.invalidated /\ CanStart
        /\ Begin("I") /\ Goto("invalidate") /\ UNCHANGED <<fault, power>>
     \/ /\ w.poisoned \/ w.invalidated \/ (w.pending = None /\ ~CanStart)
        /\ Goto("failstop") /\ UNCHANGED <<fault, w, power>>

\* _fail_stop: one permitted failure record, then poweroff in any case; the process
\* exits if that returns too.
FailStop ==
  /\ at = "failstop"
  /\ \/ /\ uart /\ CanEmitFailure /\ CanStart
        /\ Begin("F") /\ Goto("failstop") /\ UNCHANGED <<fault, power>>
     \/ /\ w.poisoned \/ (w.pending = None /\ ~(uart /\ CanEmitFailure /\ CanStart))
        /\ \E p \in {"off", "returned"} : power' = p
        /\ at' = IF power' = "off" THEN "off" ELSE "exit"
        /\ UNCHANGED <<phase, fault, uart, w, queue, host>>

Next ==
  \/ Start \/ Preflight \/ Advance \/ Act \/ SealAndRead \/ Collect
  \/ Write \/ Poison \/ Drain \/ Transmit
  \/ Success \/ PowerOff \/ Invalidate \/ FailStop

-----------------------------------------------------------------------------
\* A copy that no run could make readable: the console said too much before it, or it
\* ends inside a record, in the marker or with NULs behind it.
Unreadable(o, nul) ==
  \/ o.before > MaxPreamble
  \/ o.seq = 0 /\ o.before + Len(o.line) + nul > MaxPreamble
  \/ o.line # <<>> /\ (Len(o.line) < MarkerSize \/ nul > 0)

\* Whenever the host takes its copy, it reads nothing the run did not do.  A writer
\* that gave up in the middle of a record writes no other, so only the place of the cut
\* makes a copy invalid, never its records; a result is only read from a run that sealed
\* and sent every record of it; a failure on its own comes from a run that had no
\* result, with the reason and phase of its fault; and an invalidated result is one
\* whose poweroff came back (FramedUartWriter, framed_export_and_poweroff,
\* observe_uart_blob).
HostReadsTheRun ==
  \A nul \in 0 .. MaxFill :
    LET read == Status(host, nul) IN
    /\ read = "invalid" => Unreadable(host, nul)
    /\ host.failure # None => host.failure = fault
    /\ read \in {"complete_result", "invalidated_result"} =>
         phase = Seal /\ w.success = host.got
    /\ read = "standalone_failure" => w.success = 0
    /\ read = "invalidated_result" => fault = Fault("EXPORT", Seal)

Over == at \in {"off", "exit"}

\* A run that is over and whose writer never gave up has told the host how it ended,
\* however long its result was and however many NULs the copy is filled up with: the
\* result if the poweroff worked, the result withdrawn and the failure behind it if it
\* came back, or the failure alone (the failure record still fits after MAX_FRAMES - 2
\* success records).
OutcomeIsTold ==
  Over /\ uart /\ ~w.poisoned /\ host.before <= MaxPreamble =>
    \A nul \in 0 .. MaxFill :
      IF fault = None THEN Status(host, nul) = "complete_result"
      ELSE /\ host.failure = fault
           /\ Status(host, nul) =
                IF w.success = 0 THEN "standalone_failure" ELSE "invalidated_result"

\* Every run ends powered off or with the controller gone, even when the line never
\* moves again: every wait has a deadline (_write_pending, _drain, _fail_stop).
RunEnds == <>Over
=============================================================================
