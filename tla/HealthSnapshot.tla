--------------------------- MODULE HealthSnapshot ---------------------------
(***************************************************************************)
(* The snapshot file between two processes (spp_health_push.py).  The      *)
(* gateway's SnapshotWriter thread stamps, reads the collector and the     *)
(* fleet under their locks, and replaces the file; the health service      *)
(* probes, reads the file, judges its age and posts a report.  The gateway *)
(* may stop anywhere and start again; the file outlives it.                *)
(*                                                                         *)
(* A snapshot's content is the gateway run it came from and the moment the *)
(* collector was read.  The monotonic clock `now' is common to both.       *)
(***************************************************************************)
EXTENDS Integers

CONSTANTS
  MaxNow, MaxBoots, MaxSeq,  \* bounds on the clock, the restarts and the reports
  MaxAge,                    \* SNAPSHOT_MAX_AGE_NS
  None

VARIABLES
  now,
  boot,    \* accounting_boot of the running gateway
  writer,  \* SnapshotWriter.write: its locals while it runs
  file,    \* /run/spp-health/snapshot.json, or None
  health,  \* the health service: main()'s locals
  posted   \* history: the newest content reported as current

vars == <<now, boot, writer, file, health, posted>>

Init ==
  /\ now = 0 /\ boot = 1
  /\ writer = [pc |-> "idle"]
  /\ file = None
  /\ health = [pc |-> "idle", seq |-> 0]
  /\ posted = [boot |-> 0, at |-> 0]

-----------------------------------------------------------------------------
\* Mutant: the writer stamps when it comes to write, at WriteFile.
Stamp_Late == None

\* started = time.monotonic_ns(), before any lock.
Stamp == now

WriteStart ==
  /\ writer.pc = "idle"
  /\ writer' = [pc |-> "collector", stamp |-> Stamp]
  /\ UNCHANGED <<now, boot, file, health, posted>>

\* collector.snapshot(), which may have to wait for the collector's lock.
WriteCollector ==
  /\ writer.pc = "collector"
  /\ writer' = [pc |-> "fleet", stamp |-> writer.stamp, at |-> now]
  /\ UNCHANGED <<now, boot, file, health, posted>>

\* fleet.snapshot() (FleetUsage!Snapshot), which may have to wait for its lock;
\* or the value is out of the contract's bounds and write() raises.
WriteFleet ==
  /\ writer.pc = "fleet"
  /\ writer' \in {[writer EXCEPT !.pc = "file"], [pc |-> "idle"]}
  /\ UNCHANGED <<now, boot, file, health, posted>>

\* The temporary file replaces the old one, or the write fails half way and the
\* old file stays.
WriteFile ==
  /\ writer.pc = "file"
  /\ file' \in {file, [written |-> IF writer.stamp = None THEN now ELSE writer.stamp,
                       at |-> writer.at, boot |-> boot]}
  /\ writer' = [pc |-> "idle"]
  /\ UNCHANGED <<now, boot, health, posted>>

Restart ==
  /\ boot < MaxBoots
  /\ boot' = boot + 1
  /\ writer' = [pc |-> "idle"]
  /\ UNCHANGED <<now, file, health, posted>>

-----------------------------------------------------------------------------
\* sample(): the probes of units, GPU and models, each bounded in time, then the
\* bytes of the file.
Probe ==
  /\ health.pc = "idle"
  /\ health.seq < MaxSeq
  /\ health' = [pc |-> "probed", seq |-> health.seq + 1]
  /\ UNCHANGED <<now, boot, writer, file, posted>>

ReadFile ==
  /\ health.pc = "probed"
  /\ health' = [pc |-> "read", seq |-> health.seq, bytes |-> file]
  /\ UNCHANGED <<now, boot, writer, file, posted>>

\* Mutant: a snapshot is current whatever its age.
Category_Ageless(b) == IF b = None THEN "missing" ELSE "current"

Category(b) ==
  IF b = None THEN "missing"
  ELSE IF now - b.written \in 0 .. MaxAge THEN "current" ELSE "stale"

\* The age is judged after the read; any other failure reports "invalid".
Judge ==
  /\ health.pc = "read"
  /\ health' \in {[pc |-> "judged", seq |-> health.seq, time |-> now, value |-> health.bytes,
                   category |-> c] : c \in {Category(health.bytes), "invalid"}}
  /\ UNCHANGED <<now, boot, writer, file, posted>>

\* post(): delivered or lost, the loop goes on.
Post ==
  /\ health.pc = "judged"
  /\ health' = [pc |-> "idle", seq |-> health.seq]
  /\ posted' \in {posted} \cup
       (IF health.category = "current"
        THEN {[boot |-> health.value.boot, at |-> health.value.at]} ELSE {})
  /\ UNCHANGED <<now, boot, writer, file>>

Tick ==
  /\ now < MaxNow
  /\ now' = now + 1
  /\ UNCHANGED <<boot, writer, file, health, posted>>

Next ==
  \/ WriteStart \/ WriteCollector \/ WriteFleet \/ WriteFile \/ Restart
  \/ Probe \/ ReadFile \/ Judge \/ Post
  \/ Tick

-----------------------------------------------------------------------------
\* A report that calls its snapshot current carries collector state that was read
\* at most MaxAge before, however long the writer was held up between its locks
\* and the file; and the reports never go back in time or to an earlier gateway
\* run (SnapshotWriter.write, read_snapshot).
CurrentMeansRecent ==
  health.pc = "judged" /\ health.category = "current" =>
    /\ health.time - health.value.at <= MaxAge
    /\ posted.boot <= health.value.boot
    /\ posted.at <= health.value.at
=============================================================================
