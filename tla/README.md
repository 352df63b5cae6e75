# conf-proc: TLA+ models, checks and proofs

This directory holds TLA+ specifications of the parts of conf-proc that keep
state across calls, threads or tasks; TLC configurations that model-check them
on small instances; and TLAPS proofs of the properties that matter most, for
every value of the constants. `PROJECT.json` maps every definition to the source
lines it models.

Paths below are relative to the repository root (`src/` in `PROJECT.json`).

## 1. The system

conf-proc serves model inference from a confidential VM. A client opens an
attested TLS channel to the **gateway**, receives a proof (TPM quote, GPU
evidence, OCSP status of the evidence's signers, bound to the channel), and then
sends requests that the gateway authorizes with a portal, meters and relays to
local model servers. Before that, the appliance is **built, inspected and
promoted**, **booted** through a reducer that only proceeds on observed facts,
and in diagnostic runs **traced** by a kernel core whose sealed stream an
appraiser accepts or refuses off-line.

| Part | State it keeps | Operations | Talks to |
| --- | --- | --- | --- |
| Allowance (`allowance.py`) | per-journal day, usage, occupancy, last completion; the current day | `begin`, `finish`, `expire` | called by every relay thread and by the server's service loop |
| Gateway handler and relay (`ratls_gateway.py`) | per connection: phase, timers, authorization, request, lease | admit, read head, authorize, begin, wait, forward, relay, settle; timer threads | portal, upstream, allowance, tally, collector, status cache |
| Single-opener collector (`ratls_gateway.py`, `CommandCollector`) and the worker it runs (`ratls_collector.py`) | a lock, availability, diagnostics, one process group; a cached certificate | `call`, cleanup; one request per worker | gateway admissions and the status worker; TPM, GPU, AMD's key service |
| Status proofs (`ratls_status_proofs.py`) | per subject: newest verified proof; worker schedule | `accept`, `snapshot`, `refresh`, `stop` | OCSP responder, collector, gateway admission |
| Usage tally and fleet usage (`usage_tally.py`, `fleet_usage.py`) | scanner flags, counters, daily totals, released month | feed, commit, roll, snapshot | relay, health push |
| Health (`spp_health_push.py`, `spp_health.py`) | snapshot file, report sequence | write, read, sample, post | systemd, model servers |
| ASR shim (`asr_shim.py`) | bounded queue, batch, slots | enqueue, batch, answer | relay |
| Client verifier (`verifier.py`) | a directory of evidence, a nonce | appraise, release | the guests |
| Kernel trace core (`spp-diag-trace-core-src/`) | phase, task, operation and frame tables, boot stage, failure | boot records, LSM hooks, control commands, SEAL | IMA, LSM hooks of every task, the diagnostic init |
| Trace appraiser (`conf_proc_spp_diag_trace*.py`, `.c`) | reducer state | one step per frame | reads the sealed stream |
| Diagnostic run (`conf_proc_spp_diag_controller.py`, `..._uart.py`, `..._export.py`) | run phase, children, UART writer | phases, capture, export, terminal record | trace core, UART, host |
| Diagnostic evidence on the host (`conf_proc_spp_diag_mapper.py`, `conf_proc_spp_diagbundle*.py`) | captured stream, closure, image, certificates | map, inspect, appraise, publish | the operator's files |
| Boot reducers and serving authority (`conf_proc_spp_boot*.py`) | boot state, PCR-15 latch, issued bindings, capabilities, wrappers, permits | effect/observation, claim, admit, revoke, acquire/release | TPM, candidate controller |
| Candidate (`conf_proc_spp_candidate_*.py`, `conf_proc_spp_attestation_broker.py`) | children, sessions, signals; resume frame, broker, message channel | adopt, reap, step, fail-stop; resume, quote, send/receive | kernel, TPM, ledger |
| Builds, inspection, provenance, promotion (`conf_proc_build*`, `conf_proc_inspect*`, `conf_proc_provenance*`, `conf_proc_promote.py`, `conf_proc_spp_boot_payload*`, `conf_proc_spp_diag_runtime_build.py`, `conf_proc_spp_diag_trace_core_*.py`) | files, stages, leases | read, stage, recheck, publish by rename, inspect | file system, external tools, each other |

What is hard here: handler threads, timer threads and the service loop share the
allowance; a process group outlives the command that started it; status
responses arrive in any order while an admission waits; the wall clock may step
back; the trace core is entered from LSM hooks of every task, and drops its lock
to measure; several boot reducers share one latch, and several threads race to
admit and to revoke the serving authority; a TPM command may time out after it was
carried out; a serial line stops in the middle of a record; builders run together
over files that are edited between two reads, and are killed between two renames.
The properties that make each part correct are those of section 4; the hazards
they answer are listed, with their lines, in `PROJECT.json`.

## 2. Modules

| Module | Models | Composes |
| --- | --- | --- |
| `Allowance` | the ledger, and the waiting and working of its users | - |
| `UsageWalker` | the scanner for usage objects, beside a producer of well-formed JSON | - |
| `FleetUsage` | daily table, bands, monthly release, clock steps | - |
| `HealthSnapshot` | the snapshot file between gateway and health service | - |
| `AsrShim` | queue, batch worker and handlers of the transcription sidecar | - |
| `Collector` | `CommandCollector` and the process group it runs | - |
| `DiagRun` | a diagnostic run, its UART writer, the line, and the host's reading | - |
| `ChildSupervision` | `_run_fixed_child` against a child that forks, hangs and floods | - |
| `Supervision` | the sum of the collector, a diagnostic run, its child and the health reports, and their properties | `EXTENDS Collector`, `INSTANCE` of `DiagRun`, `ChildSupervision`, `HealthSnapshot` |
| `StatusProofs` | cache, worker and the four snapshots of an admission | - |
| `Gateway` | one connection from accept to close, for several channels | `INSTANCE Allowance` on shared variables; refines it |
| `TraceCore` | the kernel core from `init` through boot, the interval and SEAL | - |
| `Appraiser` | the reducer that accepts or refuses a stream | - |
| `Trace` | the sum of the core and the appraiser, and their property | `EXTENDS TraceCore`, `INSTANCE Appraiser` |
| `ServingLedger` | `ServingResourceReducerV3`: sessions and their permits | - |
| `Candidate` | PID1's event loop, children, cold interval, serving start, session owner and `fail_stop` | `EXTENDS ServingLedger` |
| `BootPermit` | abstract: one engine extends PCR 15, and only it serves | - |
| `BootChain` | the reducers of v1, v2 and v3 in one process, their latch, the failure controller | refines `BootPermit` |
| `BootRegistry` | the registry of issued bindings | - |
| `ServingAdmission` | admission, publication, cleanup and revocation by several threads | - |
| `ResumeAnchor` | the hand-over from stage 1 to stage 2 over the TPM | - |
| `QuoteBroker` | the attestation broker, its client and the appraisal of its quotes | - |
| `MessageChannel` | the chunked, acknowledged channel of controller and gateway | - |
| `EvidenceWorker` | one run of the evidence worker, the certificate cache | - |
| `KeyRelease` | the off-guest verifier over a shared directory | - |
| `Boot` | the sum of the eight parts above, and their properties | `EXTENDS BootChain`, `INSTANCE` of `BootRegistry`, `ServingAdmission`, `ResumeAnchor`, `QuoteBroker`, `MessageChannel`, `EvidenceWorker`, `KeyRelease` |
| `EvidenceBundle` | mapper, bundle inspector, IMA replay and appraisal on the host | - |
| `Assembly` | concurrent provenance assembly: lease, stage, exposure | - |
| `ProvenanceInspect` | production and inspection of a provenance bundle | - |
| `PayloadBuild` | building, publishing and inspecting the boot payload | - |
| `RuntimeStage` | staging the diagnostic runtime under pinned reads | - |
| `KernelHandoff` | materialising the trace core onto a kernel tree, three builds | - |
| `GuestBuild` | building, inspecting and promoting the guest's images | - |
| `AllowanceProofs`, `SupervisionProofs`, `StatusProofsProofs`, `GatewayProofs`, `TraceCoreProofs`, `CandidateProofs`, `BootChainProofs`, `BootProofs` | proofs | the module they name; `GatewayProofs` also `INSTANCE AllowanceProofs` |
| `MC*` | constants and symmetry for TLC | the modules of their run |

Definitions named `X_Something`, or commented as a mutant or a bug, are wrong
variants of a definition. They occur in no specification; substituting one shows
that a property notices that mistake.

**Runs over several parts.** `MCAllowance`, `Supervision`, `Trace`, `Boot`
and `MCEvidence` put parts that answer one question side by side. The variable
`part` is chosen in the initial state and never changes. In `Boot`,
`Trace` and `Supervision`, about which `BootProofs`, `TraceCoreProofs` and
`SupervisionProofs` prove theorems, every part has variables and constants of its own name;
in the others the parts after the first are instantiated over a bank of variables
`v1, v2, ...`. Either hold `None` where the chosen part has no use for them. A behaviour is thus a behaviour of one
part for ever, and a property of the form `part = p => P` holds of the sum exactly
when `P` holds of part `p`; the parts do not interact there. Where components do
interact they share variables instead: `Gateway` with `Allowance`, `Candidate` with
`ServingLedger`.

### Allowance

`states` is the `_states` table, a partial map from journals to state *objects*;
`heap` holds the objects, because a lease keeps a reference to its object that
survives the table (a rollover may delete an idle entry and a later `begin`
creates another). `lease[c]` is what channel `c` holds, `stage[c]` whether it is
idle, waiting for its delay or doing upstream work. `Begin`, `Refuse`, `Finish`
and `Expire` are the methods with their lock held; every one includes the
`_expire` the code calls first. The `finished` flag of a lease is its absence
from `lease`. `SetWallClock` lets the wall clock go to any day, back too, and
`Tick` advances the monotonic clock. `StartWork` is the caller's side: the relay
does no work before the delay is over.

### Collector

Each caller goes through the queue (`Call`, `Acquire`, `QueueTimeout`), the
opening (`Enter`, `Spawn`), the command (`Communicated`, `ExecutionTimeout`), the
cleanup (`Cleanup`) and the exit (`Leave`, which sets availability, diagnostics
and releases the lock in one step as nothing observes the states between). The
process group is external: the command may exit or hang, leave descendants in
its group, and descendants that have left the group (`StrayEnds`) and that
`_group_active` cannot see. `EveryCallReturns` uses the bounded waits of
the code, not the cooperation of the command.

### StatusProofs

A response is (subject, status, thisUpdate, nextUpdate); `Verified` is what
`verify_response` makes of it at an instant. `Merged` is `ProofCache.accept`,
`Ready` is `snapshot`, `Snapshot` one of the snapshots an admission takes in
`Order` before the evidence, with the certificate, before and after the proof is sent. The worker fetches,
fails, backs off, retries and stops.

### Gateway

`conn[c]` is the handler thread's program point and locals; `timers[c]` are the
`threading.Timer` threads, which pass through `firing` between the end of their
wait and the lock, where `_ConnectionDeadline` may re-arm. The client, the portal
and the upstream answer in any way the code tells apart, or never; a
blocked call ends only with an answer or when the raw socket is shut down. The
ledger's actions are those of `Allowance`, conjoined with the relay's steps, so
that `AllowanceProtocol == A!Spec` is a refinement: all the theorems about
`Allowance` hold of the ledger as the gateway uses it.

### TraceCore

`stream` is the appended stream as (event, task, operation, phase, kind) frames,
`tasks` and `ops` the runtime tables with their caps, `stage`, `phase`, `sealed`
and `failed` the fields of `core`, `boot` where the boot thread is, `command` where
a SEAL in progress is, `inflight` the tasks whose bad call has passed the sealed
check and not yet marked its failure, and `ima` the records IMA measured. Every hook is an action: guard, `find_task`, `open_op`, append, and the
sticky failure for whatever does not fit. SEAL is three actions because the code
unlocks around `ima_measure_critical_data`. A failed check (`fail_sticky`) is
part of the action that meets it. Field checks of a frame (`check_append_fields`)
are abstracted to whether they hold. Hooks with bad arguments are those of tracked tasks; a user
task created before the root is bound is assumed not to linger until SEAL. A call
that arrives with bad arguments is `EnterBadHook` followed, at any later time, by
`MarkFailure`, since the wrappers check first and take the lock afterwards.

### ServingLedger and Candidate

`ServingLedger` has one action per method of `ServingResourceReducerV3`. Tokens
are random, so a stale one meets no record; a refusal changes nothing and has no
action. A saturated acquisition is not a refusal: it sets `must_release_only`.

`Candidate` puts it under `CandidateSessionOwner` and `CandidateController`. PID1
is one thread which blocks only in the selector, so an action is what it does
between two waits; `pc` says what that is, and `back` where it continues after the
selector. Children, adopted processes, cgroup and device events and the clock move
at any time, also while PID1 sleeps. `StepBegin` is `_step` up to the
selector (checks, `_reap`, `expire`, timeout), `SelectReturns` the rest; after
the selector the code looks at the devices again and not at the cgroups.
`FiniteRun`, `ColdRun`, `ColdAccept`, `DirectControl` and `Seal` are the finite
interval with its phases, `StartServing` and `ServingReady` the cohort. Whatever
raises in them ends in `Stop`, which is `fail_stop`. The handlers (`Handler`) are
the methods of the owner and of the ledger, in any order, also after a failure.
The kernel's answer to a phase command, a child's output and a readiness message
are accepted or refused freely. No file of the repository puts the interval
and the cohort in sequence (an entry does that outside it), so the model
lets them be called at any time and the code's own guards have to do it.

### Accounting: UsageWalker, FleetUsage, HealthSnapshot, AsrShim

`UsageWalker` keeps the flags of the code's scanner in `w`, with its key buffer. A
producer writes documents and keeps in `ref` what a parser would report; the scanner
sees only what is written. A string is written byte class by byte class (`InString`,
`AppendKey`): quotes, escapes, braces and other bytes, and a key may be too long for the
buffer. A number is one lexeme, so the chunks of the relay are any grouping. A key is
what stands between its quotes: `usage` spelled with an escape is another name to the
scanner, and to `ref`, which therefore says what a parser reports under the name *as
written*; a parser that undoes escapes would report such a member too. `FleetUsage` has one action per
locked method; `day` is the wall clock and may be stepped both ways, `truth` records
what was really served. In `HealthSnapshot` the writer stamps, reads and replaces in
separate steps and the gateway may stop between any two of them. In `AsrShim` a
handler that gave up leaves its request in the queue and the worker serves it
still; `counted` are the metrics. A handler counts first and then writes (`Reply`,
`Written`): the write may raise, so audio is metered that nobody received, and a body
that cannot be read ends the handler uncounted (`ReadFails`).

### Diagnostic run: DiagRun, ChildSupervision

`DiagRun` follows the controller from its start to the power-off. A record is
written unit by unit and a write may take any part; `queue` is what the driver holds
and `host` what `observe_uart_blob` makes of the units that arrived; it reads from the
front, so its reading is kept up to date unit by unit and the host may take its copy at
any time, with any number of NULs behind it and any preamble before it (`Status(o, nul)`).
A copy that ends within the marker of a later record, or has NULs behind a cut
record, is invalid to the code, and so is one with too much before the first marker:
`HostReadsTheRun` says that nothing else is (`Unreadable`). A deadline may have passed whenever it is
looked at. `Poison` and `FailStop` are the paths after a torn write. `ChildSupervision` is the poll
loop of `_run_fixed_child`; processes, reparenting and pipes are the kernel's.

### Appraiser

`r` is the reducer's state and `Feed` one frame of any producer, honest or not, so
the property quantifies over every stream within the bounds. A path is the one the
phase's control names or another one. The history variable `log` keeps the frames of
the current phase that bear on its control; when a marker closes the phase, `story`
records whether they show it (`Shows`), which is defined on the frames alone and not on
what the reducer counted.

The plan of the jit phase asks that its path is opened once, with success, and that an
object looked up at that path is mapped and then one is made executable. It does not ask
for the object that was opened: `_file_policy`
(`conf_proc_spp_diag_trace_semantics.py:915-916`) overwrites `jit_object` at every
policy row for the plan's path, also at that of an open that then fails, so a later
failing open of a replaced file moves the object the mapping is compared with. The proof
of `AppraisalIsSound` needs this distinction and showed it; the run, with three
operations in that phase, cannot tell the two readings apart. The test
`jit_object_relation` (`test/conf-proc-spp-diag-trace-semantics-selftest.py:342-344`)
changes the object of a stream with a single open, so it holds of both.

### Boot: BootChain, BootRegistry, ServingAdmission

In `BootChain` a reducer is its version, the state of the chain it is in, whether an
effect is pending and the transports it has claimed. `NextEffect`, `Advance`,
`AdvanceExtend` and `Accept` are the methods of the same names; whether an
observation is the expected one is a choice, except for the latch and PCR 15, which
are kept: `pcr` is the sequence of the engines that extended it, and a timeout or an
exception may have extended it or not. `Permit` is the refinement mapping to
`BootPermit`.

`BootRegistry` keys bindings by address, and an address may be given to a later
binding while callbacks of the collected one are still to run. `ServingAdmission`
gives every thread a stack of return labels, and a step is what the code does between
two points at which another thread can run: the launch transition lock and the
wrapper's operation lock are modelled, locks that are never held across a wait are
not. `UseRun` is the body of an operation, for `advance` the transport's `execute`, with
the operation lock held, and `CleanClose` the caller's callback; neither need return
(`Returns`, `Outside`). `writable` tells behaviours in which something changes the binding's bytes,
which the code detects, from the others.

### Candidate surroundings: ResumeAnchor, QuoteBroker, MessageChannel

A PCR is the sequence (or number) of the values extended into it. An exchange
with the TPM may be lost before or after it took effect, an operation may be called
again, the machine may restart. In `MessageChannel` both ends are single-threaded; collector responses
(`Responses`) go in chunks that are acknowledged, also when one chunk is enough, and
other messages in one frame;
either socket buffer may be full, a frame may be repeated and time passes between any
two steps. The field `said` of an end and of a frame counts the messages the end was
given to send; it is history, which no guard reads and `BootProofs` does.

### Attestation: EvidenceWorker, KeyRelease, EvidenceBundle

`EvidenceWorker` has one action per step of a worker's `main`; firmware updates, the
key service, the GPU's mode and kills happen between any two of them, and the cache is
written in place. `KeyRelease` reads the directory file by file, some files twice, while guests write to
it. The verifier takes for granted that nobody writes during an appraisal;
`AttestedIsWhatRuns` is stated for those appraisals (`stable`), and the mixture it
excludes is one that was there when the appraisal began. `EvidenceBundle` lets every member of a bundle come from any execution, and picks
a member at the step that first compares it with something. The staging file of a failed
run is removed or, where the removal fails too, left (`GiveUp`). Digests are the values
they are taken of and signatures the pair of key and message.

### Builds: PayloadBuild, RuntimeStage, KernelHandoff, Assembly, ProvenanceInspect, GuestBuild

All are sequences of reads, checks, staging, rechecks and a rename that replaces
nothing, by several processes over files that others edit. Each step of the code that
can fail or be the last before a kill is an action of its own. `Assembly` keeps inodes
and names apart, since a removal that has opened its directory goes on working on
that inode. It compares the trees with the authorities before it freezes them
(`ValidateAuthorities`, `FreezeTrees`), as the code does; afterwards only the policy, the
graphs and the modules are looked at (`Observable`). The history variable `slips` holds
what somebody put into a tree in between, which `ExposedIsWhole` lets through if it is
`Observable`. In `RuntimeStage` any system call may be refused, an output whose
parent could not be synced may be kept, and a cleanup may fail (`kept`, `littered`).
`ProvenanceInspect` opens, reads and rechecks in the code's order, with
in-place edits, replacements and renames of directories between any two steps.
`GuestBuild` has the builder, the inspector it starts (which reads lock, policy and
bundle for itself) and the promotion; a tool may pack something else than it was
given.

## 3. Runs

| Run | Instance | States | What it shows |
| --- | --- | --- | --- |
| `allowance` | 2 channels, 1 journal, 2 objects, 3 days, usage cap 3; walker of documents one level deeper than it follows; 2 devices in months of 2 days; 4 transcriptions for a queue of 2 | 2,284,429 | occupancy, slow lane, cooldown, forgiveness; the figures tell what happened |
| `supervision` | 3 collector callers with deadlines 0, 1, none; results of up to 3 records of 3 units, 2 of them the marker; a child with 2 descendants; a gateway restarted once and 3 reports | 688,476 | one opener, truthful diagnostics, the host is told, reports are recent; calls, runs and children end |
| `gateway` | 2 channels, one journal, one credential | 1,043,666 | no leaked lease; refinement of `Allowance` |
| `gateway_channel` | 1 channel, 2 credentials, 2 requests, every request head | 881,104 | bearer, timers, turnover, closing |
| `gateway_tally` | 1 channel | violation | a response that is never accounted |
| `trace_core` | 2 tasks, 1 file, 2 operations, 12 frames, 3 phases; appraiser with 8 phases, 2 tasks | 581,668 | sealed stream complete, measured, final; an accepted stream shows the whole plan |
| `candidate` | 2 sessions, 2 routes, 1 socket, 5 phases, times up to 2 | 2,367,622 | permits conserved, leases end on time, `fail_stop` final, serving after the seal |
| `boot` | 2 engines of every pair of versions, 2 repeated items; 2 threads; 2 bindings at 1 address; 2 boots; 4 guests | 1,239,195 | the permit, the authority, the registry, the TPM's users, the channel |
| `evidence` | 1 subject, 2 admissions; 10 executions, 5 sets of certificates; 2 processes per build, 1 or 2 edits or kills each | 3,520,218 | no rollback of a status; published is whole or absent |
| `admission_deadlock` | 2 threads, 2 capabilities | violation | cleanup and terminal report wait for each other |
| `boot_readback` | 2 engines | violation | v3 serves on an extension nobody read back |
| `assembly_cleanup` | 2 processes, 1 restart | violation | a late removal takes another holder's stage |

**Bounds and why they are enough.** Two channels of one journal are enough for
every race on the ledger, since all others are between a pair; the second object
lets a table entry be deleted and recreated while the old one is referenced. Two
days and a step back give both directions of a rollover. Three callers let one run,
one queue and one arrive after the collector became unavailable. One subject is
enough for the merge, which treats subjects separately; an admission needs all of
them, and the theorems cover any number. Two tasks give parent and child, two
operations one nested or one per task, and with three the caps are met in the
same way. Times are small so that every order of the deadlines happens:
admission 1, lifetime 1 or 2, grace 1, and each call of the upstream's socket 1; one
piece of a body may have arrived before the socket is shut (`Backlog`), where in
`gateway` there is none. In `candidate` two sessions compete for
everything there is one of; a lease is shorter and a handshake as long as the longest
wait; phases 4 to 13 of the interval are alike and one of them is kept.
In `boot` a second engine is what can take another's place, a second thread what can
overtake, and one address for two bindings makes every reuse happen; three
engines add only a third that the latch refuses like the second. In `evidence` two
builders of one address are every race for it; two events (an edit and an edit back,
an edit and a kill) are what a recheck has to notice, and each of the other executions
differs from the expected one in one respect, so that each comparison is the only one
that can tell it. Four transcriptions fill a queue of two, a batch and leave one
refused; the documents of the walker are deeper than the depth it follows and longer
than its buffer, and its longest key does not fit (`KeyMax`). A record of three units of
which two are the marker can be cut in the marker, behind it and in its last unit, and
the preamble and the fill go one beyond their limits.

**Deadlock** is checked in the two gateway runs. In the others some part really
stops: a walker's producer is at its bounds, a run of the appliance powers off, the
status worker is stopped, a panic stops the machine and a sealed trace is final,
`fail_stop` ends PID1, a build ends. That nobody waits for ever where the code promises an
end is stated as liveness instead (`CallsComeBack`, `EveryConnectionCloses`,
`FailureEndsServing`).

**Fairness.** `supervision` assumes weak fairness of each collector caller's own
steps, of time, of the run controller's steps and of the supervision loop with its
deadlines: they are threads and loops with bounded waits. It assumes nothing of a
command, of a child, of the kernel ending a process, of the lock's order or of the
serial line. `gateway_channel` assumes weak fairness of a handler's steps that do not
wait on a peer, of timer threads and of time; a client, portal or upstream may stay
silent for ever, and the connection still closes, with one exception: `handle` cancels
the deadline before the TLS `shutdown()` (`Close`, `Farewell`), so a client that does not
read can hold a handler there; `EveryConnectionCloses` says that by then the lease is
returned and the timer cancelled. `boot` assumes that a thread of PID 1
whose call can go on does, and nothing about who gets a lock nor that a transport or a
callback returns: `FailureEndsServing` allows the cleanup to wait for one that never
does, and then the wrapper takes no new operation; `admission_deadlock` makes the same
assumption, so that the wait it shows is not a scheduler that stopped.

**Refinements.** `AllowanceProtocol == A!Spec` in `Gateway`: each of the gateway's
steps is a step of the ledger's specification or leaves it alone. `PermitSpec` in
`BootChain`: the three versions of the reducer, mixed in any way, implement
`BootPermit`.

**Findings.**

1. `gateway_tally`: `_http_relay` catches `(RelayProtocolError, OSError,
   ConnectionError)` around the body copy to commit a chat response as truncated
   (`ratls_gateway.py:1044`). `client.sendall` is pyOpenSSL's, whose `SSL.Error` is
   none of these. When the client side breaks in the middle of a body, the tally is
   never told, while `test/usage-tally-selftest.py:512`
   (`test_truncated_stream_keeps_last_snapshot_and_marks_incomplete`) states that
   a truncated stream is marked incomplete; the test breaks the upstream side only.
   The allowance is charged in both cases.
2. `admission_deadlock`: once the bytes of a binding have changed, the thread that
   runs the wrapper's cleanup calls back into the engine, which takes the launch
   transition lock; a thread in `report_controller_terminal_v3` holds it and waits for
   the cleanup (`conf_proc_spp_boot_v3_resource.py:579`). The repository's test of this
   race (`test/conf-proc-spp-boot-v3-readiness-selftest.py:1110`) does not change the
   binding. `FailureEndsServing` is therefore stated for behaviours in which nobody
   does.
3. `boot_readback`: v3 goes on from a PCR-15 extension that timed out without reading
   the register (`conf_proc_spp_boot_v3.py:2288`), while its own tables name the
   readback as a precondition (`conf_proc_spp_boot_v3_tables.py:949`, `:1498`).
   `ServingIsMeasured` is therefore stated for v1 and v2, which do read it.
4. `assembly_cleanup`: a failed assembly removes its stage after it gave the lease
   back (`conf_proc_provenance_v2_assemble.py:408`); the path depends on the address
   only, so the next holder's stage may be the one removed. `ExposedIsWhole` therefore
   leaves out behaviours in which such a removal overlapped a lease (`raced`).

## 4. Properties

- `allowance`: `OccupancyExact`, `SlowRunsAlone`, `CooldownHonoured`,
  `UsageOnlyForgivenByANewDay`; `UsageIsTrue` (walker against grammar, released
  histogram against truth, transcripts to their senders).
- `supervision`: `CollectorIsHonest` (one opener, snapshot truthful, a response
  means the group is gone); `DiagnosticIsTold` (the host reads a prefix of the run and
  how it ended; nothing outlives a child); `ReportsAreRecent`; `CallsComeBack` (liveness).
- `gateway`, `gateway_channel`: `NoLeakedLease`, `AllowanceProtocol` (refinement),
  `ChargedToItsBearer`, `AdmittedKeepsItsTime`, `ServedWithinTurnover`,
  `EveryConnectionCloses` (liveness).
- `trace_core`: `SealedStreamIsComplete`, `MeasuredIsWhatIsRead`,
  `SealedStaysGreen`, `ReleasedOnlyAfterMeasurement`, `AppraisedTellsThePlan`.
  `SealedStaysGreen` is the concurrent form of what
  `test/conf-proc-spp-diag-trace-core-runtime-fs-selftest.c:657` asserts for one
  sequence of calls ("core remains green (not failed)").
- `candidate`: `PermitsConserved`, `GrantsUnderALease`, `NobodyOverstays`,
  `StoppedLeavesNothing`, `ServingAfterTheSeal`.
- `boot`: `MeasuredOnce`, `PermitSpec` (refinement), `AuthorityIsOne`,
  `FailureEndsServing` (liveness), `BindingsAreTrue`, `MeasurementsHoldTogether`,
  `AttestedIsWhatRuns`, `DeliveredInOrder`.
- `evidence`: `NewestAcceptedDecides`, `CertifiedProofsStillValid`, `NoRollback`,
  `BadNewsStopsAdmission`, `BundleIsOneExecution`, `ProvenanceIsWhole`,
  `BuildsAreWhole`.
- Violated, see the findings: `ResponseAccounted`, `TerminalReturns`,
  `ServingIsMeasuredV3`, `HolderKeepsItsStage`.

Each is stated in words above its definition. A property of a run over several
parts is the conjunction of the parts' own, which are stated in their modules. Each
of those modules defines at least one wrong variant that its conjunct catches;
`PROJECT.json` lists one per property.

## 5. Proofs

All from the assumptions named `...Assumption` in the component modules (types
of the constants, positive caps, `None` not a value), which TLC evaluates in the
runs. Those of `Boot` are: threads, bindings and capabilities are numbered and 0 is no
thread and no binding; `None` is no message, frame, position or number; the channel has
two ends, a message has a chunk or more, and only a collector response more than one; no pinned intermediate certificate is a
forger's, and whether a chip is genuine is a matter of the chip (the cryptography, see
section 6). Those of `Supervision`: a result, its withdrawal and the failure fit in a
run (`MaxSuccess + 2 <= MaxFrames`; the code has 256 and 258), a record is longer than
its marker and no longer than a line may be, all records together are within the wire's
limit, PID 1, the child and its descendants are different processes, and `None` is no
fault, record, time or snapshot. That of `Trace` (`PlanAssumption`): a phase has one control and the first has
none, as in the fixed table of phases. The inductive invariants were model-checked before they were proved, except
those that quantify over frames or firmware levels of any kind (`ResumeInv`,
`ReleaseInv`), which TLC cannot evaluate. A proof module states a contract for the steps of one actor
once (`Keeps`, `Tells`, `StepOf`, `Nearby`, `OneWrapperStep`), proves each action to
satisfy it, and derives the invariant from the contract.

**`AllowanceProofs`.** `OccupancyExact` is not inductive: a `finish` could meet an
object that two journals share, or an idle state with a lease. The invariant
`IInv` adds that the active count of every object is the number of leases on it
(`ActiveCounts`), that an object with open leases is still in the table
(`OpenInTable`), that no two journals share one (`TableInjective`), that usage
implies a completion time (`UsedMeansCompleted`), that a channel's stage agrees
with its lease (`StageMatchesLease`), that a state over its budget when a slow
lease began stays over it (`SlowStaysOver`), that a waiter's delay ends no
earlier than the cooldown (`WaitCoversCooldown`), and that the completion the delay was
computed from stays the latest (`DelayStaysRight`): beside a slow lease no other can be
open in its day unless under a larger budget, so nobody completes while it waits. Cardinalities come from
`FiniteSetTheorems`. The action property follows from the same invariant.

**`StatusProofsProofs`.** The cache entry outweighs everything accepted for its
subject (`AcceptedOutweighed`), and bundles in progress outlive their admission
(`BundleOutlives`), the arithmetic of `deadline - now >= minimum` being stated for
every clock. `NoRollback` and `BadNewsStopsAdmission` are action properties; the second
needs that the cached proof is one of those accepted (`CachedAccepted`), so that a good
one which outweighs all others outweighs every bad answer that ever came.

**`TraceCoreProofs`.** Every hook either appends at most one frame to a live core or
fails it, and leaves the boot alone; this contract (`Keeps`) is proved once
per hook, and the conjuncts of `IInv` once for the contract. They say that a task with a
call in flight is still tracked (`BusyIsLive`), that pid 1 is the first task
(`RootFirst`), that from the TERMINAL frame on no other task lives and no call is
in flight (`SealIsQuiet`), that what SEAL saved and what IMA measured is the
stream (`SealIsExact`), and that boot step, stage, denial and measured records
agree (`DenialMatchesStage`, `BootMatchesRecords`). The
case that needs it: between unlock and relock of SEAL any hook may run; with
`runtime_sealing` set each one fails the core and appends nothing, and the recheck
refuses the seal. `SealIsQuiet` excludes the one call that could mark a failure
after the recheck.

`AppraisalIsSound` is about the other half of `Trace`: the counters by which the reducer
closes a phase are justified by frames that are long past. The invariant `Good` relates
them. `LogInv` says that an operation is on the plan's path exactly when the attempt on
it is in the log. `PhaseInv` has one part per kind of control and the same shape in each:
with `hits = 0` the frames show no completion, with `hits = 1` exactly one, and beyond
that the phase cannot be closed any more. In a refusal phase (`RefusalInv`) an attempt
waits for its return, or the phase is `Stuck`: two operations are open, or an exec has
made a second pass, and no single return empties the table. In the cold start
(`ColdInv`) the tasks that started are those in the frames, each once, and after one
clean exit all others live still, which the marker refuses. In the model and jit phases
(`OpenedInv`, `JitInv`) the remembered object was looked up at the plan's path, the rows
of an open mapping are in its operation, and the stage 0 to 3 stands for the open, the
mapping and the change of protection in this order. `OpStep` is the contract of a
handler: it opens one operation, changes one or closes one. It is proved for each handler
of `Runtime`, and the parts of `PhaseInv` are proved from it. `Good` was first checked by
TLC within the bounds of the run (130,482 states).

`SealedIsComplete` relates the stream, which only grows, to the tables, which are
changed in place. `Told` says, while the core is green: an operation that is closed in
the table has a closing frame as its last one, in the phase of its others; one that is
open has shown frames of the current phase only; a task the stream created is alive or
its exit is in the stream; the commit counter counts the commit frames. Its contract
(`Tells`) asks of a step that an operation closes only with the last frame it adds, that
a closed one shows no further frame, and that the phase changes only when every operation
is closed. SEAL requires the operations closed and no task but pid 1 alive, which with
`Told` is the property. `NoneEarly` (no operation before the interval) is needed where
the boot opens the interval, a change of phase that looks at no operation.

**`SupervisionProofs`.** *Collector.* `CollectorIsHonest` does not say why no process of
an earlier call is left when the next one spawns. The invariant does: a call past the
queue holds the lock (`LockHeld`), what a running call published stands until it leaves
(`RunningIsPublished`), a live group belongs to the call that is running or cleaning it
up unless the collector has become unavailable (`LiveIsOwned`), and nobody gets past that
flag. The count in `SingleOpener` follows from `OneIsLive` and `FiniteSetTheorems`.

*Diagnostic run* (`RunInv`). The host's verdict depends on every unit sent since the
start, but only the record under way can be in pieces: its units before `off` are with
the host or in the driver's queue, in order and without a gap (`StreamInv`), and it is the
next record of the run, of a kind that may come next (`RecordInv`). All earlier records
are counters, so the host's sequence number, its parts and its state are those of the
writer, one ahead while the record under way has arrived and its drain has not returned
(`HostSays`). `WriterSays` and `PlaceSays` relate the writer and each place of the
controller; a place after a torn write is one with a poisoned writer, which writes no
more. That `MAX_FRAMES` never refuses the withdrawal or the failure is the lemma `Room`,
the only use of `MaxSuccess + 2 <= MaxFrames` apart from the host's own limit.

*Child* (`ChildInv`). Why is nobody left when a census of PID 1's children is empty? The
parent of a process that is there is PID 1 or alive, since an end reparents its
children (`Parents`), and every set of processes has one whose parent is outside of it
(`Forest`): a live process has a live ancestor that is PID 1's. Without PID 1's children
there is hence nobody (`NobodyThere`). `BlameInv` says that PID 1 reaps a descendant, and
sends a signal, only after one was seen or a verdict was given, so that a child taken for
successful had left nobody to it.

*Reports* (`ReportsInv`). A snapshot is stamped before the collector is read, so what it
tells is no older than its stamp says; the file, what the service has read of it and what was posted are
each no older than the next, in time and in boots. A writer that was about to replace
the file is forgotten by a restart.

**`GatewayProofs`.** The gateway shares its variables with the ledger, so the ledger's
invariant is carried along by instantiating `AllowanceProofs`. `ChannelOK` adds, for
each point of `handle` and `_http_relay`, under which lease, credential and timer a
channel is and how late it can be: the lease is the credential's journal's and its wait
is over once the upstream is connected (`LeaseOK`); the credential is the request's own
and was accepted on this channel (`BearerOK`); an admitted channel is under the hard
timer until it is shut, which is what a late admission timer finds (`TimerOK`); and each
blocking call starts in time and is bounded by its own timeout (`TurnoverOK`): after the
shut a channel makes at most the connect, the `sendall` of the head and those of the
pieces that had arrived, which is the bound `Turnover + Calls(2 + Backlog)`. A step of
one channel keeps `ChannelOK` for it, leaves the others still and is a step of the ledger
(`StepOf`); the clock and the rollover are separate lemmas. `GatewayImplementsAllowance`
is then the refinement, and `LedgerInTheGateway` what it is worth: the theorems about
the ledger hold in the composition.

**`CandidateProofs`.** `PermitsConserved` is inductive for the ledger alone; every
operation is a lemma. `GrantsUnderALease` needs it: a session with a request must not
finish another collector generation, which holds because the permit's generation
would be beyond `EXPORTER`. `NobodyOverstays` needs that the wake-up time lies before
every deadline (`WakesInTime`), which no handler can break because none runs while PID1
waits. `StoppedLeavesNothing` needs that a failed controller's ledger is revoked and
that nothing is left in progress (`Over`), and that every handler needs a ledger that is
not revoked. `ServingAfterTheSeal` is the end of a chain of phases: `Progress` says,
for each activity of PID1, which phases it can be in, who is registered and that
nothing ran before the interval, so the results of both cold runs, which `start` asks
for, imply the seal, which it does not.

**`BootChainProofs`.** `ReducersImplementPermit` is the refinement `Spec => PermitSpec`,
for any number of engines of any versions; `OneExtension` is `MeasuredOnce`. First
the chains, which are literal sequences: each has one extension, then one closing, then
states before it serves (`ChainsOrdered`), so a step along one passes these points one
at a time (`SuccessorFacts`). Then every action is one of four kinds (`StepOf`): nothing
the process shares, the request, the outcome, the closing. The invariant `IInv` says
that nothing was issued while the latch is free, that two engines never both were, that
an engine whose extension is pending is the first (`Awaiting`), and that an engine
beyond the extension was issued it and beyond the closing finds the latch closed. With
it a step that changes neither owner nor phase is `Serve` or `Stop` of the permit
whatever the reducer did, and the other three are the permit's other actions.
`ServingIsMeasured` adds `ReadBackIsOwn`: beyond the readback, which v1 and v2 do before
they serve, PCR 15 holds the reducer's own extension and nothing else, and as the latch
admits one extension nothing follows it. v3 has no such readback (finding 3).

**`BootProofs`.** A behaviour of `Boot` is one of a single part, so its invariants are, for
each part, an invariant of that part's steps (`StepsOfParts`).

*Registry* (`BindingsHold`). The addresses of live bindings are apart (`Apart`), so a step at
the address of one leaves the entries of the others alone (`NearbyStep`), and the argument
is about one live binding and the three entries at its address. Rejected, it has a
tombstone or no high-water record (`FinalOf`); claimed, its high-water record says so
(`SpentOf`), and the second critical section of a claim compares with that record, not
with the one in the table that may be a replay; untouched, its record is the high-water
record (`UntouchedOf`). None of the three goes while the binding lives, because a callback
takes away entries of the dead only and a registration needs an address without a live
binding.

*Serving authority* (`AuthorityIsSound`). The property speaks of wrappers; what makes it
true is what each thread has still to do. `StandsAt` gives the stacks of return labels a
thread can have at a label: there are few shapes, because a verification that fails
calls a refusal, which calls a cleanup, and none of them calls the first again.
`ThreadInv` says what a thread at such a place holds. `WrapperInv` says that a wrapper
being cleaned has exactly the owner that stands in its cleanup, whose revocation has run
once or is the next step, and that a complete wrapper that is not being cleaned is
published for a live binding or is some thread's `Duty`: that thread is about to publish
it, or on its way to clean it. Every action is then one of three kinds: it touches no
wrapper (`QuietStep`), it touches one and the duties for the others stand
(`OneWrapperStep`), or only the thread moves (`ThreadStep`). The case that needs the
duties: a binding is rejected between the claim and the publication of an admission,
whose thread is at that moment the only one that will ever clean its wrapper.

*Hand-over* (`MeasurementIsSound`). `ResumeInv` gives, for each place of PID 1, what PCR 16,
PCR 15 and the sealed frame hold. After a lost exchange PCR 16 may hold one value more;
from each such place the only ways on are a failure and a restart, so it is not
extended again. *Broker* (the same theorem): in one boot the TPM's update counter tells
its states apart (`NotAfter`), so parts read under one counter are of one state, and that
state lies between the request and its deadline (`Together`). For the quotes, what the
verifier compares (boot and clock) bounds every state between the first and the last.

*Evidence and release* (`AttestationIsSound`). `WorkerInv` gives what each stage of the
worker has fixed; the cache is only an offer, since the certificate taken from it is
compared with the report. `StageInv` does the same for an undisturbed appraisal, and
`AppraisedIsOne` concludes that report, certificate, attestation key and quote, which
were read at different times from files of possibly different guests, are one guest's:
the chip's certificate ties the report, the report the attestation key, that key the
quote, and the quote nonce and TLS key.

*Channel* (`ChannelIsInOrder`). A frame begins and finishes at a point (sequence number,
position in its train, messages complete there); what is in flight goes without a gap
from where the reader stands to where the writer stands, a repeated frame beside the one
it repeats (`InFlight`, `Meets`). A reader takes only what begins where it stands, so it
takes what the writer was given to say. Who acknowledges the last chunk has read it
(`AcksTrue`), so who lets go of a train has it arrived (`LetGo`).

**Theorems that no run lists**: the type invariants of `Allowance`, `Gateway` and
`TraceCore`, `FailureIsSticky` (a failed core stays failed, with its first reason),
and `LedgerInTheGateway`.

**Only model-checked**: liveness (`CallsComeBack`, `EveryConnectionCloses`,
`FailureEndsServing`), which with `ENABLED` is outside what the installed provers do, as
is induction over recursive data (the usage walker against its grammar); the
parts around the ledger (`UsageIsTrue`) and the host-side parts of
`evidence` (`BundleIsOneExecution`, `ProvenanceIsWhole`, `BuildsAreWhole`), for which no
inductive invariant has been written down; and the four findings, which are
counterexamples.

## 6. Not modelled

Cryptography, ASN.1, certificates and hashes are reduced to the decision they
take. Header grammar, byte copying, byte layouts (newc, GPT, PE, ELF, JSON, frame
encodings), the parsers of single documents and logging are left out: they keep no
state between calls, and what they decide is a choice in the models. The contents of
boot observations (`conf_proc_spp_boot_v3_semantics.py`, `..._tables.py`, `..._wire.py`)
are good or bad. Three components have no module: the C decoder of the trace stream
(a function of one buffer), the diagnostic runtime handoff (a straight-line program
whose commands `TraceCore` takes in any order) and the appliance image recipe (external tools).
Of those marked *partly*, `PROJECT.json` says what is missing.

## 7. Plan

1. Proofs: `FleetUsage` and `AsrShim`, for which `MCAllowance` would become a sum like
   `Boot`, and the parts of `evidence`.
2. An abstract specification of the serving ledger (one holder per permit), and of a
   publication (absent, then one whole value for ever) that `PayloadBuild`,
   `RuntimeStage` and `GuestBuild` implement.
3. `TraceCore` composed with `Appraiser`: a sealed green stream is accepted.
4. The census and device monitors of v3, as far as they keep state between two
   observations.
