--------------------------- MODULE EvidenceWorker ---------------------------
(***************************************************************************)
(* The guest's evidence worker (ratls_collector.py), one process per       *)
(* request of the gateway's single-opener collector: it answers            *)
(* certificate evidence, an exporter proof or a status inventory.  For the *)
(* first it needs the AMD certificate that signed the report it reads: it  *)
(* tries a cached one, then asks AMD's key service once.  A firmware       *)
(* update makes the cache stale; the cache is written in place, so that a  *)
(* killed worker leaves it torn; the GPU may leave confidential mode.      *)
(***************************************************************************)
EXTENDS Naturals, FiniteSets

CONSTANTS Asks,       \* requests: [op, domain, nonce, spki]
          MaxTcb,     \* bound: firmware level
          MaxEvents,  \* bound: outages, mode changes, kills
          None, Torn

VARIABLES tcb,        \* firmware level of the chip
          cache,      \* cached certificate: None, Torn or the level it is for
          kds,        \* the key service answers
          cc,         \* GPU in CC ON / PRODUCTION
          work,       \* the running worker
          events

wvars == <<tcb, cache, kds, cc, work, events>>

NoWork == [pc |-> "idle", ask |-> None, gpu |-> None, qualify |-> None, level |-> 0,
           vcek |-> None, quote |-> None, fetched |-> 0, sawCC |-> FALSE]

Init == tcb = 1 /\ cache = None /\ kds = TRUE /\ cc = TRUE /\ work = NoWork /\ events = 0

Goto(pc) == work' = [work EXCEPT !.pc = pc]
Still == UNCHANGED <<tcb, cache, kds, cc, events>>

\* One JSON request on stdin; each operation checks its own binding domain.
Accepts(a) == /\ a.op \in {"certificate", "exporter", "inventory"}
              /\ a.op = "certificate" => a.domain = "certificate" /\ a.nonce # None
              /\ a.op = "exporter" => a.domain = "exporter"

Serve(a) ==
    /\ work.pc = "idle"
    /\ work' = [NoWork EXCEPT !.ask = a,
                  !.pc = IF ~Accepts(a) THEN "failed"
                         ELSE IF a.op = "exporter" THEN "quote" ELSE "mode",
                  !.qualify = IF a.op = "exporter" THEN <<a.spki>> ELSE None]
    /\ Still

RequireProduction ==
    /\ work.pc = "mode"
    /\ work' = [work EXCEPT !.pc = IF cc THEN "gpu" ELSE "failed", !.sawCC = cc]
    /\ Still

\* The GPU's report carries the owner's nonce; an inventory makes up its own.
GpuTlv ==
    /\ work.pc = "gpu"
    /\ IF work.ask.op = "inventory" THEN Goto("done")
       ELSE work' = [work EXCEPT !.pc = "report", !.gpu = [nonce |-> work.ask.nonce]]
    /\ Still

\* Mutant: the GPU evidence is left out of the qualifying data.
QualifyingData_NoGpu(a, gpu) == <<a.nonce, a.spki>>

QualifyingData(a, gpu) == <<a.nonce, a.spki, gpu>>

\* The HCL report is read from the TPM; it fixes the level of its chain.
ReadReport ==
    /\ work.pc = "report"
    /\ work' = [work EXCEPT !.pc = "cache", !.level = tcb,
                            !.qualify = QualifyingData(work.ask, work.gpu)]
    /\ Still

\* Mutant: a certificate that parses is taken for the right one.
Verifies_Parses(level, pem) == pem \notin {None, Torn}

\* A torn file does not parse; a stale one did not sign this report.
Verifies(level, pem) == pem = level

TryCache ==
    /\ work.pc = "cache"
    /\ work' = IF Verifies(work.level, cache)
               THEN [work EXCEPT !.pc = "quote", !.vcek = cache]
               ELSE [work EXCEPT !.pc = "fetch"]
    /\ Still

FetchVcek ==
    /\ work.pc = "fetch"
    /\ work' = [work EXCEPT !.fetched = @ + 1,
                            !.vcek = IF kds THEN work.level ELSE None,
                            !.pc = IF kds THEN "store" ELSE "failed"]
    /\ Still

\* Truncated, then written: two steps for a worker that is killed between.
StoreVcek ==
    /\ work.pc \in {"store", "stored"}
    /\ cache' = IF work.pc = "store" THEN Torn ELSE work.vcek
    /\ Goto(IF work.pc = "store" THEN "stored" ELSE "quote")
    /\ UNCHANGED <<tcb, kds, cc, events>>

\* tpm2_quote over the qualifying data, checked with the AK just read.
Quote ==
    /\ work.pc = "quote"
    /\ work' = [work EXCEPT !.pc = "done", !.quote = work.qualify]
    /\ Still

Exit ==
    /\ work.pc \in {"done", "failed"}
    /\ work' = NoWork
    /\ Still

Kill ==
    /\ work.pc \notin {"idle", "done", "failed"}
    /\ events < MaxEvents /\ events' = events + 1
    /\ Goto("failed")
    /\ UNCHANGED <<tcb, cache, kds, cc>>

UpdateFirmware ==
    /\ tcb < MaxTcb
    /\ tcb' = tcb + 1
    /\ UNCHANGED <<cache, kds, cc, work, events>>

Outage == /\ events < MaxEvents /\ events' = events + 1
          /\ kds' = ~kds
          /\ UNCHANGED <<tcb, cache, cc, work>>

ChangeMode == /\ events < MaxEvents /\ events' = events + 1
              /\ cc' = ~cc
              /\ UNCHANGED <<tcb, cache, kds, work>>

Next == \/ \E a \in Asks : Serve(a)
        \/ RequireProduction \/ GpuTlv \/ ReadReport
        \/ TryCache \/ FetchVcek \/ StoreVcek \/ Quote \/ Exit
        \/ Kill \/ UpdateFirmware \/ Outage \/ ChangeMode

(* Evidence leaves the worker only with the certificate that signed the very
   report it carries, whatever is in the cache; with a quote that binds the
   owner's nonce, the TLS key and the GPU report of the same request; for a
   GPU seen in production mode; and after at most one request to AMD. *)
EvidenceIsWhole ==
    /\ work.fetched <= 1
    /\ work.pc = "done" /\ work.ask.op = "certificate" =>
           /\ work.vcek = work.level
           /\ work.quote = <<work.ask.nonce, work.ask.spki, [nonce |-> work.ask.nonce]>>
           /\ work.sawCC
    /\ work.pc = "done" /\ work.ask.op = "exporter" => work.quote = <<work.ask.spki>>

=============================================================================
