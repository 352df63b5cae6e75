--------------------------- MODULE EvidenceBundle ---------------------------
(* The host half of a diagnostic: the mapper that turns one captured UART    *)
(* stream, the operator's input closure, the signed image and pinned AMD     *)
(* certificates into an appraised bundle (conf_proc_spp_diag_mapper.py), and *)
(* what it calls: the bundle inspector (conf_proc_spp_diagbundle*.py), the   *)
(* IMA replay, the checkpoint binding and the attestation appraisal.         *)
(*                                                                           *)
(* An operator keeps the evidence of many executions.  The model lets every  *)
(* member of the bundle come from any of them, and lets the files be edited  *)
(* while the mapper works, and asks what a published bundle then proves.  A  *)
(* digest or an address stands for the contents it is taken of, a signature  *)
(* for the pair of key and message.  A member is picked by the step that     *)
(* first compares it with something; before that nobody looks at it.         *)
EXTENDS Naturals, Sequences

CONSTANTS Execs,       \* executions whose evidence is at hand
          About,       \* what each of them was: a record per execution
          Expected,    \* what the caller expects of the one it appraises
          PlanOf,      \* input closure -> the control plan its inventory names
          ClosureOf,   \* signed image -> the closure its descriptor names
          Amds,        \* sets of AMD certificates that may be pinned
          MaxEdits,    \* bound on edits of the source files
          None

Files == {"manifest", "plan", "image"}

\* _INNER_PAYLOAD_NAMES, in the order of the receipt's inventory.
Rows == << "tpmt", "fwDigest", "gpuDigest", "imaDigest",
           "output", "trace", "terminal" >>

\* The raw logs whose digests the receipt carries, in the order they are compared.
Raws == << "fw", "ima", "gpu" >>

DigestOf == [fw |-> "fwDigest", ima |-> "imaDigest", gpu |-> "gpuDigest"]

Slots == {"header", "receipt", "ak", "hcla", "msg", "sig", "pcrs"}
           \cup {Rows[i] : i \in DOMAIN Rows} \cup {Raws[i] : i \in DOMAIN Raws}

VARIABLES pc,      \* the mapper's next step, or how it ended
          disk,    \* the source files: contents and number of edits
          snap,    \* the snapshots the mapper took of them
          mix,     \* the members, each the contents some execution produced
          amd,     \* the pinned AMD certificates
          staged,  \* the files as copied into the staging file
          dest     \* what is at the destination: None, "ours" or "other"

vars == <<pc, disk, snap, mix, amd, staged, dest>>

----------------------------------------------------------------------------
(* What an execution leaves behind.                                          *)

\* image_binding_address: the signed image's files and its input closure.
Binding(image) == <<image, ClosureOf[image]>>

\* The bytes of member s as execution e produced them.
Content(s, e) ==
  LET a == About[e]
  IN  CASE s \in {"tpmt", "ak"}  -> a.ak
        [] s = "output"          -> <<a.plan, a.challenge, a.run, a.right>>
        [] s \in {"terminal", "header"} -> <<a.challenge, a.run>>
        [] s = "hcla" -> [chip |-> a.chip, tcb |-> a.tcb, firm |-> a.firm,
                          data |-> a.ak, ak |-> a.ak]
        [] OTHER      -> e     \* logs and traces: no two executions agree

\* The inner receipt: identities, and the digest of every payload.
Receipt(e) ==
  LET a == About[e]
  IN  [challenge |-> a.challenge, run |-> a.run, profile |-> a.profile,
       plan |-> a.plan, image |-> Binding(a.image),
       rows |-> [i \in DOMAIN Rows |-> Content(Rows[i], e)]]

\* quote_qualifying_data: what the quote is taken over besides the PCRs.
QualifyingData(challenge, plan, receipt, run, image, profile) ==
  [challenge |-> challenge, plan |-> plan, receipt |-> receipt, run |-> run,
   image |-> image, profile |-> profile]

\* The TPM's quote: the key's name, the qualifying data and the digest of
\* the PCRs (the baseline: firmware and image; PCR 10: the IMA log).
Pcrs(e) == [baseline |-> <<About[e].firm, About[e].image>>, pcr10 |-> e]

Quote(e) ==
  LET a == About[e]
  IN  [ak |-> a.ak, pcrs |-> Pcrs(e),
       extra |-> QualifyingData(a.challenge, a.plan, Receipt(e), a.run,
                                Binding(a.image), a.profile)]

Signature(e) == <<About[e].ak, Quote(e)>>

----------------------------------------------------------------------------
(* The checks.                                                               *)

\* Mutant: one of the raw logs is not compared with its digest.
RawDigest_GpuForgotten(raw, e) ==
  raw = "gpu" \/ Content(raw, e) = mix[DigestOf[raw]]

\* _require_raw_digest: the log itself against the digest in the receipt.
RawDigest(raw, e) ==
  Content(raw, e) = mix[DigestOf[raw]]

\* One row of the receipt: the payload has the digest the receipt declares.
RowDeclared(i, payload) == payload = Receipt(mix["receipt"]).rows[i]

\* The receipt's identities against the caller's and the addresses computed.
ReceiptSeams(r, plan, binding) ==
  /\ r.challenge = Expected.challenge /\ r.run = Expected.run
  /\ r.profile = Expected.profile
  /\ r.plan = plan /\ r.image = binding

\* _expected_output_from_oracle: the oracle is for this plan, challenge, run.
ExpectedOutput(plan) == <<plan, Expected.challenge, Expected.run, TRUE>>

\* What the mapper expects the TPM to have quoted.
ExpectedExtra ==
  QualifyingData(Expected.challenge, snap["plan"].is, Receipt(mix["receipt"]),
                 Expected.run, Binding(snap["image"].is), Expected.profile)

\* _require_terminal_frame, on the staged bundle.
TerminalFrame == mix["terminal"] = <<Expected.challenge, Expected.run>>

\* inspect_diagnostic_members: every seam again, on the bytes staged.
Inspected ==
  LET r == Receipt(mix["receipt"])
  IN  /\ PlanOf[staged["manifest"]] = staged["plan"]
      /\ staged["manifest"] = Expected.inputs
      /\ ClosureOf[staged["image"]] = staged["manifest"]
      /\ staged["plan"] = Expected.plan
      /\ ReceiptSeams(r, staged["plan"], Binding(staged["image"]))
      /\ \A i \in DOMAIN Rows : RowDeclared(i, mix[Rows[i]])
      /\ TerminalFrame

\* replay_spp_diag_ima_pcr10: the log has the three checkpoints, in order ...
HasCheckpoints(log) == About[log].checkpoints

\* ... and extends to the PCR 10 that was quoted.
ReplayIma(e) == HasCheckpoints(mix["ima"]) /\ mix["ima"] = Pcrs(e).pcr10

\* _header_reason: the stream's header names what is expected.
HeaderFits(t) ==
  /\ About[t].challenge = Expected.challenge /\ About[t].run = Expected.run
  /\ About[t].plan = Expected.plan

\* _record_reason: a record in the log speaks of this stream.
RecordsFit(t) == mix["ima"] = t

\* bind_spp_diag_trace_checkpoints: the log's records fit prefixes of the stream.
BindCheckpoints == HeaderFits(mix["trace"]) /\ RecordsFit(mix["trace"])

\* _stage_x509: well-formed certificates, valid at the time of the appraisal.
StageX509(c) == c.current

\* _stage_root: the pinned root and intermediate, each signing the next.
StageRoot(c) ==
  c.ark = Expected.ark /\ c.ask = Expected.ask /\ c.askBy = c.ark /\ c.vcekBy = c.ask

\* _stage_crl: the pinned list, signed by the root and current, does not
\* revoke the intermediate.
StageCrl(c) ==
  c.crl = Expected.crl /\ c.crl.by = c.ark /\ c.crl.current /\ c.ask \notin c.crl.revoked

\* _stage_hcla: the report data is the digest of the key claims beside it.
StageHcla(h) == h.data = h.ak

\* _stage_snp: the report verifies under the key the certificate is for: one
\* per chip and firmware level.
StageSnp(h, c) == c.key = <<h.chip, h.tcb>>

\* _stage_vcek: the certificate's extensions name this chip and this level.
StageVcek(h, c) == c.chip = h.chip /\ c.tcb = h.tcb

\* _stage_ak: public key, TPM public area and the report's key are one.
StageAk(e) ==
  /\ mix["tpmt"] = Content("ak", e)
  /\ mix["hcla"].ak = Content("ak", e)

\* _stage_quote: by that key, over the expected data, and signed.
StageQuote(m, s) ==
  /\ Quote(m).ak = mix["ak"]
  /\ Quote(m).extra = ExpectedExtra
  /\ Signature(s) = <<mix["ak"], Quote(m)>>

\* _stage_pcr: the values are the ones quoted, and the ones expected.
StagePcr ==
  /\ Pcrs(mix["pcrs"]) = Quote(mix["msg"]).pcrs
  /\ Pcrs(mix["pcrs"]).baseline = Expected.baseline
  /\ Pcrs(mix["pcrs"]).pcr10 = mix["ima"]

\* _stage_policy: the launch measurement and a firmware level not below the floor.
StagePolicy(h) == h.firm = Expected.firm /\ h.tcb >= Expected.floor

----------------------------------------------------------------------------
(* The mapper, step by step.                                                 *)

NoFiles == [f \in Files |-> None]

Init ==
  /\ pc = "parse"
  /\ disk \in {[manifest |-> [is |-> i, edits |-> 0], plan |-> [is |-> p, edits |-> 0],
                image |-> [is |-> m, edits |-> 0]] :
                  i \in DOMAIN PlanOf, p \in {PlanOf[x] : x \in DOMAIN PlanOf},
                  m \in DOMAIN ClosureOf}
  /\ snap = NoFiles
  /\ mix = [s \in Slots |-> None]
  /\ amd = None
  /\ staged = NoFiles
  /\ dest = None

\* The finally clause unlinks what was staged so far; an error of the unlink
\* itself is swallowed, and the staging file left.
GiveUp(sofar) ==
  \/ pc' = "failed" /\ staged' = NoFiles
  \/ sofar # NoFiles /\ pc' = "left" /\ staged' = sofar

Ended == pc \in {"published", "failed", "left"}

\* A check: on to the next step, or fail.
Check(ok, next) ==
  IF ok THEN pc' = next /\ UNCHANGED staged ELSE GiveUp(staged)

Pick(s, e) == mix' = [mix EXCEPT ![s] = Content(s, e)]

\* parse_export_stream: the capture is of the expected challenge and run.
Parse(e) ==
  /\ pc = "parse"
  /\ Pick("header", e)
  /\ Check(Content("header", e) = <<Expected.challenge, Expected.run>>, "manifest")
  /\ UNCHANGED <<disk, snap, amd, dest>>

\* _open_snapshot: hash the open file; the descriptor stays open.
Open(f, ok, next) ==
  /\ snap' = [snap EXCEPT ![f] = disk[f]]
  /\ Check(ok, next)
  /\ UNCHANGED <<disk, mix, amd, dest>>

OpenManifest ==
  pc = "manifest" /\ Open("manifest", disk["manifest"].is = Expected.inputs, "closure")

\* The inventory's files have the digests the manifest declares.
OpenClosure ==
  pc = "closure" /\ Open("plan", disk["plan"].is = PlanOf[snap["manifest"].is], "plan")

\* read_all reads the file again and holds it to the snapshot's digest.
ReadPlan ==
  /\ pc = "plan"
  /\ Check(disk["plan"].is = snap["plan"].is /\ snap["plan"].is = Expected.plan, "image")
  /\ UNCHANGED <<disk, snap, mix, amd, dest>>

OpenImage == pc = "image" /\ Open("image", TRUE, "descriptor")

\* extract_sppdiag_descriptor reads ranges of the open file as it is now.
ReadDescriptor ==
  /\ pc = "descriptor"
  /\ Check(ClosureOf[disk["image"].is] = snap["manifest"].is, "receipt")
  /\ UNCHANGED <<disk, snap, mix, amd, dest>>

PickReceipt(e) ==
  /\ pc = "receipt"
  /\ Pick("receipt", e)
  /\ pc' = "rows"
  /\ UNCHANGED <<disk, snap, amd, staged, dest>>

NextUnpicked(names) ==
  CHOOSE i \in DOMAIN names : /\ mix[names[i]] = None
                              /\ \A j \in 1..(i - 1) : mix[names[j]] # None

\* One row of the inventory; after the last the receipt's identities.
Row(e) ==
  /\ pc = "rows"
  /\ LET i == NextUnpicked(Rows)
     IN  /\ Pick(Rows[i], e)
         /\ IF i < Len(Rows)
            THEN Check(RowDeclared(i, Content(Rows[i], e)), "rows")
            ELSE Check(/\ RowDeclared(i, Content(Rows[i], e))
                       /\ ReceiptSeams(Receipt(mix["receipt"]), snap["plan"].is,
                                       <<snap["image"].is, snap["manifest"].is>>), "raws")
  /\ UNCHANGED <<disk, snap, amd, dest>>

\* The raw logs; after the last the output against its oracle.
Raw(e) ==
  /\ pc = "raws"
  /\ LET i == NextUnpicked(Raws)
     IN  /\ Pick(Raws[i], e)
         /\ IF i < Len(Raws)
            THEN Check(RawDigest(Raws[i], e), "raws")
            ELSE Check(/\ RawDigest(Raws[i], e)
                       /\ mix["output"] = ExpectedOutput(snap["plan"].is),
                       "stage")
  /\ UNCHANGED <<disk, snap, amd, dest>>

\* _destination_parts, _create_staging and _write_bundle: copy_to holds each
\* file to its snapshot's digest and identity.
Stage ==
  /\ pc = "stage"
  /\ LET copied == [f \in Files |-> IF disk[f] = snap[f] THEN disk[f].is ELSE None]
     IN  CASE dest # None  -> GiveUp(NoFiles)
           [] disk # snap  -> GiveUp(copied)
           [] OTHER        -> pc' = "inspect" /\ staged' = copied
  /\ UNCHANGED <<disk, snap, mix, amd, dest>>

Inspect ==
  /\ pc = "inspect"
  /\ Check(Inspected, "replay")
  /\ UNCHANGED <<disk, snap, mix, amd, dest>>

Replay(e) ==
  /\ pc = "replay"
  /\ Pick("pcrs", e)
  /\ Check(ReplayIma(e), "bind")
  /\ UNCHANGED <<disk, snap, amd, dest>>

\* Checkpoints, and the trace against the plan (module Appraiser).
Bind ==
  /\ pc = "bind"
  /\ Check(BindCheckpoints /\ About[mix["trace"]].lawful, "amd")
  /\ UNCHANGED <<disk, snap, mix, amd, dest>>

AppraiseAmd(c) ==
  /\ pc = "amd"
  /\ amd' = c
  /\ Check(StageX509(c) /\ StageRoot(c) /\ StageCrl(c), "report")
  /\ UNCHANGED <<disk, snap, mix, dest>>

\* The report and the key claims beside it may be of two occasions.
AppraiseReport(e, f) ==
  /\ pc = "report"
  /\ LET h == [Content("hcla", e) EXCEPT !.ak = Content("hcla", f).ak]
     IN  /\ mix' = [mix EXCEPT !["hcla"] = h]
         /\ Check(StageHcla(h) /\ StageSnp(h, amd) /\ StageVcek(h, amd), "ak")
  /\ UNCHANGED <<disk, snap, amd, dest>>

AppraiseAk(e) ==
  /\ pc = "ak"
  /\ Pick("ak", e)
  /\ Check(StageAk(e), "quote")
  /\ UNCHANGED <<disk, snap, amd, dest>>

AppraiseQuote(m, s) ==
  /\ pc = "quote"
  /\ mix' = [mix EXCEPT !["msg"] = m, !["sig"] = s]
  /\ Check(StageQuote(m, s), "policy")
  /\ UNCHANGED <<disk, snap, amd, dest>>

AppraisePolicy ==
  /\ pc = "policy"
  /\ Check(StagePcr /\ StagePolicy(mix["hcla"]), "publish")
  /\ UNCHANGED <<disk, snap, mix, amd, dest>>

\* renameat2 with RENAME_NOREPLACE: the staging name is gone, and with it
\* the only thing a later failure would remove.
Publish ==
  /\ pc = "publish"
  /\ IF dest = None THEN dest' = "ours" /\ pc' = "fsync" /\ UNCHANGED staged
                    ELSE Check(FALSE, "fsync") /\ UNCHANGED dest
  /\ UNCHANGED <<disk, snap, mix, amd>>

Fsync == /\ pc = "fsync" /\ pc' = "published"
         /\ UNCHANGED <<disk, snap, mix, amd, staged, dest>>

\* Any call to the operating system may fail; after the rename the bundle stays.
OsError ==
  /\ ~Ended
  /\ IF pc = "fsync" THEN pc' = "failed" /\ UNCHANGED staged ELSE GiveUp(staged)
  /\ UNCHANGED <<disk, snap, mix, amd, dest>>

\* Somebody edits a source file in place, to other contents or back again.
Edit(f, v) ==
  /\ ~Ended
  /\ disk["manifest"].edits + disk["plan"].edits + disk["image"].edits < MaxEdits
  /\ disk' = [disk EXCEPT ![f] = [is |-> v, edits |-> @.edits + 1]]
  /\ UNCHANGED <<pc, snap, mix, amd, staged, dest>>

\* Another mapper publishes under the same name.
Rival ==
  /\ ~Ended /\ dest = None /\ dest' = "other"
  /\ UNCHANGED <<pc, disk, snap, mix, amd, staged>>

Next ==
  \/ \E e \in Execs : \/ Parse(e) \/ PickReceipt(e) \/ Row(e) \/ Raw(e) \/ Replay(e)
                      \/ AppraiseAk(e)
  \/ \E e, f \in Execs : AppraiseReport(e, f) \/ AppraiseQuote(e, f)
  \/ \E c \in Amds : AppraiseAmd(c)
  \/ OpenManifest \/ OpenClosure \/ ReadPlan \/ OpenImage \/ ReadDescriptor
  \/ Stage \/ Inspect \/ Bind \/ AppraisePolicy \/ Publish \/ Fsync \/ OsError \/ Rival
  \/ \E v \in DOMAIN PlanOf : Edit("manifest", v)
  \/ \E v \in DOMAIN PlanOf : Edit("plan", PlanOf[v])
  \/ \E v \in DOMAIN ClosureOf : Edit("image", v)

----------------------------------------------------------------------------
(* Whatever evidence was lying around and whoever edited the files, a bundle *)
(* this mapper put in place is of one execution: every member is, byte for   *)
(* byte, what that execution left, it ran the bundled image on the expected  *)
(* firmware with the expected challenge, run, plan and inputs, its output    *)
(* and trace were right, and the chip whose report vouches for the key that  *)
(* signed its quote is certified under the pinned root.  (The report itself  *)
(* is tied to the key, not to the execution: it may be one the same machine  *)
(* gave on another occasion.)  A mapper that failed earlier leaves no staging *)
(* file behind, unless the unlink failed too, and nobody else's bundle is    *)
(* replaced.                                                                 *)
OneExecution ==
  /\ dest = "ours" =>
       LET e == mix["trace"]  a == About[mix["trace"]]
       IN  /\ \A s \in Slots \ {"hcla"} : mix[s] = Content(s, e)
           /\ a.challenge = Expected.challenge /\ a.run = Expected.run
           /\ a.profile = Expected.profile
           /\ a.plan = Expected.plan /\ staged["plan"] = a.plan
           /\ a.image = staged["image"] /\ ClosureOf[a.image] = Expected.inputs
           /\ staged["manifest"] = Expected.inputs
           /\ a.firm = Expected.firm
           /\ a.right /\ a.lawful /\ a.checkpoints
           /\ amd.ark = Expected.ark /\ amd.current /\ amd.ask \notin amd.crl.revoked
           /\ mix["hcla"].data = a.ak /\ mix["hcla"].firm = Expected.firm
           /\ mix["hcla"].tcb >= Expected.floor
           /\ amd.key = <<mix["hcla"].chip, mix["hcla"].tcb>>
  /\ pc = "failed" /\ dest # "ours" => staged = NoFiles
  /\ pc = "left" => dest # "ours"
=============================================================================
