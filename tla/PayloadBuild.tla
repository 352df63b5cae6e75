---------------------------- MODULE PayloadBuild ----------------------------
(***************************************************************************)
(* Building, publishing and inspecting the boot payload (version 1:        *)
(* conf_proc_spp_boot_payload.py and ..._inspect.py; version 3:            *)
(* conf_proc_spp_boot_payload_v3.py and ..._v3_inspect.py).                *)
(*                                                                         *)
(* A builder validates what it was asked for, reads the source files one   *)
(* by one against a literal table of digests, composes an archive and a    *)
(* package document, stages both leaves in a directory with a random name, *)
(* rechecks every source and renames the directory to its content address  *)
(* without replacing.  Several builders share one output root with each    *)
(* other, with whoever edits the sources and with whoever puts a directory *)
(* at an address by hand.  Each step may fail, which removes the builder's *)
(* own stage, and a builder may be killed, which leaves it.                *)
(*                                                                         *)
(* A digest is the value it is taken of, and a content address the triple  *)
(* of contract, archive and package.  The byte formats (newc, canonical    *)
(* JSON) are left out: a leaf is absent, torn or the value written.        *)
(***************************************************************************)
EXTENDS Naturals, Sequences, FiniteSets, TLC

CONSTANTS Builders,
          Requests,    \* what compile_boot_payload may be called with
          Rows,        \* version -> its sequence of source files
          Imports,     \* source file -> the local files its text imports
          Expected,    \* source file -> the imports the literal table lists
          Aliased,     \* source files with an `import x as y`
          Roots,       \* version -> the files its closure starts from
          Stale,       \* source files that are not as the table says to begin with
          MaxEdits,    \* bound: edits of sources, squats, kills
          None, Torn

VARIABLES source,      \* file -> [good, ident]: is it the table's text, and which inode and times
          entries,     \* address -> directory published there
          stage,       \* builder -> its staging directory or None
          proc,        \* builder -> control state and locals
          edits,
          met          \* history: builder -> its sources were all good at one instant of its run

pvars == <<source, entries, stage, proc, edits, met>>

Files == UNION {{Rows[v][i] : i \in 1 .. Len(Rows[v])} : v \in DOMAIN Rows}

\* ids[i]: the identity under which source i was frozen; k: the loop's index.
Fresh == [pc |-> "start", req |-> None, ids |-> <<>>, k |-> 1, pinned |-> FALSE]

Init ==
    /\ source = [f \in Files |-> [good |-> f \notin Stale, ident |-> 0]]
    /\ entries = <<>>
    /\ stage = [b \in Builders |-> None]
    /\ proc = [b \in Builders |-> Fresh]
    /\ edits = 0
    /\ met = [b \in Builders |-> FALSE]

At(b, pc) == proc[b].pc = pc
Goto(b, pc) == proc' = [proc EXCEPT ![b].pc = pc, ![b].k = 1]
RowsOf(r) == Rows[r.version]
AllGood(v) == \A i \in 1 .. Len(Rows[v]) : source[Rows[v][i]].good

------------------------------ (* composing *) ------------------------------

\* The inspection and the binding were issued by their registries, the
\* inspection found the artifacts consistent and they are about one manifest.
IssuedInputs(r) ==
    /\ r.insp.issued /\ r.bind.issued
    /\ r.insp.state = "artifact_consistent"
    /\ r.insp.manifest = r.bind.manifest

\* Version 3 also ties the stage-2 controller to its row of the table.
ControllerBound(r) == r.version = "v3" => r.bind.controller

\* The plan names the binding's contract and modules and gives each row its
\* own source path.
PlanFits(r) == /\ r.plan.contract = r.bind.contract
               /\ r.plan.modules = r.bind.modules
               /\ r.plan.distinct

\* The literal tables are in strict order; version 1 has one engine.
Ordered(v) == \A i, j \in 1 .. Len(Rows[v]) : i < j => Rows[v][i] # Rows[v][j]
AuthorityV1 == Ordered("v1") /\ Cardinality(Roots["v1"]) = 1
AuthorityV3 == Ordered("v3") /\ Roots["v3"] # {}
LiteralAuthority(v) == IF v = "v1" THEN AuthorityV1 ELSE AuthorityV3

\* Least set of files that holds the roots and the imports of its members.
Reached(v, imports) ==
    LET n == Len(Rows[v])
        R[i \in 0 .. n] == IF i = 0 THEN Roots[v]
                           ELSE R[i - 1] \cup UNION {imports[f] : f \in R[i - 1]}
    IN R[n]
Local(v) == {Rows[v][i] : i \in 1 .. Len(Rows[v])}

ClosureV1 == /\ \A f \in Local("v1") : f \notin Aliased /\ Imports[f] = Expected[f]
             /\ Reached("v1", Expected) = Local("v1")
ClosureV3 == /\ \A f \in Local("v3") : Imports[f] = Expected[f]
             /\ Reached("v3", Expected) = Local("v3")
ImportClosure(v) == IF v = "v1" THEN ClosureV1 ELSE ClosureV3

\* The archive: the frozen sources and the sealed authority documents.
Archive(r) == [rows |-> RowsOf(r), docs |-> r.bind]

PackageV1(r) == [version |-> "v1", input |-> r.insp.input, contract |-> r.bind.contract,
                 modules |-> r.bind.modules, cpio |-> Archive(r), entries |-> RowsOf(r)]
PackageV3(r) == [PackageV1(r) EXCEPT !.version = "v3"]
PackageBytes(r) == IF r.version = "v1" THEN PackageV1(r) ELSE PackageV3(r)

PayloadAddress(r) == <<r.bind.contract, Archive(r), PackageBytes(r)>>

------------------------------ (* a builder *) ------------------------------

Start(b, r) ==
    /\ At(b, "start")
    /\ proc' = [proc EXCEPT ![b] =
           [Fresh EXCEPT !.req = r,
                         !.pc = IF /\ LiteralAuthority(r.version)
                                   /\ IssuedInputs(r) /\ ControllerBound(r) /\ PlanFits(r)
                                THEN "read" ELSE "failed"]]
    /\ met' = [met EXCEPT ![b] = AllGood(r.version)]
    /\ UNCHANGED <<source, entries, stage, edits>>

\* Open, read and digest one source; its identity is the same before and after.
ReadSource(b) ==
    /\ At(b, "read")
    /\ LET f == RowsOf(proc[b].req)[proc[b].k] IN
       IF ~source[f].good THEN Goto(b, "failed")
       ELSE IF proc[b].k < Len(RowsOf(proc[b].req))
            THEN proc' = [proc EXCEPT ![b].ids = Append(@, source[f].ident), ![b].k = @ + 1]
            ELSE proc' = [proc EXCEPT ![b].ids = Append(@, source[f].ident), ![b].k = 1,
                                      ![b].pc = "compose"]
    /\ UNCHANGED <<source, entries, stage, edits, met>>

Compose(b) ==
    /\ At(b, "compose")
    /\ Goto(b, IF ImportClosure(proc[b].req.version) THEN "recheck" ELSE "failed")
    /\ UNCHANGED <<source, entries, stage, edits, met>>

\* Mutant: the recheck compares what a source says, which may have been
\* put back, and looks at the last one only.
SourceUnchanged_Last(b, i) ==
    i < Len(RowsOf(proc[b].req)) \/ source[RowsOf(proc[b].req)[i]].good

SourceUnchanged(b, i) == source[RowsOf(proc[b].req)[i]].ident = proc[b].ids[i]

\* _revalidate_source over the frozen sources, before staging and again after.
Recheck(b, here, next) ==
    /\ At(b, here)
    /\ IF ~SourceUnchanged(b, proc[b].k) THEN Goto(b, "cleanup")
       ELSE IF proc[b].k < Len(RowsOf(proc[b].req)) THEN proc' = [proc EXCEPT ![b].k = @ + 1]
            ELSE Goto(b, next)
    /\ UNCHANGED <<source, entries, stage, edits, met>>

\* Version 1 remembers the identity of the stage only once it has opened it;
\* a failure before that leaves the directory.
MakeStage(b) ==
    /\ At(b, "stage")
    /\ stage' = [stage EXCEPT ![b] = [cpio |-> None, package |-> None, sealed |-> FALSE]]
    /\ \/ proc' = [proc EXCEPT ![b].pc = "cpio", ![b].pinned = TRUE]
       \/ Goto(b, "cleanup")
    /\ UNCHANGED <<source, entries, edits, met>>

WriteLeaf(b, here, leaf, data, next) ==
    /\ At(b, here)
    /\ \/ stage' = [stage EXCEPT ![b][leaf] = data] /\ Goto(b, next)
       \/ stage' = [stage EXCEPT ![b][leaf] = Torn] /\ Goto(b, "cleanup")
    /\ UNCHANGED <<source, entries, edits, met>>

\* Both leaves read back exactly, then the directory is made read-only.
ExactLeaf(dir, leaf, data) == dir[leaf] = data
Seal(b) ==
    /\ At(b, "seal")
    /\ LET r == proc[b].req
           exact == /\ ExactLeaf(stage[b], "cpio", Archive(r))
                    /\ ExactLeaf(stage[b], "package", PackageBytes(r))
       IN /\ stage' = [stage EXCEPT ![b].sealed = exact]
          /\ Goto(b, IF exact THEN "recheck2" ELSE "cleanup")
    /\ UNCHANGED <<source, entries, edits, met>>

ValidExisting(r) ==
    LET a == PayloadAddress(r) IN
    /\ a \in DOMAIN entries /\ entries[a].sealed
    /\ ExactLeaf(entries[a], "cpio", Archive(r))
    /\ ExactLeaf(entries[a], "package", PackageBytes(r))

\* Mutant: an address that is taken is believed without reading it.
Accepts_Unread(r) == TRUE

\* Whatever took the address first, it must hold exactly these bytes.
Accepts(r) == ValidExisting(r)

\* renameat2(RENAME_NOREPLACE), the two validations that follow it, the return.
Rename(b) ==
    /\ At(b, "rename")
    /\ LET r == proc[b].req
           a == PayloadAddress(r)
       IN \/ /\ a \notin DOMAIN entries
             /\ entries' = entries @@ (a :> stage[b])
             /\ stage' = [stage EXCEPT ![b] = None]
             /\ Goto(b, "built")
          \/ /\ a \in DOMAIN entries
             /\ Goto(b, IF Accepts(r) THEN "reuse" ELSE "cleanup")
             /\ UNCHANGED <<entries, stage>>
    /\ UNCHANGED <<source, edits, met>>

\* _cleanup_stage: version 1 only the directory it pinned, version 3 by name.
CleanupV1(b) == IF proc[b].pinned THEN None ELSE stage[b]
CleanupV3(b) == None
Cleanup(b) ==
    /\ proc[b].pc \in {"cleanup", "reuse"}
    /\ stage' = [stage EXCEPT ![b] = IF proc[b].req.version = "v1" THEN CleanupV1(b)
                                     ELSE CleanupV3(b)]
    /\ Goto(b, IF At(b, "reuse") THEN "built" ELSE "failed")
    /\ UNCHANGED <<source, entries, edits, met>>

Build(b) ==
    \/ \E r \in Requests : Start(b, r)
    \/ ReadSource(b)
    \/ Compose(b)
    \/ Recheck(b, "recheck", "stage")
    \/ MakeStage(b)
    \/ WriteLeaf(b, "cpio", "cpio", Archive(proc[b].req), "package")
    \/ WriteLeaf(b, "package", "package", PackageBytes(proc[b].req), "seal")
    \/ Seal(b)
    \/ Recheck(b, "recheck2", "rename")
    \/ Rename(b)
    \/ Cleanup(b)

---------------------------- (* the surroundings *) -------------------------

\* A source is edited, or put back: a new identity either way.
Edit(f) ==
    /\ edits < MaxEdits
    /\ edits' = edits + 1
    /\ source' = [source EXCEPT ![f] = [good |-> ~@.good, ident |-> @.ident + 1]]
    /\ met' = [b \in Builders |->
                 \/ met[b]
                 \/ proc[b].req # None /\ \A g \in Local(proc[b].req.version) : source'[g].good]
    /\ UNCHANGED <<entries, stage, proc>>

\* Someone copies a payload to its address by hand and is interrupted.
Squat(r) ==
    /\ edits < MaxEdits
    /\ edits' = edits + 1
    /\ PayloadAddress(r) \notin DOMAIN entries
    /\ entries' = entries @@ (PayloadAddress(r) :>
                     [cpio |-> Archive(r), package |-> Torn, sealed |-> FALSE])
    /\ UNCHANGED <<source, stage, proc, met>>

Kill(b) ==
    /\ edits < MaxEdits
    /\ proc[b].pc \notin {"start", "built", "failed"}
    /\ edits' = edits + 1
    /\ Goto(b, "failed")
    /\ UNCHANGED <<source, entries, stage, met>>

Next ==
    \/ \E b \in Builders : Build(b) \/ Kill(b)
    \/ \E f \in Files : Edit(f)
    \/ \E r \in Requests : Squat(r)

------------------------------ (* inspecting *) -----------------------------

\* The inspectors repeat the builders' checks from tables of their own: the
\* members in order, the imports, the package, the address.
RecordsV1(r, dir) == dir.cpio = [rows |-> Rows["v1"], docs |-> r.bind]
ImportsV1 == \A f \in Local("v1") : f \notin Aliased /\ Imports[f] = Expected[f]
DocumentV1(r, dir) == dir.package = [PackageV1(r) EXCEPT !.cpio = dir.cpio]
AddressV1(r, a, dir) == a = <<r.bind.contract, dir.cpio, dir.package>>
InspectV1(r, a, dir) == /\ IssuedInputs(r)
                        /\ RecordsV1(r, dir) /\ ImportsV1
                        /\ DocumentV1(r, dir) /\ AddressV1(r, a, dir)

RecordsV3(r, dir) == dir.cpio = [rows |-> Rows["v3"], docs |-> r.bind]
ImportsV3 == \A f \in Local("v3") : Imports[f] = Expected[f]
DocumentV3(r, dir) == dir.package = [PackageV3(r) EXCEPT !.cpio = dir.cpio]
InspectV3(r, a, dir) == /\ IssuedInputs(r) /\ r.bind.controller
                        /\ RecordsV3(r, dir) /\ ImportsV3
                        /\ DocumentV3(r, dir) /\ AddressV1(r, a, dir)

Inspect(r, a) == IF r.version = "v1" THEN InspectV1(r, a, entries[a])
                 ELSE InspectV3(r, a, entries[a])

(* A call that returned has at its address a whole, sealed payload which the
   independent inspector accepts for that request and for no other, and the
   sources it was made from were all as the table says at one instant of the
   call, however they were edited between its reads. *)
BuiltIsInspectable ==
    \A b \in Builders : At(b, "built") =>
        LET r == proc[b].req
            a == PayloadAddress(r)
        IN /\ a \in DOMAIN entries /\ entries[a].sealed
           /\ \A q \in Requests : Inspect(q, a) <=> (q = r)
           /\ met[b]

=============================================================================
