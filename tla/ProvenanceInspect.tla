------------------------- MODULE ProvenanceInspect --------------------------
(***************************************************************************)
(* Producing and inspecting a provenance-v2 bundle                         *)
(* (conf_proc_provenance_v2_build_manifest.py over                         *)
(* conf_proc_provenance_v2.py; conf_proc_provenance_v2_inspect.py with its *)
(* documents and surface modules, the hermetic guard, and the independent  *)
(* oracle conf_proc_inspect_provenance.py).                                *)
(*                                                                         *)
(* Six authority files say what a build may contain.  The inspector opens  *)
(* and reads them one by one, then the certificate bundle the lock names,  *)
(* then the six files of the candidate bundle, twice: once as leaves of    *)
(* the directory it holds open and once by path through the guard.  It     *)
(* works from the descriptors, and on the way out looks at every file      *)
(* again, in the reverse order.  Meanwhile files are edited in place,      *)
(* replaced, put back by renaming a directory above them, and the          *)
(* assembler exposes another bundle.                                       *)
(*                                                                         *)
(* A digest is what was digested.  A file's stamp stands for the size and  *)
(* times of its stat identity.  The native tools, pinned alike, are taken  *)
(* to do their work.                                                       *)
(***************************************************************************)
EXTENDS Naturals, Sequences, FiniteSets

CONSTANTS Contents,   \* file -> the contents it may be given
          First,      \* file -> its contents at the start
          Images,     \* {"models", "runtime-policy"}: the image ids
          MaxEvents   \* bound: edits, replacements, bundles exposed, renames

VARIABLES names,      \* file outside the bundle -> inode; "bundle" -> directory
          inodes,     \* file -> sequence of [data, stamp]
          dirs,       \* sequence of [leaf, stamp]: the bundle directories
          insp,       \* the inspector
          issued,     \* the results it issued
          events

ivars == <<names, inodes, dirs, insp, issued, events>>

Authorities == <<"root_lock", "runtime_closure", "verity_rules", "tcb_identity",
                 "builder_source", "policy">>
Squashfs(i) == IF i = "models" THEN "models.squashfs" ELSE "runtime-policy.squashfs"
Verity(i) == IF i = "models" THEN "models.verity" ELSE "runtime-policy.verity"
Manifest == "appliance.manifest.json"
Spdx == "appliance.spdx.json"
Trusted == "kernel_trusted_cert_bundle"
Leaves == {Squashfs(i) : i \in Images} \cup {Verity(i) : i \in Images} \cup {Manifest, Spdx}
Authority == {Authorities[k] : k \in 1 .. Len(Authorities)}
Outside == Authority \cup {Trusted}

Idle == [pc |-> "idle", k |-> 1, pin |-> <<>>, reads |-> <<>>, root |-> <<>>, evidence |-> <<>>,
         documents |-> <<>>, result |-> <<>>, held |-> <<>>]

Init ==
    /\ names = [f \in Outside \cup {"bundle"} |-> 1]
    /\ inodes = [f \in Outside \cup Leaves |-> <<[data |-> First[f], stamp |-> 0]>>]
    /\ dirs = <<[leaf |-> [f \in Leaves |-> 1], stamp |-> 0]>>
    /\ insp = Idle /\ issued = {} /\ events = 0

Node(f, n) == inodes[f][n]
Named(f) == IF f \in Leaves THEN dirs[names["bundle"]].leaf[f] ELSE names[f]
Pinned(f, n) == [inode |-> n, stamp |-> Node(f, n).stamp, data |-> Node(f, n).data]
With(fun, f, v) == [x \in DOMAIN fun \cup {f} |-> IF x = f THEN v ELSE fun[x]]
Disk == <<names, inodes, dirs>>

------------------------------ (* derivation *) -----------------------------

\* What the lock says of policy, builder and inputs, the rules, the TCB identity.
Bound(a) ==
    /\ a["verity_rules"] = "supported" /\ a["tcb_identity"] # "malformed"
    /\ a["root_lock"].policy = a["policy"]
    /\ a["runtime_closure"].builder = a["builder_source"]
    /\ a["runtime_closure"].inputs = a["root_lock"].builder

\* The identity of the execution: one digest over all six.
ExecutionProvenance(a) == [f \in Authority |-> a[f]]

VerityOf(tree, lock, i) == [tree |-> tree, salt |-> <<lock, i>>]

ExpectedSpdx(a) == [references |-> ExecutionProvenance(a), packages |-> a["root_lock"]]
ExpectedManifest(a, images) ==
    [provenance |-> ExecutionProvenance(a), lock |-> a["root_lock"], images |-> images,
     modules |-> a["root_lock"].cert, sbom |-> ExpectedSpdx(a)]

\* produce_provenance_v2 with what the assembler made of the lock's trees.
Produced(a) ==
    LET tree == a["root_lock"].trees
        images == [i \in Images |-> [tree |-> tree[i], verity |-> VerityOf(tree[i], a["root_lock"], i)]]
    IN [f \in Leaves |->
          CASE f = Manifest -> ExpectedManifest(a, images)
            [] f = Spdx -> ExpectedSpdx(a)
            [] f \in {Squashfs(i) : i \in Images} -> images[CHOOSE i \in Images : Squashfs(i) = f].tree
            [] OTHER -> images[CHOOSE i \in Images : Verity(i) = f].verity]

------------------------------- (* inspector *) -----------------------------

Goto(pc) == insp' = [insp EXCEPT !.pc = pc, !.k = 1]
Check(holds, next) == Goto(IF holds THEN next ELSE "refused")
Quiet == UNCHANGED <<Disk, issued, events>>
Given == [f \in Authority |-> insp.pin[f].data]

Start == insp.pc = "idle" /\ Goto("authorities") /\ Quiet

\* Opened, read whole, unchanged while it was read.
PinAuthority ==
    /\ insp.pc = "authorities"
    /\ LET f == Authorities[insp.k] IN
       insp' = [insp EXCEPT !.pin = With(@, f, Pinned(f, Named(f))),
                            !.pc = IF insp.k < Len(Authorities) THEN @ ELSE "derive",
                            !.k = @ + 1]
    /\ Quiet

DeriveInputs == insp.pc = "derive" /\ Check(Bound(Given), "source") /\ Quiet

PinSource ==
    /\ insp.pc = "source"
    /\ LET p == Pinned(Trusted, Named(Trusted)) IN
       insp' = [insp EXCEPT !.pin = With(@, Trusted, p),
                            !.pc = IF p.data = Given["root_lock"].cert THEN "root" ELSE "refused"]
    /\ Quiet

\* The directory, and its leaves through it; then the leaves' identities.
PinBundle ==
    \/ /\ insp.pc = "root"
       /\ insp' = [insp EXCEPT !.root = [dir |-> names["bundle"], stamp |-> dirs[names["bundle"]].stamp],
                               !.pc = "leaves"]
       /\ Quiet
    \/ /\ insp.pc = "leaves"
       /\ insp' = [insp EXCEPT !.pin = [f \in Outside \cup Leaves |->
                                           IF f \in Outside THEN insp.pin[f]
                                           ELSE Pinned(f, dirs[insp.root.dir].leaf[f])],
                               !.pc = "reads"]
       /\ Quiet

\* guard.pin_reads: the same files once more, by path.
Reads == Leaves \cup {Trusted}
PinReads ==
    /\ insp.pc = "reads"
    /\ insp' = [insp EXCEPT !.reads = [f \in Reads |-> Pinned(f, Named(f))], !.pc = "agree"]
    /\ Quiet

\* Both pins are of one file; the certificates are read through the guard.
\* held: history, what every file held open contained at this instant.
PinsAgree ==
    /\ insp.pc = "agree"
    /\ insp' = [insp EXCEPT
           !.pc = IF /\ \A f \in Leaves : insp.pin[f].inode = insp.reads[f].inode
                     /\ LET p == insp.pin[Trusted] IN
                        /\ insp.reads[Trusted].inode = p.inode
                        /\ Node(Trusted, p.inode).stamp = p.stamp
                        /\ Node(Trusted, p.inode).data = Given["root_lock"].cert
                  THEN "images" ELSE "refused",
           !.held = [f \in DOMAIN insp.pin |-> Node(f, insp.pin[f].inode).data]]
    /\ Quiet

Read(f) == Node(f, insp.reads[f].inode).data

\* The hash device again from the image; the image's files against the lock;
\* module signatures against the certificates.
InspectImage(i) ==
    /\ insp.pc = "images" /\ i \notin DOMAIN insp.evidence
    /\ LET e == With(insp.evidence, i, [tree |-> Read(Squashfs(i)), verity |-> Read(Verity(i))]) IN
       insp' = [insp EXCEPT !.evidence = e,
                    !.pc = IF /\ e[i].verity = VerityOf(e[i].tree, Given["root_lock"], i)
                              /\ e[i].tree = Given["root_lock"].trees[i]
                              /\ Read(Trusted) = Given["root_lock"].cert
                           THEN IF DOMAIN e = Images THEN "graph" ELSE "images"
                           ELSE "refused"]
    /\ Quiet

\* What is started from where, in the files extracted: as the policy has it.
CompareGraph ==
    /\ insp.pc = "graph"
    /\ Check({insp.evidence[i].tree : i \in Images} \subseteq Given["policy"].allows, "documents")
    /\ Quiet

CheckDocuments ==
    /\ insp.pc = "documents"
    /\ LET d == [manifest |-> Read(Manifest), spdx |-> Read(Spdx)] IN
       insp' = [insp EXCEPT !.documents = d,
                    !.pc = IF /\ d.spdx = ExpectedSpdx(Given)
                              /\ d.manifest = ExpectedManifest(Given, insp.evidence)
                           THEN "oracle" ELSE "refused"]
    /\ Quiet

\* inspect_bindings, on a sealed copy of what was read: everything but the images.
OracleAccepts(a, d) ==
    /\ Bound(a)
    /\ d.manifest.provenance = ExecutionProvenance(a)
    /\ d.manifest.lock = a["root_lock"] /\ d.manifest.modules = a["root_lock"].cert
    /\ d.manifest.sbom = d.spdx
    /\ d.spdx.references = ExecutionProvenance(a)
RequireSealedBinding ==
    insp.pc = "oracle" /\ Check(OracleAccepts(Given, insp.documents), "result") /\ Quiet

\* The digests of the leaves, through the first descriptors.
Result ==
    /\ insp.pc = "result"
    /\ insp' = [insp EXCEPT !.pc = "recheck_reads",
                            !.result = [f \in Leaves |-> Node(f, insp.pin[f].inode).data]]
    /\ Quiet

\* Mutant: a file is the same when its name still leads to it.
Unchanged_Named(f, p) == TRUE

\* The descriptor's stat identity and digest are the ones it was opened with.
Unchanged(f, p) == Node(f, p.inode).stamp = p.stamp /\ Node(f, p.inode).data = p.data

RecheckReads ==
    /\ insp.pc = "recheck_reads"
    /\ Check(\A f \in Reads : /\ Unchanged(f, insp.reads[f]) /\ Named(f) = insp.reads[f].inode,
             "recheck_bundle")
    /\ Quiet

RecheckBundle ==
    /\ insp.pc = "recheck_bundle"
    /\ LET d == insp.root.dir IN
       Check(/\ dirs[d].stamp = insp.root.stamp /\ names["bundle"] = d
             /\ \A f \in Leaves : Unchanged(f, insp.pin[f]) /\ dirs[d].leaf[f] = insp.pin[f].inode,
             "recheck_source")
    /\ Quiet

RecheckSource ==
    /\ insp.pc = "recheck_source"
    /\ Check(Unchanged(Trusted, insp.pin[Trusted]) /\ Named(Trusted) = insp.pin[Trusted].inode,
             "recheck_authorities")
    /\ Quiet

RecheckAuthority ==
    /\ insp.pc = "recheck_authorities"
    /\ LET f == Authorities[insp.k] IN
       IF Unchanged(f, insp.pin[f]) /\ Named(f) = insp.pin[f].inode
       THEN insp' = [insp EXCEPT !.pc = IF insp.k < Len(Authorities) THEN @ ELSE "issue", !.k = @ + 1]
       ELSE Goto("refused")
    /\ Quiet

\* _register_inspection_result: only this object counts as issued.
Issue ==
    /\ insp.pc = "issue"
    /\ issued' = issued \cup {[authorities |-> Given, leaves |-> insp.result, held |-> insp.held]}
    /\ insp' = Idle
    /\ UNCHANGED <<Disk, events>>

Refused == insp.pc = "refused" /\ insp' = Idle /\ Quiet

---------------------------- (* the surroundings *) -------------------------

Event == events < MaxEvents /\ events' = events + 1 /\ UNCHANGED <<insp, issued>>

Edit(f, v) ==
    /\ Event /\ v # Node(f, Named(f)).data
    /\ inodes' = [inodes EXCEPT ![f][Named(f)] = [data |-> v, stamp |-> @.stamp + 1]]
    /\ UNCHANGED <<names, dirs>>

Replace(f, v) ==
    /\ Event
    /\ inodes' = [inodes EXCEPT ![f] = Append(@, [data |-> v, stamp |-> 0])]
    /\ IF f \in Leaves
       THEN /\ dirs' = [dirs EXCEPT ![names["bundle"]].leaf[f] = Len(inodes'[f]),
                                    ![names["bundle"]].stamp = @ + 1]
            /\ UNCHANGED names
       ELSE names' = [names EXCEPT ![f] = Len(inodes'[f])] /\ UNCHANGED dirs

\* The assembler exposes the bundle made of the authorities as they are now.
Expose ==
    /\ Event
    /\ LET a == [f \in Authority |-> Node(f, names[f]).data] IN
       /\ Bound(a)
       /\ inodes' = [f \in DOMAIN inodes |->
                        IF f \in Leaves THEN Append(inodes[f], [data |-> Produced(a)[f], stamp |-> 0])
                        ELSE inodes[f]]
    /\ dirs' = Append(dirs, [leaf |-> [f \in Leaves |-> Len(inodes'[f])], stamp |-> 0])
    /\ names' = [names EXCEPT !["bundle"] = Len(dirs')]

\* A directory above the file is renamed: its name leads elsewhere, or back.
Rename(f) ==
    /\ Event
    /\ names' \in {[names EXCEPT ![f] = n] :
                      n \in (IF f = "bundle" THEN DOMAIN dirs ELSE DOMAIN inodes[f]) \ {names[f]}}
    /\ UNCHANGED <<inodes, dirs>>

Next ==
    \/ Start \/ PinAuthority \/ DeriveInputs \/ PinSource \/ PinBundle \/ PinReads \/ PinsAgree
    \/ \E i \in Images : InspectImage(i)
    \/ CompareGraph \/ CheckDocuments \/ RequireSealedBinding \/ Result
    \/ RecheckReads \/ RecheckBundle \/ RecheckSource \/ RecheckAuthority \/ Issue \/ Refused
    \/ \E f \in DOMAIN inodes : \E v \in Contents[f] : Edit(f, v) \/ Replace(f, v)
    \/ Expose
    \/ \E f \in DOMAIN names : Rename(f)

------------------------------ (* correctness *) ----------------------------

(* A result is issued only for files that, at one instant, held together what
   it says of them: six authorities that agree with each other, the
   certificates their lock names, and the very bundle the producer makes from
   these authorities, whatever was edited, replaced or put back while the
   inspector went from file to file. *)
IssuedIsWhole ==
    \A r \in issued :
        /\ Bound(r.authorities)
        /\ \A f \in Authority : r.held[f] = r.authorities[f]
        /\ r.held[Trusted] = r.authorities["root_lock"].cert
        /\ \A f \in Leaves : r.held[f] = r.leaves[f] /\ r.leaves[f] = Produced(r.authorities)[f]

=============================================================================
