----------------------------- MODULE MCEvidence -----------------------------
(* What others rely on having been checked: the certificates' status, a bundle *)
(* of evidence, and the artifacts of the builds with their provenance.  A      *)
(* behaviour is one of the status cache or of one of the seven parts that read *)
(* files other processes write: part says which.  The seven share a bank of    *)
(* variables, None where they have no use.                                     *)
EXTENDS StatusProofs, TLC

CONSTANT Torn    \* what a half-written file holds

VARIABLES part, v1, v2, v3, v4, v5, v6, v7, v8, v9

bank == <<v1, v2, v3, v4, v5, v6, v7, v8, v9>>
all == <<vars, part, bank>>

-----------------------------------------------------------------------------
\* Status: a good answer, a later revocation, a contradicting good one of the same
\* instant and a good one newer still.
Answer(s, status, from, until) ==
  [subject |-> s, status |-> status, this_update |-> from, next_update |-> until]

MCResponses ==
  UNION {{Answer(s, "good", 0, 4), Answer(s, "revoked", 1, 5),
          Answer(s, "good", 1, 5), Answer(s, "good", 2, 6)} : s \in Subjects}

\* Evidence bundle: the expected execution, one that left the same, and eight that
\* differ from it in one respect each; four other sets of AMD certificates.
Base == [challenge |-> "c", run |-> "r", profile |-> "t", plan |-> "p", image |-> "m1",
         ak |-> "k1", chip |-> "h1", tcb |-> 2, firm |-> "f",
         right |-> TRUE, lawful |-> TRUE, checkpoints |-> TRUE]

About == [base |-> Base, again |-> Base,
          oldRun |-> [Base EXCEPT !.run = "r2"],
          otherPlan |-> [Base EXCEPT !.plan = "q", !.image = "m3"],
          rebuilt |-> [Base EXCEPT !.image = "m2"],
          elsewhere |-> [Base EXCEPT !.chip = "h2", !.ak = "k2"],
          firmware |-> [Base EXCEPT !.firm = "g"],
          old |-> [Base EXCEPT !.tcb = 1],
          wrong |-> [Base EXCEPT !.right = FALSE],
          unlawful |-> [Base EXCEPT !.lawful = FALSE]]

Crl == [by |-> "A", revoked |-> {}, current |-> TRUE]

Amd == [ark |-> "A", ask |-> "B", askBy |-> "A", vcekBy |-> "B", current |-> TRUE,
        crl |-> Crl, chip |-> "h1", tcb |-> 2, key |-> <<"h1", 2>>]

B == INSTANCE EvidenceBundle WITH
  pc <- v1, disk <- v2, snap <- v3, mix <- v4, amd <- v5, staged <- v6, dest <- v7,
  Execs <- DOMAIN About, MaxEdits <- 1,
  Expected <- [challenge |-> "c", run |-> "r", profile |-> "t", plan |-> "p", inputs |-> "i",
               firm |-> "f", baseline |-> <<"f", "m1">>, floor |-> 2, ark |-> "A", ask |-> "B",
               crl |-> Crl],
  PlanOf <- [i |-> "p", j |-> "q"],
  ClosureOf <- [m1 |-> "i", m2 |-> "i", m3 |-> "j"],
  Amds <- {Amd, [Amd EXCEPT !.chip = "h2", !.key = <<"h2", 2>>],
           [Amd EXCEPT !.tcb = 1, !.key = <<"h1", 1>>],
           [Amd EXCEPT !.ark = "Z"], [Amd EXCEPT !.current = FALSE]}

-----------------------------------------------------------------------------
\* Assembly: two processes, trees of two lawful contents, of one that is not, and of
\* one with a strange file where only the check of the authorities looks.
S == INSTANCE Assembly WITH
  disk <- v1, names <- v2, lease <- v3, owner <- v4, proc <- v5, restarts <- v6, raced <- v7,
  slips <- v8, Procs <- {"p1", "p2"}, Contents <- {"c1", "c2", "strange", "bad"},
  Lawful <- {"c1", "c2"}, Observable <- {"c1", "c2", "strange"}, MaxRestarts <- 1

\* Payload: two builders; requests that agree with their issued inputs in both
\* versions, and three that differ in one respect.
Request(v) ==
  [version |-> v,
   insp |-> [issued |-> TRUE, state |-> "artifact_consistent", manifest |-> 1, input |-> 1],
   bind |-> [issued |-> TRUE, manifest |-> 1, contract |-> 1, modules |-> 1,
             controller |-> v = "v3"],
   plan |-> [contract |-> 1, modules |-> 1, distinct |-> TRUE]]

Imports == [geometry |-> {}, boot |-> {"geometry"}, tables |-> {}, v3 |-> {"tables"}]

L == INSTANCE PayloadBuild WITH
  source <- v1, entries <- v2, stage <- v3, proc <- v4, edits <- v5, met <- v6,
  Builders <- {"b1", "b2"},
  Requests <- {Request("v1"), Request("v3"), [Request("v1") EXCEPT !.insp.input = 2],
               [Request("v1") EXCEPT !.insp.manifest = 2],
               [Request("v3") EXCEPT !.bind.controller = FALSE]},
  Rows <- [v1 |-> <<"geometry", "boot">>, v3 |-> <<"tables", "v3">>],
  Imports <- Imports, Expected <- Imports, Aliased <- {"v3"},
  Roots <- [v1 |-> {"boot"}, v3 |-> {"v3"}], Stale <- {"boot"}, MaxEdits <- 2

\* Runtime stage: a tree whose controller needs a support file that needs a library,
\* with the library declared or not, the files allowed or not, and a single file.
Tree == [kind |-> "tree", dest |-> "root", files |-> {"controller", "support"},
         allowed |-> {"controller", "support"}, entry |-> {"controller"},
         outside |-> {"libc"}, fits |-> TRUE]

File == [Tree EXCEPT !.kind = "file", !.files = {}, !.entry = {}]

R == INSTANCE RuntimeStage WITH
  path <- v1, inode <- v2, dest <- v3, staging <- v4, proc <- v5, events <- v6, met <- v7,
  Calls <- {"c1", "c2"}, Sources <- {"controller", "support"},
  Orders <- {Tree, [Tree EXCEPT !.outside = {}], [Tree EXCEPT !.allowed = {}],
             File, [File EXCEPT !.fits = FALSE]},
  Edges <- [controller |-> {"support"}, support |-> {}],
  Outside <- [controller |-> {}, support |-> {"libc"}], Stale <- {"support"}, MaxEvents <- 2

\* Kernel handoff: two edits of one file, in the right and in the wrong order.
Edit(d, e, pre, post) == [dest |-> d, edit |-> e, pre |-> pre, post |-> post]

K == INSTANCE KernelHandoff WITH
  repo <- v1, tree <- v2, temps <- v3, newdir <- v4, wt <- v5, certs <- v6, outs <- v7,
  proc <- v8, events <- v9,
  Creates <- <<"core", "adapter">>,
  Manifests <- {<<Edit("Makefile", "m", <<>>, <<"m">>), Edit("main", "a", <<>>, <<"a">>),
                  Edit("main", "b", pre, post)>> : <<pre, post>> \in
                    {<< <<"a">>, <<"a", "b">> >>, << <<>>, <<"b">> >>}},
  Exports <- {{"ima"}, {"ima", "bootstrap"}, {"ima", "static_helper"}, {}}, MaxEvents <- 2

\* Provenance: authorities that agree and what may be written over each.
Policy(k) == [name |-> k, allows |-> {"m1", "r1"} \cup (IF k = 1 THEN {} ELSE {"m2"})]

Lock(k) == [policy |-> Policy(k), builder |-> "b1", cert |-> "c1",
            trees |-> ("models" :> (IF k = 1 THEN "m1" ELSE "m2")) @@ ("runtime-policy" :> "r1")]

Papers(k) == [root_lock |-> Lock(k), runtime_closure |-> [builder |-> "b1", inputs |-> "b1"],
              verity_rules |-> "supported", tcb_identity |-> "t1", builder_source |-> "b1",
              policy |-> Policy(k)]

Ids == {"models", "runtime-policy"}

Producer == INSTANCE ProvenanceInspect WITH
  names <- v1, inodes <- v2, dirs <- v3, insp <- v4, issued <- v5, events <- v6,
  Images <- Ids, MaxEvents <- 0, First <- <<>>, Contents <- <<>>

AllFiles(k) == Papers(k) @@ ("kernel_trusted_cert_bundle" :> "c1") @@ Producer!Produced(Papers(k))

I == INSTANCE ProvenanceInspect WITH
  names <- v1, inodes <- v2, dirs <- v3, insp <- v4, issued <- v5, events <- v6,
  Images <- Ids, MaxEvents <- 2, First <- AllFiles(1),
  Contents <- [f \in DOMAIN AllFiles(1) |->
                 CASE f = "kernel_trusted_cert_bundle" -> {"c1", "c2"}
                   [] f = "runtime_closure" -> {Papers(1)[f], [builder |-> "b2", inputs |-> "b2"]}
                   [] f = "verity_rules" -> {"other"}
                   [] f = "tcb_identity" -> {"t1", "t2"}
                   [] f = "builder_source" -> {"b1", "b2"}
                   [] OTHER -> {AllFiles(1)[f], AllFiles(2)[f]}]

\* Guest build: a lock and its successor, one whose policy does not declare what it
\* starts and one that does not authorize its module's signer.
GuestLock(policy, app, signers) ==
  [inputs |-> [policy |-> policy, certs |-> 1, app |-> app, weights |-> 1],
   signers |-> signers]

G == INSTANCE GuestBuild WITH
  file <- v1, proc <- v2, holder <- v3, promoted <- v4, events <- v5,
  Builders <- {"g1", "g2"},
  Locks <- {GuestLock(1, 1, {}), GuestLock(1, 2, {"s"}), GuestLock(2, 2, {"s"}),
            GuestLock(1, 2, {})},
  Texts <- [policy |-> {1, 2}, certs |-> {1, 2}, app |-> {1, 2, 3}, weights |-> {1}],
  Placed <- ("runtime-policy" :> {"app"}) @@ ("models" :> {"weights"}),
  SignerOf <- (2 :> "s") @@ (3 :> "t"),
  Allows <- [k \in {1, 2} |-> {[app |-> 1], [app |-> 3 - k], [weights |-> 1]}],
  Values <- {1, 2}, MaxEvents <- 2

-----------------------------------------------------------------------------
\* The bank from a variable on, unused.
None8 == v8 = None /\ v9 = None
None7 == v7 = None /\ None8
None6 == v6 = None /\ None7
None1 == v1 = None /\ v2 = None /\ v3 = None /\ v4 = None /\ v5 = None /\ None6

AllInit ==
  /\ Init
  /\ \/ part = "status" /\ None1
     \/ /\ now = 0
        /\ \/ part = "bundle" /\ B!Init /\ None8
           \/ part = "assembly" /\ S!Init /\ v9 = None
           \/ part = "payload" /\ L!Init /\ None7
           \/ part = "stage" /\ R!Init /\ None8
           \/ part = "handoff" /\ K!Init
           \/ part = "provenance" /\ I!Init /\ None7
           \/ part = "guest" /\ G!Init /\ None6

Status == part = "status" /\ Next /\ UNCHANGED <<part, bank>>

\* A step of part p, which has the bank to itself.
Only(p) == part = p /\ UNCHANGED <<vars, part>>

AllNext ==
  \/ Status
  \/ Only("bundle") /\ B!Next /\ UNCHANGED <<v8, v9>>
  \/ Only("assembly") /\ S!Next /\ UNCHANGED v9
  \/ Only("payload") /\ L!Next /\ UNCHANGED <<v7, v8, v9>>
  \/ Only("stage") /\ R!Next /\ UNCHANGED <<v8, v9>>
  \/ Only("handoff") /\ K!Next
  \/ Only("provenance") /\ I!Next /\ UNCHANGED <<v7, v8, v9>>
  \/ Only("guest") /\ G!Next /\ UNCHANGED <<v6, v7, v8, v9>>

AllSpec == AllInit /\ [][AllNext]_all

-----------------------------------------------------------------------------
\* A bundle of evidence that is in place is of one execution, the expected one, on a
\* chip certified under the pinned root, whatever other evidence lay around and
\* whoever edited the files (assemble_and_appraise_spp_diagnostic).
BundleIsOneExecution == part = "bundle" => B!OneExecution

\* Provenance is whole at both ends: what the assembler exposes is one read-only
\* bundle of one build of lawful trees, whatever crashed attempts left behind (unless
\* a tree was edited between the check of its files and its snapshot), and the
\* inspector issues a result only for files that held together, at one instant,
\* what it says of them (assemble, _publish; inspect_bundle and its rechecks).
ProvenanceIsWhole ==
  /\ part = "assembly" => S!ExposedIsWhole
  /\ part = "provenance" => I!IssuedIsWhole

\* What the builds publish is whole and made of the declared sources, or absent: a
\* boot payload the independent inspector accepts, a runtime closed under what its
\* entry points reach, a kernel tree with the manifest applied exactly once, a guest
\* image under the digest of the lock it was built from
\* (compile_boot_payload, stage_runtime, materialize_worktree, promote).
BuildsAreWhole ==
  /\ part = "payload" => L!BuiltIsInspectable
  /\ part = "stage" => R!PublishedOrAbsent
  /\ part = "handoff" => K!HandoffExact
  /\ part = "guest" => G!PromotedIsLocked
=============================================================================
