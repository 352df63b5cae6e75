----------------------------- MODULE GuestBuild -----------------------------
(***************************************************************************)
(* Building, inspecting and promoting the guest's images (conf_proc_build, *)
(* conf_proc_inspect, conf_proc_promote and the modules they call).        *)
(*                                                                         *)
(* A builder reads a lock and the policy it names, assembles a tree per    *)
(* image from the locked inputs, packs it, emits manifest and SBOM, and    *)
(* promotes its private staging directory to `promoted/<lock digest>' once *)
(* a separate process, which reads lock, policy and bundle for itself, has *)
(* accepted it.  Builders run together; lock, policy and inputs are edited *)
(* meanwhile; a tool may pack something else than it was given; a builder  *)
(* may fail anywhere or be killed.                                         *)
(*                                                                         *)
(* A digest is what was digested, so a lock is its own name.  A tree is    *)
(* the text of every input placed in it and the values of their extended   *)
(* attributes, which no lock names.  A lock names every file but itself.   *)
(***************************************************************************)
EXTENDS Naturals, Sequences, FiniteSets, TLC

CONSTANTS Builders,
          Locks,       \* texts the lock file may have: [inputs, signers]
          Texts,       \* input -> the texts it may be given
          Placed,      \* image -> the inputs placed in it
          SignerOf,    \* text of a module -> its signer
          Allows,      \* text of the policy -> the trees whose graph it declares
          Values,      \* values of the extended attributes
          MaxEvents,   \* bound: edits, tools gone wrong, kills
          None

Images == << "runtime-policy", "models" >>   \* IMAGES
ImageIds == {Images[i] : i \in DOMAIN Images}

VARIABLES file,      \* "lock" and every input -> its text; "xattr" -> a value
          proc,      \* the builders
          holder,    \* lock -> the builder that holds its flock
          promoted,  \* lock -> the bundle promoted under it
          events

vars == <<file, proc, holder, promoted, events>>

NoBundle == [image |-> [i \in ImageIds |-> None], manifest |-> None, sbom |-> None]

Idle == [pc |-> "start", lock |-> None, n |-> 1, stage |-> NoBundle, insp |-> None]

Init ==
    /\ \E l \in Locks, x \in Values :
         file = l.inputs @@ [lock |-> l, xattr |-> x]
    /\ proc = [b \in Builders |-> Idle]
    /\ holder = [l \in Locks |-> None]
    /\ promoted = [l \in Locks |-> None]
    /\ events = 0

At(b, pc) == proc[b].pc = pc

To(b, pc) == proc' = [proc EXCEPT ![b].pc = pc]

\* The build goes on at pc where ok holds and fails otherwise.
Check(b, ok, pc) == To(b, IF ok THEN pc ELSE "failed")

\* A file that is read and must have the digest the lock gives it.
Locked(l, f) == file[f] = l.inputs[f]

-----------------------------------------------------------------------------
\* The lock is read once: what it says, and its digest, are the builder's from here on.
ReadLock(b) ==
    /\ At(b, "start")
    /\ proc' = [proc EXCEPT ![b].pc = "policy", ![b].lock = file.lock]
    /\ UNCHANGED <<file, holder, promoted, events>>

\* The policy, the guard over the declared reads and tools, and a new staging directory.
ReadPolicy(b) ==
    /\ At(b, "policy")
    /\ Check(b, Locked(proc[b].lock, "policy"), "inputs")
    /\ UNCHANGED <<file, holder, promoted, events>>

\* The certificates that authorize module signers.
ValidateInputs(b) ==
    /\ At(b, "inputs")
    /\ Check(b, Locked(proc[b].lock, "certs"), "image")
    /\ UNCHANGED <<file, holder, promoted, events>>

\* What a lock places in image i.
TreeOf(l, i) == [f \in Placed[i] |-> l.inputs[f]]

\* The tree of image i: every input is read, and has the digest the lock gives it, while
\* its extended attributes are taken as they are (assemble_tree, _materialize).
Tree(i) == [text |-> [f \in Placed[i] |-> file[f]], xattr |-> file.xattr]
Materialized(l, i) == Tree(i).text = TreeOf(l, i)

\* Every module in a tree is signed by a signer the lock authorizes.
Signed(l, tree) ==
    \A f \in DOMAIN tree.text :
        tree.text[f] \in DOMAIN SignerOf => SignerOf[tree.text[f]] \in l.signers

\* A packed image: what is in it, and the salt and UUID its verity tree was made with,
\* both derived from the lock's digest (build_image).
Packed(l, tree) == [tree |-> tree, salt |-> l]

BuildImage(b) ==
    LET p == proc[b]
        i == Images[p.n]
        t == Tree(i)
        Pack(tree, cost) ==
            /\ proc' = [proc EXCEPT ![b].stage.image[i] = Packed(p.lock, tree),
                                    ![b].n = p.n + 1,
                                    ![b].pc = IF p.n = Len(Images) THEN "graph" ELSE "image"]
            /\ events' = events + cost
    IN /\ At(b, "image")
       /\ IF Materialized(p.lock, i) /\ Signed(p.lock, t)
          THEN \/ Pack(t, 0)
               \/ /\ events < MaxEvents
                  /\ \E text \in [Placed[i] -> UNION {Texts[f] : f \in Placed[i]}] :
                       text # t.text /\ Pack([t EXCEPT !.text = text], 1)
          ELSE To(b, "failed") /\ UNCHANGED events
       /\ UNCHANGED <<file, holder, promoted>>

\* The processes that trees start are those the policy declares.
GraphAllowed(l, trees) == \A i \in ImageIds : trees[i] \in Allows[l.inputs.policy]

\* The builder's graph is that of the trees it assembled, whatever was packed.
CompareGraph(b) ==
    /\ At(b, "graph")
    /\ Check(b, GraphAllowed(proc[b].lock, [i \in ImageIds |-> TreeOf(proc[b].lock, i)]),
             "manifest")
    /\ UNCHANGED <<file, holder, promoted, events>>

\* The manifest names the lock and the images by their digests.
Manifest(l, image) == [lock |-> l, image |-> image]

\* The SBOM lists the lock's inputs, whatever the images hold.
Sbom(l) == [inputs |-> l.inputs]

EmitManifest(b) ==
    /\ At(b, "manifest")
    /\ proc' = [proc EXCEPT ![b].pc = "lock",
                            ![b].stage.manifest = Manifest(proc[b].lock, proc[b].stage.image),
                            ![b].stage.sbom = Sbom(proc[b].lock)]
    /\ UNCHANGED <<file, holder, promoted, events>>

-----------------------------------------------------------------------------
\* flock(LOCK_EX) on the file named after the digest.
AcquireLock(b) ==
    LET l == proc[b].lock IN
    /\ At(b, "lock") /\ holder[l] = None
    /\ holder' = [holder EXCEPT ![l] = b]
    /\ To(b, "inspect")
    /\ UNCHANGED <<file, promoted, events>>

\* promote ends: the lock is given back on every path.
Leave(b, pc) ==
    /\ holder' = [holder EXCEPT ![proc[b].lock] = None]
    /\ To(b, pc)

\* The inspector reads the lock file for itself, whatever it says by now.
InspectLock(b) ==
    /\ At(b, "inspect")
    /\ proc' = [proc EXCEPT ![b].pc = "inspect2", ![b].insp = file.lock]
    /\ UNCHANGED <<file, holder, promoted, events>>

\* The verity tree, made again with the salt of the inspector's own lock, is the one shipped.
VerityMatches(l, image) == image.salt = l

InventoryMatches_Any(l, i, image) == TRUE    \* Mutant: the contents are not compared.

\* The image, unpacked, holds what the lock places in it.
InventoryMatches(l, i, image) == image.tree.text = TreeOf(l, i)

\* Its modules are verified again from the unpacked image.
ModulesMatch(l, image) == Signed(l, image.tree)

\* Manifest and SBOM are what the inspector expects of its own lock and of the images.
ManifestMatches(l, bundle) == bundle.manifest = Manifest(l, bundle.image)
SbomMatches(l, bundle) == bundle.sbom = Sbom(l)

\* What the inspector accepts, policy and certificates being as its lock says.
Accepts(l, bundle) ==
    /\ Locked(l, "policy") /\ Locked(l, "certs")
    /\ SbomMatches(l, bundle)
    /\ \A i \in ImageIds : /\ VerityMatches(l, bundle.image[i])
                           /\ InventoryMatches(l, i, bundle.image[i])
                           /\ ModulesMatch(l, bundle.image[i])
    /\ GraphAllowed(l, [i \in ImageIds |-> bundle.image[i].tree.text])
    /\ ManifestMatches(l, bundle)

Inspect(b) ==
    /\ At(b, "inspect2")
    /\ IF Accepts(proc[b].insp, proc[b].stage)
       THEN To(b, "promote") /\ UNCHANGED holder
       ELSE Leave(b, "failed")
    /\ UNCHANGED <<file, promoted, events>>

SameBundle_Exists(old, new) == TRUE    \* Mutant: any bundle of the lock will do.

\* A bundle already promoted under this lock has the same files as the staged one
\* (_bundle_digests).
SameBundle(old, new) == old = new

\* The destination is free: one rename.  It is taken: the staged bundle is discarded
\* where it is the same, and refused where it is not.
Promote(b) ==
    LET l == proc[b].lock
        new == proc[b].stage
    IN /\ At(b, "promote")
       /\ IF promoted[l] = None
          THEN promoted' = [promoted EXCEPT ![l] = new] /\ Leave(b, "done")
          ELSE /\ Leave(b, IF SameBundle(promoted[l], new) THEN "done" ELSE "failed")
               /\ UNCHANGED promoted
       /\ UNCHANGED <<file, events>>

-----------------------------------------------------------------------------
\* A read, a write or a tool fails, or the builder is killed; a kernel lock goes with it.
Stop(b) ==
    /\ proc[b].pc \notin {"done", "failed"} /\ events < MaxEvents
    /\ To(b, "failed")
    /\ holder' = [l \in Locks |-> IF holder[l] = b THEN None ELSE holder[l]]
    /\ events' = events + 1
    /\ UNCHANGED <<file, promoted>>

\* Whoever keeps the lock and the inputs goes on working on them.
Edit ==
    /\ events < MaxEvents
    /\ \/ \E l \in Locks : file.lock # l /\ file' = [file EXCEPT !.lock = l]
       \/ \E x \in Values : file.xattr # x /\ file' = [file EXCEPT !.xattr = x]
       \/ \E f \in DOMAIN Texts : \E t \in Texts[f] :
            file[f] # t /\ file' = [file EXCEPT ![f] = t]
    /\ events' = events + 1
    /\ UNCHANGED <<proc, holder, promoted>>

Build(b) ==
    \/ ReadLock(b) \/ ReadPolicy(b) \/ ValidateInputs(b) \/ BuildImage(b)
    \/ CompareGraph(b) \/ EmitManifest(b)
    \/ AcquireLock(b) \/ InspectLock(b) \/ Inspect(b) \/ Promote(b) \/ Stop(b)

Next == (\E b \in Builders : Build(b)) \/ Edit

Spec == Init /\ [][Next]_vars

-----------------------------------------------------------------------------
\* What is promoted under a lock's digest holds exactly the inputs that lock names,
\* signed and allowed as it says, although builder and inspector read the lock file
\* at different times and a tool may have packed something else; and a build that
\* returned the destination finds there what it built (build, inspect, promote).
PromotedIsLocked ==
    /\ \A l \in Locks : promoted[l] # None =>
         LET bundle == promoted[l]
             trees == [i \in ImageIds |-> bundle.image[i].tree.text]
         IN /\ bundle.manifest.lock = l /\ bundle.manifest.image = bundle.image
            /\ \A i \in ImageIds : trees[i] = TreeOf(l, i) /\ Signed(l, bundle.image[i].tree)
            /\ GraphAllowed(l, trees)
    /\ \A b \in Builders : At(b, "done") => promoted[proc[b].lock] = proc[b].stage
=============================================================================
