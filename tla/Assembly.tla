------------------------------ MODULE Assembly ------------------------------
(***************************************************************************)
(* The provenance assembler (conf_proc_provenance_v2_assemble.py): several *)
(* processes assemble the bundle of one and the same address under one     *)
(* output root.  Each builds in a staging directory whose name depends     *)
(* only on the address, moves it beside its destination (`.h3-ready-...`), *)
(* and exposes it by one rename.  An address lease (a blocking flock)      *)
(* orders them; an owner lock marks a stage in use.  A process may fail at *)
(* any step, which releases its locks and THEN removes the tree at the     *)
(* path it remembers, or may crash, which releases its locks and leaves    *)
(* everything else as it lies.                                             *)
(*                                                                         *)
(* Directories are inodes; the three names are looked up anew by every     *)
(* step that goes by path, while a removal that has opened its directory   *)
(* keeps working on that inode, as shutil.rmtree does.  What the images    *)
(* and documents say is one content value per build: two builds of one     *)
(* address normally agree, and the assembler checks that they do.          *)
(***************************************************************************)
EXTENDS Naturals, FiniteSets

CONSTANTS Procs,        \* assembling processes
          Contents,     \* what a tree, and so an image, may hold
          Lawful,       \* the contents the lock, the policy and the closure allow
          Observable,   \* these, and those that differ where only that check looks
          MaxRestarts,  \* bound: crashes, new attempts, edits of the work area
          None

VARIABLES disk,     \* inode -> directory
          names,    \* path -> inode, 0 when nothing is there
          lease,    \* holder of the address lease
          owner,    \* holder of the stage's owner lock
          proc,     \* process -> its control state and locals
          restarts,
          raced,    \* history: a cleanup touched a path under another's lease
          slips     \* history: contents put in between the check and the freeze

avars == <<disk, names, lease, owner, proc, restarts, raced, slips>>

Paths == {"stage", "ready", "dest"}
BUNDLE_FILES == {"image", "documents"}

\* A directory: the bundle files it holds with their content, its work area
\* (None, or the tree in it: its content and the number of its edits), and
\* whether its files (0444) and itself (0555) are read-only.
EmptyDir == [files |-> [f \in BUNDLE_FILES |-> None], work |-> None,
             filesRO |-> FALSE, dirRO |-> FALSE]

NoTree == [is |-> None, edits |-> 0]

Inodes == 1 .. (Cardinality(Paths) + Cardinality(Procs))

\* root: the path the `finally` clause will remove; snap: the snapshot of the
\* frozen tree; made: the digest of the image; gate: the digests the local
\* gate took; path and fd: the tree being removed and its directory.
Fresh == [pc |-> "start", root |-> None, snap |-> None, made |-> None, gate |-> None,
          path |-> None, fd |-> 0, after |-> None]

Init ==
    /\ disk = [i \in Inodes |-> EmptyDir]
    /\ names = [n \in Paths |-> 0]
    /\ lease = None
    /\ owner = None
    /\ proc = [p \in Procs |-> Fresh]
    /\ restarts = 0
    /\ raced = FALSE
    /\ slips = {}

At(p, pc) == proc[p].pc = pc
There(path) == names[path] # 0
Dir(path) == disk[names[path]]
Whole(d) == d.work = None /\ \A f \in BUNDLE_FILES : d.files[f] # None
ReadOnly(d) == d.filesRO /\ d.dirRO
Digests(d) == d.files
BundleOf(c) == [f \in BUNDLE_FILES |-> c]

FreeInode == CHOOSE i \in Inodes : /\ \A n \in Paths : names[n] # i
                                   /\ \A p \in Procs : proc[p].fd # i

Goto(p, pc) == proc' = [proc EXCEPT ![p].pc = pc]
Write(path, d) == disk' = [disk EXCEPT ![names[path]] = d]

\* Mutant: the lease is shared instead of exclusive (LOCK_SH).
LeaseFree_Shared(p) == TRUE
LeaseFree(p) == lease = None

\* _address_lease: a blocking exclusive flock.
AcquireLease(p) ==
    /\ At(p, "start")
    /\ LeaseFree(p)
    /\ lease' = p
    /\ Goto(p, "prepare")
    /\ UNCHANGED <<disk, names, owner, restarts, raced, slips>>

\* _prepare_stage: a stale stage is removed if its owner lock is free (its
\* layout is one a build leaves behind), and the stage is made anew.
Remove(p, path, after) ==
    proc' = [proc EXCEPT ![p].pc = "unlock", ![p].path = path, ![p].after = after]

PrepareStage(p) ==
    /\ At(p, "prepare")
    /\ IF There("stage")
       THEN /\ owner = None
            /\ Remove(p, "stage", "prepare")
            /\ UNCHANGED <<disk, names>>
       ELSE /\ disk' = [disk EXCEPT ![FreeInode] = EmptyDir]
            /\ names' = [names EXCEPT !["stage"] = FreeInode]
            /\ proc' = [proc EXCEPT ![p].pc = "own", ![p].root = "stage"]
    /\ UNCHANGED <<lease, owner, restarts, raced, slips>>

\* _stage_owner_lease: taken without blocking.
OwnStage(p) ==
    /\ At(p, "own")
    /\ owner = None
    /\ owner' = p
    /\ Goto(p, "work")
    /\ UNCHANGED <<disk, names, lease, restarts, raced, slips>>

\* os.makedirs(work_root): makes the stage too if it is no longer there.
MakeWork(p) ==
    /\ At(p, "work")
    /\ LET i == IF There("stage") THEN names["stage"] ELSE FreeInode IN
       /\ names' = [names EXCEPT !["stage"] = i]
       /\ disk' = [disk EXCEPT ![i] = [(IF There("stage") THEN disk[i] ELSE EmptyDir)
                                         EXCEPT !.work = NoTree]]
    /\ Goto(p, "trees")
    /\ UNCHANGED <<lease, owner, restarts, raced, slips>>

AtWork(p, pc) == At(p, pc) /\ There("stage") /\ Dir("stage").work # None

Tree == Dir("stage").work

\* assemble_tree and _normalize_tree_metadata: the locked inputs are placed.
BuildTrees(p) ==
    /\ AtWork(p, "trees")
    /\ \E c \in Contents : Write("stage", [Dir("stage") EXCEPT !.work = [Tree EXCEPT !.is = c]])
    /\ Goto(p, "authorities")
    /\ UNCHANGED <<names, lease, owner, restarts, raced, slips>>

\* _validate_tree_authorities: every file is one the lock, the policy and the
\* closure name, by its digest.
ValidateAuthorities(p) ==
    /\ AtWork(p, "authorities")
    /\ Tree.is \in Lawful
    /\ Goto(p, "freeze")
    /\ UNCHANGED <<disk, names, lease, owner, restarts, raced, slips>>

\* _freeze_trees, then _tree_snapshot: contents, and inode and times of each node.
FreezeTrees(p) ==
    /\ AtWork(p, "freeze")
    /\ proc' = [proc EXCEPT ![p].pc = "policy", ![p].snap = Tree]
    /\ UNCHANGED <<disk, names, lease, owner, restarts, raced, slips>>

\* _validate_runtime_service_policy, the activation graph and the module
\* inventory are observed in the trees as they are now; no other file is
\* compared with the lock again.
ObservePolicy(p) ==
    /\ AtWork(p, "policy")
    /\ Tree.is \in Observable
    /\ Goto(p, "pin")
    /\ UNCHANGED <<disk, names, lease, owner, restarts, raced, slips>>

\* Mutant: the trees are not compared with their snapshots again.
Unchanged_Unchecked(p) == TRUE

\* The tree is the one that was frozen, and nobody touched it since.
Unchanged(p) == Tree = proc[p].snap

\* _pinned_tree, entered.
PinTree(p) ==
    /\ AtWork(p, "pin")
    /\ Unchanged(p)
    /\ Goto(p, "images")
    /\ UNCHANGED <<disk, names, lease, owner, restarts, raced, slips>>

\* mksquashfs and veritysetup read the tree and write the image.
BuildImages(p) ==
    /\ AtWork(p, "images")
    /\ Write("stage", [Dir("stage") EXCEPT !.files["image"] = Tree.is])
    /\ proc' = [proc EXCEPT ![p].pc = "documents", ![p].made = Tree.is]
    /\ UNCHANGED <<names, lease, owner, restarts, raced, slips>>

\* _pinned_tree, left, and _assert_tree_snapshots: the snapshots still hold;
\* the work area is removed and the manifest and the SPDX document, which
\* bind the images just recorded, are written.
WriteDocuments(p) ==
    /\ AtWork(p, "documents")
    /\ Unchanged(p)
    /\ Write("stage", [Dir("stage") EXCEPT !.work = None,
                                           !.files["documents"] = proc[p].made])
    /\ Goto(p, "gate")
    /\ UNCHANGED <<names, lease, owner, restarts, raced, slips>>

\* _local_gate: exactly the bundle's files, the documents bind the images;
\* the owner lock is released on the way out.
LocalGate(p) ==
    /\ At(p, "gate")
    /\ There("stage") /\ Whole(Dir("stage"))
    /\ Digests(Dir("stage")) = BundleOf(proc[p].made)
    /\ proc' = [proc EXCEPT ![p].pc = "present", ![p].gate = Digests(Dir("stage"))]
    /\ owner' = None
    /\ UNCHANGED <<disk, names, lease, restarts, raced, slips>>

\* A bundle already at the destination must be whole, read-only and the same;
\* the stage is then removed and the call returns the existing bundle.
AlreadyThere(p) ==
    /\ At(p, "present")
    /\ There("stage")
    /\ There("dest") /\ Whole(Dir("dest")) /\ ReadOnly(Dir("dest"))
    /\ Digests(Dir("dest")) = proc[p].gate
    /\ Remove(p, "stage", "return")
    /\ UNCHANGED <<disk, names, lease, owner, restarts, raced, slips>>

\* _make_bundle_readonly: the files, through pinned descriptors.
HardenFiles(p) ==
    /\ At(p, "present")
    /\ ~There("dest")
    /\ There("stage") /\ Whole(Dir("stage"))
    /\ Write("stage", [Dir("stage") EXCEPT !.filesRO = TRUE])
    /\ Goto(p, "relocate")
    /\ UNCHANGED <<names, lease, owner, restarts, raced, slips>>

\* _relocate_ready_stage: a stale ready directory must have the exact shape
\* of a bundle; it is removed, then the stage is renamed.
Relocate(p) ==
    /\ At(p, "relocate")
    /\ IF There("ready")
       THEN /\ Whole(Dir("ready"))
            /\ Remove(p, "ready", "relocate")
            /\ UNCHANGED names
       ELSE /\ There("stage")
            /\ names' = [names EXCEPT !["ready"] = names["stage"], !["stage"] = 0]
            /\ proc' = [proc EXCEPT ![p].pc = "seal", ![p].root = "ready"]
    /\ UNCHANGED <<disk, lease, owner, restarts, raced, slips>>

\* _make_bundle_directory_readonly.
SealDirectory(p) ==
    /\ At(p, "seal")
    /\ There("ready")
    /\ Write("ready", [Dir("ready") EXCEPT !.dirRO = TRUE])
    /\ Goto(p, "validate")
    /\ UNCHANGED <<names, lease, owner, restarts, raced, slips>>

Validated(p) ==
    /\ There("ready")
    /\ Whole(Dir("ready")) /\ ReadOnly(Dir("ready"))
    /\ Digests(Dir("ready")) = proc[p].gate

\* The destination must not have appeared, and _pinned_bundle_files checks
\* the ready bundle against the gate before publish() runs.
Validate(p) ==
    /\ At(p, "validate")
    /\ ~There("dest")
    /\ Validated(p)
    /\ Goto(p, "publish")
    /\ UNCHANGED <<disk, names, lease, owner, restarts, raced, slips>>

\* publish: the one rename that makes the bundle visible; the lease goes last.
Publish(p) ==
    /\ At(p, "publish")
    /\ There("ready") /\ ~There("dest")
    /\ names' = [names EXCEPT !["dest"] = names["ready"], !["ready"] = 0]
    /\ proc' = [proc EXCEPT ![p].pc = "return", ![p].root = None]
    /\ UNCHANGED <<disk, lease, owner, restarts, raced, slips>>

Return(p) ==
    /\ At(p, "return")
    /\ lease' = None
    /\ proc' = [proc EXCEPT ![p] = [Fresh EXCEPT !.pc = "done"]]
    /\ UNCHANGED <<disk, names, owner, restarts, raced, slips>>

UnderLease == {"prepare", "own", "work", "trees", "authorities", "freeze", "policy", "pin",
               "images", "documents", "gate", "present", "relocate", "seal", "validate", "publish"}

\* Any step may raise (a guard above that does not hold is such a case, and
\* so is a removal that fails): the contexts release the owner lock and the
\* lease, and only then does `finally` remove what `stage_root` names.
Unwind(p) ==
    /\ owner' = IF owner = p THEN None ELSE owner
    /\ lease' = IF lease = p THEN None ELSE lease
    /\ proc' = [proc EXCEPT ![p] =
                  [Fresh EXCEPT !.pc = IF proc[p].root = None THEN "failed" ELSE "cleanup",
                                !.root = proc[p].root]]

Fail(p) ==
    /\ \/ proc[p].pc \in UnderLease
       \/ proc[p].pc \in {"unlock", "open", "unlink", "rmdir"} /\ proc[p].after # "failed"
    /\ Unwind(p)
    /\ UNCHANGED <<disk, names, restarts, raced, slips>>

\* _remove_stage_quietly.
Cleanup(p) ==
    /\ At(p, "cleanup")
    /\ IF There(proc[p].root) THEN Remove(p, proc[p].root, "failed") ELSE Goto(p, "failed")
    /\ UNCHANGED <<disk, names, lease, owner, restarts, raced, slips>>

Races(p) == raced' = (raced \/ (proc[p].after = "failed" /\ lease \notin {None, p}))

\* _remove_tree, first pass: everything is made writable, by path.
Unlock(p) ==
    /\ At(p, "unlock")
    /\ There(proc[p].path)
    /\ Write(proc[p].path, [Dir(proc[p].path) EXCEPT !.filesRO = FALSE, !.dirRO = FALSE])
    /\ Goto(p, "open")
    /\ Races(p)
    /\ UNCHANGED <<names, lease, owner, restarts, slips>>

\* shutil.rmtree opens the directory and works on the descriptor.
OpenTree(p) ==
    /\ At(p, "open")
    /\ There(proc[p].path)
    /\ proc' = [proc EXCEPT ![p].pc = "unlink", ![p].fd = names[proc[p].path]]
    /\ Races(p)
    /\ UNCHANGED <<disk, names, lease, owner, restarts, slips>>

Entries(d) == {f \in BUNDLE_FILES : d.files[f] # None} \cup {f \in {"work"} : d.work # None}

Unlink(p) ==
    /\ At(p, "unlink")
    /\ LET d == disk[proc[p].fd] IN
       IF Entries(d) = {}
       THEN Goto(p, "rmdir") /\ UNCHANGED disk
       ELSE /\ ~d.dirRO
            /\ \E e \in Entries(d) :
                 disk' = [disk EXCEPT ![proc[p].fd] =
                            IF e = "work" THEN [d EXCEPT !.work = None]
                                          ELSE [d EXCEPT !.files[e] = None]]
            /\ UNCHANGED proc
    /\ Races(p)
    /\ UNCHANGED <<names, lease, owner, restarts, slips>>

Rmdir(p) ==
    /\ At(p, "rmdir")
    /\ names[proc[p].path] = proc[p].fd
    /\ Entries(disk[proc[p].fd]) = {}
    /\ names' = [names EXCEPT ![proc[p].path] = 0]
    /\ proc' = [proc EXCEPT ![p].pc = proc[p].after, ![p].path = None, ![p].fd = 0,
                            ![p].root = IF proc[p].after = "return" THEN None ELSE @]
    /\ Races(p)
    /\ UNCHANGED <<disk, lease, owner, restarts, slips>>

\* A quiet removal that runs into an error just stops.
GiveUp(p) ==
    /\ proc[p].pc \in {"unlock", "open", "unlink", "rmdir"}
    /\ proc[p].after = "failed"
    /\ proc' = [proc EXCEPT ![p] = [Fresh EXCEPT !.pc = "failed"]]
    /\ UNCHANGED <<disk, names, lease, owner, restarts, raced, slips>>

\* A crash (external): the kernel drops the locks, nothing is cleaned up.
Crash(p) ==
    /\ proc[p].pc \notin {"start", "done", "failed"}
    /\ restarts < MaxRestarts
    /\ restarts' = restarts + 1
    /\ owner' = IF owner = p THEN None ELSE owner
    /\ lease' = IF lease = p THEN None ELSE lease
    /\ proc' = [proc EXCEPT ![p] = Fresh]
    /\ UNCHANGED <<disk, names, raced, slips>>

\* Assembly of the address is asked for again (external).
Again(p) ==
    /\ proc[p].pc \in {"done", "failed"}
    /\ restarts < MaxRestarts
    /\ restarts' = restarts + 1
    /\ proc' = [proc EXCEPT ![p] = Fresh]
    /\ UNCHANGED <<disk, names, lease, owner, raced, slips>>

\* Somebody edits the tree in the work area, or makes an edit and undoes it
\* (external); its times tell.
Edit(c) ==
    /\ There("stage") /\ Dir("stage").work # None
    /\ restarts < MaxRestarts
    /\ restarts' = restarts + 1
    /\ Write("stage", [Dir("stage") EXCEPT !.work = [is |-> c, edits |-> Tree.edits + 1]])
    /\ slips' = IF \E p \in Procs : At(p, "freeze") THEN slips \cup {c} ELSE slips
    /\ UNCHANGED <<names, lease, owner, proc, raced>>

Next ==
  \/ \E c \in Contents : Edit(c)
  \/ \E p \in Procs :
        \/ AcquireLease(p) \/ PrepareStage(p) \/ OwnStage(p) \/ MakeWork(p)
        \/ BuildTrees(p) \/ ValidateAuthorities(p) \/ FreezeTrees(p)
        \/ ObservePolicy(p) \/ PinTree(p)
        \/ BuildImages(p) \/ WriteDocuments(p) \/ LocalGate(p) \/ AlreadyThere(p)
        \/ HardenFiles(p) \/ Relocate(p) \/ SealDirectory(p) \/ Validate(p)
        \/ Publish(p) \/ Return(p) \/ Fail(p) \/ Cleanup(p) \/ Unlock(p)
        \/ OpenTree(p) \/ Unlink(p) \/ Rmdir(p) \/ GiveUp(p) \/ Crash(p) \/ Again(p)

Spec == Init /\ [][Next]_avars

-----------------------------------------------------------------------------

\* What assemble() exposes at the address is one whole read-only bundle of a
\* single build, whatever failed or crashed attempts left behind and whoever
\* comes next, of trees whose policy, graph and modules are allowed.  All of
\* their files are the authorities' too, unless somebody changed a tree
\* between the check of its files and its snapshot.  The other exception is a
\* failed attempt's cleanup that overlapped somebody else's lease (see
\* HolderKeepsItsStage).
ExposedIsWhole ==
    (There("dest") /\ ~raced) =>
        /\ Whole(Dir("dest")) /\ ReadOnly(Dir("dest"))
        /\ \E c \in Lawful \cup (Observable \cap slips) : Digests(Dir("dest")) = BundleOf(c)

\* A process that holds the address lease keeps the stage it made: nobody
\* removes it while its owner is at work.  The code's cleanup after a failure
\* runs when the lease has been given back, so this does not hold.
HolderKeepsItsStage ==
    \A p \in Procs : (lease = p /\ proc[p].root # None /\ proc[p].pc \in UnderLease)
                        => There(proc[p].root)
=============================================================================
