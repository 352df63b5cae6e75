---------------------------- MODULE RuntimeStage ----------------------------
(***************************************************************************)
(* Staging the diagnostic runtime (conf_proc_spp_diag_runtime_build.py)    *)
(* under the hermetic guard's pinned reads (conf_proc_guard.py) and the    *)
(* closure audit (conf_proc_spp_diag_closure_audit.py).                    *)
(*                                                                         *)
(* A call of stage_runtime pins the inodes of its sources, reads them      *)
(* against their declared digests, writes a staging tree, reads it back,   *)
(* audits what its entry points reach, rechecks the pins and publishes the *)
(* tree by a rename that replaces nothing.  bind_image and                 *)
(* finalize_command_line publish one file the same way.  Calls for one     *)
(* destination run together; sources are edited in place or replaced under *)
(* their path meanwhile; any call to the file system may fail, and a call  *)
(* may be killed.                                                          *)
(*                                                                         *)
(* A file's text is a version number: 1 is the one the calls declare.      *)
(***************************************************************************)
EXTENDS Naturals, FiniteSets

CONSTANTS Calls,
          Orders,     \* what a call may be called with
          Sources,    \* declared reads, one per staged file
          Edges,      \* file -> files of the tree it needs
          Outside,    \* file -> names outside the tree it needs
          Stale,      \* sources whose text is not the declared one to begin with
          MaxEvents,  \* bound: edits, replacements, kills
          None

VARIABLES path,       \* source -> the inode its path leads to
          inode,      \* inode -> [text, ident]
          dest,       \* destination -> what is published there, or None
          staging,    \* call -> its staging tree or file, or None
          proc,
          events,
          met         \* history: call -> all its sources were as declared at once

rvars == <<path, inode, dest, staging, proc, events, met>>

Inodes == 1 .. (Cardinality(Sources) + MaxEvents)
Dests == {o.dest : o \in Orders}

Fresh == [pc |-> "start", order |-> None, pins |-> {}, done |-> {}]

Init ==
    /\ path = CHOOSE f \in [Sources -> 1 .. Cardinality(Sources)] :
                  \A s, t \in Sources : f[s] = f[t] => s = t
    /\ inode = [i \in Inodes |->
                  [text |-> IF \E s \in Stale : path[s] = i THEN 2 ELSE 1, ident |-> 0]]
    /\ dest = [d \in Dests |-> None]
    /\ staging = [c \in Calls |-> None]
    /\ proc = [c \in Calls |-> Fresh]
    /\ events = 0
    /\ met = [c \in Calls |-> FALSE]

At(c, pc) == proc[c].pc = pc
Goto(c, pc) == proc' = [proc EXCEPT ![c].pc = pc, ![c].done = {}]
Order(c) == proc[c].order
Needs(c) == Order(c).files

------------------------------- (* the tree *) ------------------------------

\* _validate_stage_inputs: every source is a declared read of the guard and
\* nothing is at the destination.
Validate(c, o) ==
    /\ At(c, "start") /\ o.kind = "tree"
    /\ proc' = [proc EXCEPT ![c].order = o,
                            ![c].pc = IF dest[o.dest] = None /\ o.files \subseteq o.allowed
                                      THEN "pin" ELSE "failed"]
    /\ met' = [met EXCEPT ![c] = \A s \in o.files : inode[path[s]].text = 1]
    /\ UNCHANGED <<path, inode, dest, staging, events>>

\* A pin: the inode the path leads to now, its identity and its digest.
PinOf(s) == [source |-> s, inode |-> path[s], was |-> inode[path[s]]]

PinReads(c, s) ==
    /\ At(c, "pin") /\ s \in Needs(c) \ proc[c].done
    /\ LET done == proc[c].done \cup {s} IN
       proc' = [proc EXCEPT ![c].pins = @ \cup {PinOf(s)},
                            ![c].done = IF done = Needs(c) THEN {} ELSE done,
                            ![c].pc = IF done = Needs(c) THEN "read" ELSE "pin"]
    /\ UNCHANGED <<path, inode, dest, staging, events, met>>

\* guard.read_bytes goes to the pinned inode, whatever the path leads to now.
ReadBytes(c, pin) == inode[pin.inode].text

\* The text that will be written is the one read here.
ReadSource(c, pin) ==
    /\ At(c, "read") /\ pin \in proc[c].pins /\ pin.source \notin proc[c].done
    /\ LET done == proc[c].done \cup {pin.source} IN
       IF ReadBytes(c, pin) # 1 THEN Goto(c, "failed")
       ELSE IF done = Needs(c) THEN Goto(c, "stage")
            ELSE proc' = [proc EXCEPT ![c].done = done]
    /\ UNCHANGED <<path, inode, dest, staging, events, met>>

\* mkdir, then the files one by one read-only, each fsynced.
MakeStaging(c) ==
    /\ At(c, "stage")
    /\ staging' = [staging EXCEPT ![c] = [by |-> c, files |-> {}, torn |-> FALSE]]
    /\ Goto(c, "write")
    /\ UNCHANGED <<path, inode, dest, events, met>>

WriteStagedFile(c, s) ==
    /\ At(c, "write") /\ s \in Needs(c) \ staging[c].files
    /\ \/ /\ staging' = [staging EXCEPT ![c].files = @ \cup {s}]
          /\ Goto(c, IF staging[c].files \cup {s} = Needs(c) THEN "reopen" ELSE "write")
       \/ /\ staging' = [staging EXCEPT ![c].torn = TRUE]
          /\ Goto(c, "cleanup")
    /\ UNCHANGED <<path, inode, dest, events, met>>

Reopen(c) ==
    /\ At(c, "reopen")
    /\ Goto(c, IF ~staging[c].torn /\ staging[c].files = Needs(c) THEN "audit" ELSE "cleanup")
    /\ UNCHANGED <<path, inode, dest, staging, events, met>>

\* The work list of the auditor: files of the tree reached from the entry
\* points, an edge to a file that is not there being an outside one.
Reachable(files, entry) ==
    LET R[i \in 0 .. Cardinality(files)] ==
          IF i = 0 THEN entry
          ELSE R[i - 1] \cup UNION {Edges[f] \cap files : f \in R[i - 1]}
    IN R[Cardinality(files)]

External(files, nodes) == UNION {Outside[f] \cup (Edges[f] \ files) : f \in nodes}

\* Mutant: only what the entry points themselves need is looked at.
AuditClosure_Shallow(files, entry) == entry

AuditClosure(files, entry) == Reachable(files, entry)

ClosureAllowed(c, files) ==
    /\ Order(c).entry \subseteq files
    /\ External(files, AuditClosure(files, Order(c).entry)) \subseteq Order(c).outside

Audit(c) ==
    /\ At(c, "audit")
    /\ Goto(c, IF ClosureAllowed(c, staging[c].files) THEN "unpin" ELSE "cleanup")
    /\ UNCHANGED <<path, inode, dest, staging, events, met>>

\* Mutant: leaving the context only closes the descriptors.
PinHolds_Always(pin) == TRUE

\* The inode was not written to and the path still leads to it.
PinHolds(pin) == inode[pin.inode] = pin.was /\ path[pin.source] = pin.inode

Unpin(c, pin) ==
    /\ At(c, "unpin") /\ pin \in proc[c].pins
    /\ IF ~PinHolds(pin) THEN Goto(c, "cleanup")
       ELSE proc' = [proc EXCEPT ![c].pins = @ \ {pin},
                                 ![c].pc = IF proc[c].pins = {pin} THEN "publish" ELSE "unpin"]
    /\ UNCHANGED <<path, inode, dest, staging, events, met>>

----------------------------- (* publishing *) ------------------------------

\* One file: bind_image and finalize_command_line check their inputs, then
\* the sibling file is written, read back and published.
WriteFile(c, o) ==
    /\ At(c, "start") /\ o.kind = "file"
    /\ \/ /\ dest[o.dest] # None \/ ~o.fits
          /\ proc' = [proc EXCEPT ![c].order = o, ![c].pc = "failed"]
          /\ UNCHANGED staging
       \/ /\ dest[o.dest] = None /\ o.fits
          /\ \E torn \in BOOLEAN :
               /\ staging' = [staging EXCEPT ![c] = [by |-> c, files |-> {}, torn |-> torn]]
               /\ proc' = [proc EXCEPT ![c].order = o,
                                       ![c].pc = IF torn THEN "cleanup" ELSE "publish"]
    /\ met' = [met EXCEPT ![c] = TRUE]
    /\ UNCHANGED <<path, inode, dest, events>>

\* Mutant: a plain rename, which replaces.
Taken_Never(d) == FALSE

Taken(d) == dest[d] # None

RenameNoReplace(c) ==
    /\ At(c, "publish")
    /\ IF Taken(Order(c).dest)
       THEN /\ Goto(c, "cleanup")
            /\ UNCHANGED <<dest, staging>>
       ELSE /\ dest' = [dest EXCEPT ![Order(c).dest] = staging[c]]
            /\ staging' = [staging EXCEPT ![c] = None]
            /\ Goto(c, "fsync")
    /\ UNCHANGED <<path, inode, events, met>>

\* The parent's fsync: where it fails, a file is taken back if it is still the
\* caller's and the removal does not fail too; otherwise, and for a tree, the
\* output is kept although the call raises.
FsyncParent(c) ==
    /\ At(c, "fsync")
    /\ \/ Goto(c, "done") /\ UNCHANGED dest
       \/ /\ Order(c).kind = "file"
          /\ Goto(c, "failed")
          /\ dest' = [dest EXCEPT ![Order(c).dest] = IF @.by = c THEN None ELSE @]
       \/ Goto(c, "kept") /\ UNCHANGED dest
    /\ UNCHANGED <<path, inode, staging, events, met>>

\* The system refuses: no staging yet, or staging to be cleaned up.
Refused(c) ==
    /\ \/ proc[c].pc \in {"pin", "read", "stage"} /\ Goto(c, "failed")
       \/ proc[c].pc \in {"reopen", "audit", "unpin", "publish"} /\ Goto(c, "cleanup")
    /\ UNCHANGED <<path, inode, dest, staging, events, met>>

\* rmtree or unlink, which may raise with some of it removed.
CleanupStaging(c) ==
    /\ At(c, "cleanup")
    /\ \/ staging' = [staging EXCEPT ![c] = None] /\ Goto(c, "failed")
       \/ \E rest \in SUBSET staging[c].files :
             staging' = [staging EXCEPT ![c].files = rest] /\ Goto(c, "littered")
    /\ UNCHANGED <<path, inode, dest, events, met>>

Call(c) ==
    \/ \E o \in Orders : Validate(c, o) \/ WriteFile(c, o)
    \/ \E s \in Sources : PinReads(c, s) \/ WriteStagedFile(c, s)
    \/ \E pin \in proc[c].pins : ReadSource(c, pin) \/ Unpin(c, pin)
    \/ MakeStaging(c) \/ Reopen(c) \/ Audit(c)
    \/ RenameNoReplace(c) \/ FsyncParent(c) \/ Refused(c) \/ CleanupStaging(c)

--------------------------- (* the surroundings *) --------------------------

Notice == met' = [c \in Calls |->
              met[c] \/ (proc[c].pc # "start"
                         /\ \A s \in Needs(c) : inode'[path'[s]].text = 1)]

\* A source is written in place, or another file is renamed over its path.
Edit(s) ==
    /\ events < MaxEvents /\ events' = events + 1
    /\ inode' = [inode EXCEPT ![path[s]] = [text |-> 3 - @.text, ident |-> @.ident + 1]]
    /\ UNCHANGED path
    /\ Notice
    /\ UNCHANGED <<dest, staging, proc>>

Replace(s) ==
    /\ events < MaxEvents /\ events' = events + 1
    /\ path' = [path EXCEPT ![s] = Cardinality(Sources) + events']
    /\ \E text \in {1, 2} : inode' = [inode EXCEPT ![path'[s]].text = text]
    /\ Notice
    /\ UNCHANGED <<dest, staging, proc>>

Kill(c) ==
    /\ events < MaxEvents /\ events' = events + 1
    /\ proc[c].pc \notin {"start", "done", "kept", "failed", "littered", "killed"}
    /\ Goto(c, "killed")
    /\ UNCHANGED <<path, inode, dest, staging, met>>

Next ==
    \/ \E c \in Calls : Call(c) \/ Kill(c)
    \/ \E s \in Sources : Edit(s) \/ Replace(s)

(* Whatever is at a destination is one call's whole output, closed under what
   its entry points reach and made of sources that were all as declared at one
   instant; a call that returned finds its own output there for good; a call
   that raised left no output, except one whose parent could not be synced after
   the rename and that was not taken back ("kept"), and no staging, except where
   its cleanup itself failed ("littered"). *)
PublishedOrAbsent ==
    /\ \A d \in Dests : dest[d] # None =>
         LET c == dest[d].by IN
         /\ ~dest[d].torn /\ dest[d].files = Needs(c) /\ met[c]
         /\ \A f \in Needs(c) :
              (f \in Reachable(Needs(c), Order(c).entry)) =>
                  (Outside[f] \cup (Edges[f] \ Needs(c))) \subseteq Order(c).outside
    /\ \A c \in Calls : proc[c].order # None =>
         /\ proc[c].pc \in {"done", "kept"} =>
                dest[Order(c).dest] # None /\ dest[Order(c).dest].by = c
         /\ proc[c].pc \in {"failed", "littered"} =>
                dest[Order(c).dest] = None \/ dest[Order(c).dest].by # c
         /\ proc[c].pc \in {"done", "kept", "failed"} => staging[c] = None

=============================================================================
