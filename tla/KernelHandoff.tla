--------------------------- MODULE KernelHandoff ----------------------------
(***************************************************************************)
(* Staging the trace core onto a kernel worktree and handing it to the     *)
(* build: conf_proc_spp_diag_trace_core_manifest.py, ..._materialize.py    *)
(* and ..._handoff.py.                                                     *)
(*                                                                         *)
(* A run captures three config fragments, checks that the worktree is a    *)
(* clean checkout of the base commit, writes every new and every edited    *)
(* file beside its destination, renames them one by one and, where a step  *)
(* fails, rolls back.  It then configures and builds three kernels (trace  *)
(* core with bootstrap, without, and with the runtime) and removes the     *)
(* certificates the build needed.  Any file operation and any tool may     *)
(* fail, the run may be killed and started again, and the repository the   *)
(* inputs come from may be edited meanwhile.                               *)
(*                                                                         *)
(* A text is the sequence of edits that made it, and a digest the text.    *)
(***************************************************************************)
EXTENDS Naturals, Sequences, FiniteSets, Functions, TLC

CONSTANTS Creates,    \* destinations of the new files, in a directory of their own
          Manifests,  \* sequences of [dest, edit, pre, post]: what may be asked for
          Exports,    \* configurations the annotations tool may export
          MaxEvents   \* bound: failures, kills, edits of the repository

VARIABLES repo,       \* input -> its text; 1 is the manifested one
          tree,       \* existing file of the worktree -> its text
          temps,      \* destination -> what lies beside it under the temporary name
          newdir,     \* the new files' directory is there
          wt,         \* [head, staged]: what git knows besides the files
          certs,      \* generated certificates that are there
          outs,       \* leg -> [config, kernel]
          proc, events

hvars == <<repo, tree, temps, newdir, wt, certs, outs, proc, events>>

Legs == <<"enabled", "disabled", "runtime">>
Certs == {"canonical-certs", "canonical-revoked-certs"}
Nothing == <<>>
Inputs == {Creates[i] : i \in 1 .. Len(Creates)} \cup {Legs[i] : i \in 1 .. 3}
Edited == UNION {{m[i].dest : i \in 1 .. Len(m)} : m \in Manifests}
Base == [f \in Edited |-> <<>>]

Fragment(leg) == CASE leg = "enabled" -> {"core", "bootstrap"}
                   [] leg = "disabled" -> {"core"}
                   [] leg = "runtime" -> {"core", "bootstrap", "runtime"}

\* applied: the renames are done; excused: a failure struck where nothing undoes it.
Fresh == [pc |-> "idle", k |-> 1, manifest |-> <<>>, export |-> {}, renamed |-> {},
          applied |-> FALSE, excused |-> FALSE, before |-> <<>>]

Init ==
    /\ repo = [i \in Inputs |-> 1]
    /\ tree = Base /\ temps = Nothing /\ newdir = FALSE
    /\ wt = [head |-> TRUE, staged |-> FALSE]
    /\ certs = {}
    /\ outs = [i \in 1 .. 3 |-> [config |-> {}, kernel |-> {}]]
    /\ proc = Fresh
    /\ events = 0

Goto(pc) == proc' = [proc EXCEPT !.pc = pc, !.k = 1]
Failing == events < MaxEvents /\ events' = events + 1
Trees == <<tree, temps, newdir>>
Rest == <<repo, wt>>

---------------------------- (* before the tree *) --------------------------

\* parse_core_manifest, _validate_output_dirs (the directories are empty again
\* for every run) and the guard.
Start(m) ==
    /\ proc.pc = "idle"
    /\ proc' = [Fresh EXCEPT !.pc = "capture", !.manifest = m,
                             !.before = <<tree, DOMAIN temps, certs, newdir>>]
    /\ outs' = [i \in 1 .. 3 |-> [config |-> {}, kernel |-> {}]]
    /\ UNCHANGED <<Trees, Rest, certs, events>>

CaptureFragment ==
    /\ proc.pc = "capture"
    /\ IF repo[Legs[proc.k]] # 1 THEN Goto("failed")
       ELSE IF proc.k < 3 THEN proc' = [proc EXCEPT !.k = @ + 1]
            ELSE Goto("preflight_git")
    /\ UNCHANGED <<Trees, Rest, certs, outs, events>>

\* What the six git probes tell: HEAD, the index, changed and untracked files.
Unstaged == \E f \in Edited : tree[f] # Base[f]
Untracked == temps # Nothing \/ DOMAIN tree # Edited

\* A guarded tool: its digest is checked, it runs, it may fail either way.
RunTool(fine, next) ==
    \/ Goto(IF fine THEN next ELSE "failed") /\ UNCHANGED events
    \/ Goto("failed") /\ Failing

PreflightGit ==
    /\ proc.pc = "preflight_git"
    /\ RunTool(wt.head /\ ~wt.staged /\ ~Unstaged /\ ~Untracked, "preflight_inputs")
    /\ UNCHANGED <<Trees, Rest, certs, outs>>

PreflightInputs ==
    /\ proc.pc = "preflight_inputs"
    /\ Goto(IF \A i \in Inputs : repo[i] = 1 THEN "preflight_destinations" ELSE "failed")
    /\ UNCHANGED <<Trees, Rest, certs, outs, events>>

\* An edit may be made where its text is as declared and is not there already.
Postimage(text, r) == Append(text, r.edit)
Validated(text, r) ==
    /\ \A i \in 1 .. Len(text) : text[i] # r.edit
    /\ text = r.pre
    /\ Postimage(text, r) = r.post

\* The edits of one destination in the manifest's order, each upon the last.
ReplaceImages(m, dest) ==
    LET group == SelectSeq(m, LAMBDA r : r.dest = dest)
        Image[i \in 0 .. Len(group)] ==
            IF i = 0 THEN [ok |-> TRUE, text |-> tree[dest]]
            ELSE [ok |-> Image[i - 1].ok /\ Validated(Image[i - 1].text, group[i]),
                  text |-> Postimage(Image[i - 1].text, group[i])]
    IN Image[Len(group)]
Replaced(m) == {m[i].dest : i \in 1 .. Len(m)}
NoneThere(paths) == \A i \in 1 .. Len(paths) : paths[i] \notin DOMAIN tree

PreflightDestinations ==
    /\ proc.pc = "preflight_destinations"
    /\ Goto(IF /\ NoneThere(Creates)
               /\ \A d \in Replaced(proc.manifest) : ReplaceImages(proc.manifest, d).ok
            THEN "plan" ELSE "failed")
    /\ UNCHANGED <<Trees, Rest, certs, outs, events>>

------------------------------ (* applying *) -------------------------------

\* The sources are read again, and the edits validated again.
Plan ==
    /\ proc.pc = "plan"
    /\ Goto(IF /\ \A i \in 1 .. Len(Creates) : repo[Creates[i]] = 1
               /\ \A d \in Replaced(proc.manifest) : ReplaceImages(proc.manifest, d).ok
            THEN "write" ELSE "failed")
    /\ UNCHANGED <<Trees, Rest, certs, outs, events>>

Destinations(m) == Creates \o
    [i \in 1 .. Cardinality(Replaced(m)) |->
        LET first(d) == CHOOSE j \in 1 .. Len(m) :
                            m[j].dest = d /\ \A l \in 1 .. j - 1 : m[l].dest # d
        IN CHOOSE d \in Replaced(m) :
               Cardinality({e \in Replaced(m) : first(e) <= first(d)}) = i]
Here == Destinations(proc.manifest)[proc.k]
Last == proc.k = Len(Destinations(proc.manifest))
Image(d) == IF d \in Replaced(proc.manifest) THEN ReplaceImages(proc.manifest, d).text
            ELSE <<"new">>
Step(next) == IF Last THEN Goto(next) ELSE proc' = [proc EXCEPT !.k = @ + 1]

\* The file beside its destination, its directory first.  A failure half way
\* leaves what this step had made: it is not yet in the list to undo.
WriteTemp ==
    /\ proc.pc = "write"
    /\ \/ /\ temps' = temps @@ (Here :> Image(Here))
          /\ newdir' = (newdir \/ proc.k <= Len(Creates))
          /\ Step("rename")
          /\ UNCHANGED events
       \/ /\ Failing
          /\ \E torn \in BOOLEAN :
               /\ temps' = IF torn THEN temps @@ (Here :> <<"torn">>) ELSE temps
               /\ newdir' = (newdir \/ (torn /\ proc.k <= Len(Creates)))
               /\ proc' = [proc EXCEPT !.pc = "rollback", !.excused = torn]
    /\ UNCHANGED <<tree, Rest, certs, outs>>

RenameTemp ==
    /\ proc.pc = "rename"
    /\ \/ /\ tree' = (Here :> temps[Here]) @@ tree
          /\ temps' = Restrict(temps, DOMAIN temps \ {Here})
          /\ IF Last THEN proc' = [proc EXCEPT !.pc = "export", !.k = 1, !.applied = TRUE]
             ELSE proc' = [proc EXCEPT !.k = @ + 1, !.renamed = @ \cup {Here}]
          /\ UNCHANGED events
       \/ Failing /\ Goto("rollback") /\ UNCHANGED <<tree, temps>>
    /\ UNCHANGED <<newdir, Rest, certs, outs>>

\* Mutant: only the new files are taken back.
Undone_Creates(f) == f \in {Creates[i] : i \in 1 .. Len(Creates)}

Undone(f) == f \in proc.renamed

\* Temporary files, edited files, new files, directories; where one of these
\* fails the next is tried all the same.
Rollback ==
    /\ proc.pc = "rollback"
    /\ \E stuck \in SUBSET (DOMAIN temps \cup proc.renamed) :
         LET back == {f \in proc.renamed \ stuck : Undone(f)} IN
         /\ stuck # {} => Failing
         /\ stuck = {} => UNCHANGED events
         /\ tree' = [f \in DOMAIN tree \ (back \ Edited) |->
                        IF f \in back THEN Base[f] ELSE tree[f]]
         /\ temps' = Restrict(temps, {f \in DOMAIN temps : f \in stuck \/ temps[f] = <<"torn">>})
         /\ newdir' = (newdir /\ ((DOMAIN tree' \cup DOMAIN temps') \ Edited # {}))
         /\ proc' = [proc EXCEPT !.pc = "failed", !.excused = @ \/ stuck # {}]
    /\ UNCHANGED <<Rest, certs, outs>>

------------------------------- (* building *) ------------------------------

Export ==
    /\ proc.pc = "export"
    /\ \/ \E e \in Exports : /\ proc' = [proc EXCEPT !.pc = "config", !.k = 1, !.export = e]
                             /\ UNCHANGED events
       \/ Failing /\ Goto("failed")
    /\ UNCHANGED <<Trees, Rest, certs, outs>>

ConfigValid(leg, y) == Fragment(leg) \cup {"ima"} \subseteq y /\ "static_helper" \notin y

\* Merge, olddefconfig (which may drop what depends on something absent), check.
PrepareConfig ==
    /\ proc.pc = "config"
    /\ \E dropped \in {{}} \cup {{s} : s \in Fragment(Legs[proc.k])} :
         LET y == (proc.export \cup Fragment(Legs[proc.k])) \ dropped IN
         /\ outs' = [outs EXCEPT ![proc.k].config = y]
         /\ IF dropped = {} THEN UNCHANGED events ELSE Failing
         /\ IF ~ConfigValid(Legs[proc.k], y) THEN Goto("failed")
            ELSE IF proc.k < 3 THEN proc' = [proc EXCEPT !.k = @ + 1]
                 ELSE Goto("certificates")
    /\ UNCHANGED <<Trees, Rest, certs>>

\* Refused where one is there already; a failing make may leave some.
Certificates ==
    /\ proc.pc = "certificates"
    /\ \/ certs # {} /\ Goto("failed") /\ UNCHANGED <<certs, events>>
       \/ certs = {} /\ certs' = Certs /\ Goto("build") /\ UNCHANGED events
       \/ certs = {} /\ Failing /\ certs' \in SUBSET Certs /\ Goto("uncertify_failed")
    /\ UNCHANGED <<Trees, Rest, outs>>

\* Mutant: what must not be in the kernel without bootstrap is not looked for.
SymbolsFit_Present(leg, symbols) == Fragment(leg) \subseteq symbols

\* nm on the final vmlinux: what the leg must have and what it must not.
SymbolsFit(leg, symbols) == symbols \cap {"core", "bootstrap", "runtime"} = Fragment(leg)

\* The kernel: the tree it is made from and what its configuration selects.
Kernel(leg) == [of |-> tree, symbols |-> outs[proc.k].config]

Build ==
    /\ proc.pc = "build"
    /\ LET leg == Legs[proc.k] IN
       \/ /\ outs' = [outs EXCEPT ![proc.k].kernel = {Kernel(leg)}]
          /\ IF ~SymbolsFit(leg, Kernel(leg).symbols) THEN Goto("uncertify_failed")
             ELSE IF proc.k < 3 THEN proc' = [proc EXCEPT !.k = @ + 1]
                  ELSE Goto("uncertify")
          /\ UNCHANGED events
       \/ Failing /\ Goto("uncertify_failed") /\ UNCHANGED outs
    /\ UNCHANGED <<Trees, Rest, certs>>

\* The finally clause: a file that cannot be removed keeps the others too.
Uncertify ==
    /\ proc.pc \in {"uncertify", "uncertify_failed"}
    /\ \/ /\ certs' = {}
          /\ Goto(IF proc.pc = "uncertify" THEN "done" ELSE "failed")
          /\ UNCHANGED events
       \/ /\ Failing
          /\ certs' \in SUBSET certs \ {{}}
          /\ proc' = [proc EXCEPT !.pc = "failed", !.excused = TRUE]
    /\ UNCHANGED <<Trees, Rest, outs>>

---------------------------- (* the surroundings *) -------------------------

Again == /\ proc.pc \in {"failed", "killed", "done"} /\ proc' = Fresh
         /\ UNCHANGED <<Trees, Rest, certs, outs, events>>

Kill == /\ proc.pc \notin {"idle", "failed", "killed", "done"}
        /\ Failing /\ Goto("killed")
        /\ UNCHANGED <<Trees, Rest, certs, outs>>

EditInput(i) == /\ Failing /\ repo' = [repo EXCEPT ![i] = 3 - @]
                /\ UNCHANGED <<Trees, wt, certs, outs, proc>>

Disturb(k) == /\ proc.pc = "idle" /\ Failing /\ wt' = [wt EXCEPT ![k] = ~@]
              /\ UNCHANGED <<Trees, repo, certs, outs, proc>>

Next ==
    \/ \E m \in Manifests : Start(m)
    \/ CaptureFragment \/ PreflightGit \/ PreflightInputs \/ PreflightDestinations
    \/ Plan \/ WriteTemp \/ RenameTemp \/ Rollback
    \/ Export \/ PrepareConfig \/ Certificates \/ Build \/ Uncertify
    \/ Again \/ Kill
    \/ \E i \in Inputs : EditInput(i)
    \/ \E k \in DOMAIN wt : Disturb(k)

------------------------------ (* correctness *) ----------------------------

\* The base with every edit of the manifest and every new file, once.
Patched(m) == [f \in DOMAIN Base \cup {Creates[i] : i \in 1 .. Len(Creates)} |->
                  IF f \in Edited
                  THEN LET group == SelectSeq(m, LAMBDA r : r.dest = f)
                       IN [i \in 1 .. Len(group) |-> group[i].edit]
                  ELSE <<"new">>]

(* A run that did not get as far as applying leaves the worktree as it found
   it, unless undoing itself failed; a run that returned, whatever runs failed
   or were killed before it, has applied the manifest to the base commit
   exactly once, built all three kernels from that tree, each with just the
   part of the trace core its leg is for, and left no certificate behind. *)
HandoffExact ==
    /\ proc.pc = "failed" /\ ~proc.applied /\ ~proc.excused =>
           <<tree, DOMAIN temps, certs, newdir>> = proc.before
    /\ proc.pc = "failed" /\ proc.applied /\ ~proc.excused => certs \subseteq proc.before[3]
    /\ proc.pc = "done" =>
           /\ tree = Patched(proc.manifest) /\ temps = Nothing /\ certs = {}
           /\ \A i \in 1 .. 3 : \E kernel \in outs[i].kernel :
                 /\ kernel.of = tree
                 /\ kernel.symbols \cap {"core", "bootstrap", "runtime"} = Fragment(Legs[i])

=============================================================================
