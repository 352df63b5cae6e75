---------------------------- MODULE ResumeAnchor ----------------------------
(***************************************************************************)
(* The candidate's hand-over from stage 1 to stage 2 across an exec        *)
(* (conf_proc_spp_candidate_resume.py over conf_proc_spp_candidate_tpm.py).*)
(*                                                                         *)
(* PID 1 measures its manifest into PCR 15, opens the TPM afresh, seals a  *)
(* frame of what it knows of itself into a memfd, extends PCR 16 with the  *)
(* frame, executes stage 2 in the final root, and stage 2 reads the frame  *)
(* once, compares it with PCR 16 and with what it can see, extends PCR 16  *)
(* again and only then has authority.  An exchange with the TPM may time   *)
(* out with or without its command having been carried out; a failed       *)
(* operation may be called again; the surroundings may change under the    *)
(* hand-over; the machine may restart.                                     *)
(*                                                                         *)
(* A PCR is the sequence of values extended into it, a digest its value.   *)
(***************************************************************************)
EXTENDS Naturals, Sequences

CONSTANTS Bindings,   \* bindings stage 1 and stage 2 may be given, independently
          MaxBoots,   \* bound: restarts
          MaxEvents,  \* bound: lost exchanges, drifts
          None

VARIABLES boot,       \* which boot: nonces and namespaces of another boot differ
          pcr15, pcr16,
          see,        \* [ns, tpm]: namespaces and TPM descriptor as PID 1 sees them
          fd3,        \* the memfd: None or [frame, offset]
          pid1,       \* control state and locals
          authority,  \* history: what stage 2 returned in this boot
          events

avars == <<boot, pcr15, pcr16, see, fd3, pid1, authority, events>>

Fresh == [pc |-> "boot", tries |-> 0, frame |-> None, observed |-> <<>>, stage |-> 1,
          exec |-> FALSE, measured |-> FALSE]

Init == /\ boot = 1 /\ pcr15 = <<>> /\ pcr16 = <<>>
        /\ see = [ns |-> 1, tpm |-> 0] /\ fd3 = None
        /\ pid1 = Fresh /\ authority = {} /\ events = 0

Goto(pc) == pid1' = [pid1 EXCEPT !.pc = pc]
Event == events < MaxEvents /\ events' = events + 1
Quiet == UNCHANGED <<boot, see, authority>>

\* The staged and the consumed value of a frame, the second over the first.
D1(f) == [frame |-> f, of |-> "staged"]
S1(f) == <<D1(f)>>
D2(f) == [frame |-> f, of |-> "consumed"]
S2(f) == <<D1(f), D2(f)>>
Pcr15Of(binding) == <<binding>>

\* NativeTpm.exchange of an extend: acknowledged, or given up on after five
\* seconds with the command done or not.
Extend(here, next, failed, pcr, digest) ==
    /\ pid1.pc = here
    /\ \/ pcr' = Append(pcr, digest) /\ Goto(next) /\ UNCHANGED events
       \/ Event /\ Goto(failed) /\ pcr' \in {pcr, Append(pcr, digest)}
    /\ UNCHANGED fd3 /\ Quiet

\* A read, and a comparison with what the reader expects.
Read(here, holds, next, failed) ==
    /\ pid1.pc = here
    /\ \/ Goto(IF holds THEN next ELSE failed) /\ UNCHANGED events
       \/ Event /\ Goto(failed)
    /\ UNCHANGED <<pcr15, pcr16, fd3>> /\ Quiet

\* ManifestPcr15.measure: once per object, from zero, read back.
Measure(b) ==
    \/ /\ pid1.pc = "boot" /\ ~pid1.measured
       /\ pid1' = [pid1 EXCEPT !.pc = IF pcr15 = <<>> THEN "extend15" ELSE "dead",
                               !.measured = TRUE]
       /\ UNCHANGED <<pcr15, pcr16, fd3, events>> /\ Quiet
    \/ /\ Extend("extend15", "read15", "dead", pcr15, b) /\ UNCHANGED pcr16
    \/ Read("read15", pcr15 = <<b>>, "stage1", "dead")

\* prepare_stage1: a TPM of its own in slot 5, PCR 15, the frame into slot 3.
\* It may be called again after it failed; then slot 3 is closed again.
SealFrame(b) ==
    /\ pid1.pc = "stage1" /\ fd3 = None
    /\ see' = [see EXCEPT !.tpm = @ + 1]
    /\ IF pcr15 # Pcr15Of(b) THEN Goto("stage1_failed") /\ UNCHANGED fd3
       ELSE LET f == [nonce |-> <<boot, pid1.tries>>, binding |-> b, see |-> see'] IN
            /\ fd3' = [frame |-> f, offset |-> 0]
            /\ pid1' = [pid1 EXCEPT !.pc = "zero16", !.frame = f]
    /\ UNCHANGED <<boot, pcr15, pcr16, authority, events>>

\* Mutant: PCR 16 is not looked at before it is extended.
Unstaged_Assumed == TRUE

Unstaged == pcr16 = <<>>

Stage1 ==
    \/ Read("zero16", Unstaged, "extend16", "stage1_failed")
    \/ Extend("extend16", "read16", "stage1_failed", pcr16, D1(pid1.frame)) /\ UNCHANGED pcr15
    \/ Read("read16", pcr16 = S1(pid1.frame) /\ fd3.offset = 0, "prepared", "stage1_failed")

\* The except clause, and the caller trying once more.
Abandon ==
    /\ pid1.pc = "stage1_failed"
    /\ fd3' = None
    /\ pid1' = [pid1 EXCEPT !.tries = @ + 1, !.pc = IF pid1.tries = 0 THEN "stage1" ELSE "dead"]
    /\ UNCHANGED <<boot, pcr15, pcr16, see, authority, events>>

\* exec_stage2 rechecks frame, namespaces and transport; it has one attempt.
Exec ==
    /\ pid1.pc = "prepared" /\ ~pid1.exec
    /\ \/ /\ fd3.frame = pid1.frame /\ fd3.offset = 0 /\ see = pid1.frame.see
          /\ pid1' = [pid1 EXCEPT !.pc = "resume", !.exec = TRUE, !.stage = 2, !.frame = None]
       \/ pid1' = [pid1 EXCEPT !.exec = TRUE]
    /\ UNCHANGED <<boot, pcr15, pcr16, see, fd3, authority, events>>

\* Stage 2 remembers PCR 16 before it reads the frame.
Observe ==
    /\ pid1.pc = "resume" /\ fd3 # None /\ fd3.offset = 0
    /\ \/ pid1' = [pid1 EXCEPT !.pc = "consume", !.observed = pcr16] /\ UNCHANGED events
       \/ Event /\ Goto("dead")
    /\ UNCHANGED <<pcr15, pcr16, fd3>> /\ Quiet

\* Mutant: the frame is believed about where it was made.
SameWorld_Told(f) == TRUE

SameWorld(f) == f.see = see

\* consume_memfd reads it once and closes it; decode_frame, the physical
\* identity, and the comparison with what PCR 16 held.
Consume(b) ==
    /\ pid1.pc = "consume"
    /\ fd3' = None
    /\ LET f == fd3.frame IN
       pid1' = [pid1 EXCEPT !.frame = f,
                            !.pc = IF f.binding = b /\ SameWorld(f) /\ pid1.observed = S1(f)
                                   THEN "extend16b" ELSE "dead"]
    /\ UNCHANGED <<boot, pcr15, pcr16, see, authority, events>>

Stage2(b) ==
    \/ Extend("extend16b", "read16b", "dead", pcr16, D2(pid1.frame)) /\ UNCHANGED pcr15
    \/ Read("read16b", pcr16 = S2(pid1.frame), "read15b", "dead")
    \/ Read("read15b", pcr15 = Pcr15Of(b), "return", "dead")

\* resume_stage2 returns its TPM and its states: authority.
Return ==
    /\ pid1.pc = "return" /\ fd3 = None
    /\ authority' = authority \cup {[frame |-> pid1.frame, see |-> see]}
    /\ Goto("serving")
    /\ UNCHANGED <<boot, pcr15, pcr16, see, fd3, events>>

\* The namespaces, or what the TPM descriptor leads to, are no longer the same.
Drift(k) == /\ Event /\ pid1.pc \in {"prepared", "resume", "consume"}
            /\ see' = [see EXCEPT ![k] = @ + 10]
            /\ UNCHANGED <<boot, pcr15, pcr16, fd3, pid1, authority>>

Restart == /\ boot < MaxBoots /\ boot' = boot + 1
           /\ pcr15' = <<>> /\ pcr16' = <<>> /\ fd3' = None /\ pid1' = Fresh
           /\ see' = [ns |-> boot', tpm |-> 0] /\ authority' = {}
           /\ UNCHANGED events

Next ==
    \/ \E b \in Bindings : Measure(b) \/ SealFrame(b) \/ Consume(b) \/ Stage2(b)
    \/ Stage1 \/ Abandon \/ Exec \/ Observe \/ Return
    \/ \E k \in DOMAIN see : Drift(k)
    \/ Restart

AtMostOne(S) == \A x, y \in S : x = y
Extended(of) == {i \in 1 .. Len(pcr16) : pcr16[i].of = of}

(* Whatever exchange was lost and whatever was called again, a boot gives
   authority at most once, to a stage 2 that stands where the frame was sealed
   and whose PCR 15 and PCR 16 are exactly this frame's; and PCR 16 never takes
   a second staging or consuming, so a lost exchange is final for the boot. *)
OneResumption ==
    /\ AtMostOne(authority)
    /\ \A a \in authority : /\ a.frame.nonce[1] = boot /\ a.frame.see = a.see
                            /\ pcr15 = Pcr15Of(a.frame.binding)
                            /\ pcr16 = S2(a.frame) /\ fd3 = None
    /\ AtMostOne(Extended("staged")) /\ AtMostOne(Extended("consumed"))

=============================================================================
