------------------------------- MODULE MCBoot -------------------------------
(* The boot on a small instance: two threads and a census of one role, two     *)
(* bindings that get one address after the other, one TLS connection, messages *)
(* from both ends, among them responses of one and two chunks, and four guests.*)
EXTENDS Boot

MCResponses == {"evidence", "failed"}
MCChunks == [m \in {"grant", "evidence", "failed", "ask", "more"} |-> IF m = "evidence" THEN 2 ELSE 1]
MCTalk == [controller |-> <<"failed", "grant", "evidence">>, gateway |-> <<"ask", "more">>]

\* A guest as the policy wants it, one in debug mode, one whose chip is not AMD's and
\* one with other PCRs.
Platform == [chip |-> "chip1", product |-> "Genoa", version |-> 3, vmpl |-> 0,
             debug |-> FALSE, pcrs |-> "pinned", genuine |-> TRUE]

MCAbout == [good |-> Platform,
            debug |-> [Platform EXCEPT !.chip = "chip2", !.debug = TRUE],
            forged |-> [Platform EXCEPT !.chip = "chip3", !.genuine = FALSE],
            other |-> [Platform EXCEPT !.chip = "chip4", !.pcrs = "unknown"]]

MCPolicy == [versions |-> {3, 5}, vmpls |-> {0}, debugOff |-> TRUE, floor |-> 1,
             pcrMode |-> "pin", pins |-> {"pinned"}]
MCProducts == [Genoa |-> "SEV-Genoa", Milan |-> "SEV-Milan"]

Ask(op, domain, n, spki) == [op |-> op, domain |-> domain, nonce |-> n, spki |-> spki]

MCAsks == {Ask("certificate", "certificate", 1, 1), Ask("certificate", "exporter", 1, 1),
           Ask("certificate", "certificate", 2, 2), Ask("exporter", "exporter", None, 1),
           Ask("inventory", "exporter", None, 1)}
=============================================================================
