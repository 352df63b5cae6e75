---------------------------- MODULE QuoteBroker -----------------------------
(***************************************************************************)
(* The candidate's attestation broker (conf_proc_spp_attestation_broker.py)*)
(* and the appraisal of the quotes it makes                                *)
(* (conf_proc_spp_candidate_attestation.py).                               *)
(*                                                                         *)
(* The broker alone holds the TPM.  PID 1 sends it one request at a time   *)
(* with a sequence number and a deadline; it reads a fixed selection of    *)
(* PCRs, in as many parts as the TPM makes of it, or has the fixed key     *)
(* quote one.  Anything it cannot account for ends it for good.  PCR 10    *)
(* and, out of turn, a baseline PCR are extended meanwhile, requests are   *)
(* repeated, answers come late, the machine restarts.  The verifier takes  *)
(* three quotes, whichever they are: of the certificate, of the channel's  *)
(* exporter, and of the receipt that names the envelope.                   *)
(*                                                                         *)
(* PID 1's side of the channel is modelled from encode_request and         *)
(* decode_response.  A PCR's value is how often it was extended; the       *)
(* baseline selection is one PCR, "base", and the full one adds "ima".     *)
(***************************************************************************)
EXTENDS Integers, Sequences

CONSTANTS Channels,   \* TLS connections of an owner: key, exporter, challenge
          MaxClock,   \* bound: the TPM's clock
          MaxAsked,   \* bound: requests
          MaxEvents,  \* bound: extends, repeated requests, restarts
          Window,     \* REQUEST_NS, and the verifier's freshness interval
          None

VARIABLES tpm,      \* [clock, boot, pcrs, counter]; its clock is the machine's too
          broker,   \* [seq, failed, req, got, counter]
          wire,     \* [request, response]: one of each on the channel
          client,   \* [seq, sent, asked]: PID 1
          answers,  \* history: what PID 1 accepted
          past,     \* history: the states the TPM was in, in order
          quotes,   \* every quote made, with the instant (when) it was made at
          events

bvars == <<tpm, broker, wire, client, answers, past, quotes, events>>

Pcr14 == {"base"}
Pcr15 == {"base", "ima"}
Idle == [seq |-> 1, failed |-> FALSE, req |-> None, got |-> <<>>, counter |-> None]
Zero == [p \in Pcr15 |-> 0]
NoWire == [request |-> None, response |-> None]

Init == /\ tpm = [clock |-> 0, boot |-> 1, pcrs |-> Zero, counter |-> 0]
        /\ broker = Idle /\ wire = NoWire
        /\ client = [seq |-> 1, sent |-> None, asked |-> 0]
        /\ answers = {} /\ past = <<tpm>> /\ quotes = {} /\ events = 0

Event == events < MaxEvents /\ events' = events + 1

\* What a quote is asked for: the three things the verifier wants signed.
Extra(c, kind) == [channel |-> c, kind |-> kind]

------------------------------- (* PID 1 *) ---------------------------------

\* encode_request; a request is sent once the last one is answered.
Send(op, extra) ==
    /\ client.sent = None
    /\ client.asked < MaxAsked
    /\ LET r == [op |-> op, extra |-> extra, seq |-> client.seq, deadline |-> tpm.clock + Window] IN
       /\ wire' = [wire EXCEPT !.request = r]
       /\ client' = [client EXCEPT !.sent = r, !.asked = @ + 1]
    /\ UNCHANGED <<tpm, broker, answers, past, quotes, events>>

\* The same request again, which the broker may have answered already.
SendAgain ==
    /\ Event /\ client.sent # None /\ wire.request = None
    /\ wire' = [wire EXCEPT !.request = client.sent]
    /\ UNCHANGED <<tpm, broker, client, answers, past, quotes>>

\* decode_response: about this request, and in time.
Matches(r, sent) == r.op = sent.op /\ r.seq = sent.seq /\ r.deadline = sent.deadline
DecodeResponse ==
    /\ wire.response # None
    /\ wire' = [wire EXCEPT !.response = None]
    /\ LET r == wire.response IN
       IF /\ client.sent # None /\ Matches(r, client.sent) /\ tpm.clock < r.deadline
       THEN /\ client' = [client EXCEPT !.seq = @ + 1, !.sent = None]
            /\ answers' = IF r.op \in {"read14", "read15"} THEN answers \cup {r} ELSE answers
       ELSE UNCHANGED <<client, answers>>
    /\ UNCHANGED <<tpm, broker, past, quotes, events>>

-------------------------------- (* broker *) -------------------------------

Selection(op) == IF op \in {"read14", "quote14"} THEN Pcr14 ELSE Pcr15
Poison == broker' = [broker EXCEPT !.failed = TRUE, !.req = None]
InTime(r) == tpm.clock < r.deadline

\* handle: replayed, reordered or too far ahead ends it.
Handle ==
    /\ wire.request # None /\ broker.req = None
    /\ wire' = [wire EXCEPT !.request = None]
    /\ LET r == wire.request IN
       IF ~broker.failed /\ r.seq = broker.seq /\ InTime(r) /\ r.deadline - tpm.clock <= Window
       THEN broker' = [broker EXCEPT !.req = r, !.got = <<>>, !.counter = None]
       ELSE Poison
    /\ UNCHANGED <<tpm, client, answers, past, quotes, events>>

Remaining == Selection(broker.req.op) \ DOMAIN broker.got

\* Mutant: parts of a selection are put together whatever happened between.
SameCounter_Any == TRUE

SameCounter == broker.counter \in {None, tpm.counter}

\* _read: one exchange with the TPM, which answers a part of what is left.
ReadPart(part) ==
    /\ broker.req # None /\ broker.req.op \in {"read14", "read15"}
    /\ Remaining # {} /\ part # {} /\ part \subseteq Remaining
    /\ IF InTime(broker.req) /\ SameCounter
       THEN broker' = [broker EXCEPT !.got = [p \in DOMAIN @ \cup part |->
                                                  IF p \in DOMAIN @ THEN @[p] ELSE tpm.pcrs[p]],
                                     !.counter = tpm.counter]
       ELSE Poison
    /\ UNCHANGED <<tpm, wire, client, answers, past, quotes, events>>

\* _quote: clock, boot and PCRs under the key, over what was asked for.
Quote ==
    /\ broker.req # None /\ broker.req.op \in {"quote14", "quote15"} /\ broker.got = <<>>
    /\ IF InTime(broker.req)
       THEN LET q == [op |-> broker.req.op, extra |-> broker.req.extra, clock |-> tpm.clock,
                      boot |-> tpm.boot, when |-> Len(past),
                      pcrs |-> [p \in Selection(broker.req.op) |-> tpm.pcrs[p]]] IN
            /\ quotes' = quotes \cup {q}
            /\ broker' = [broker EXCEPT !.got = q.pcrs]
       ELSE Poison /\ UNCHANGED quotes
    /\ UNCHANGED <<tpm, wire, client, answers, past, events>>

\* The answer goes out while the request's time runs.
Respond ==
    /\ broker.req # None /\ broker.got # <<>> /\ Remaining = {}
    /\ IF InTime(broker.req) /\ wire.response = None
       THEN /\ wire' = [wire EXCEPT !.response = [broker.req EXCEPT !.extra = broker.got]]
            /\ broker' = [broker EXCEPT !.seq = @ + 1, !.req = None]
       ELSE Poison /\ UNCHANGED wire
    /\ UNCHANGED <<tpm, client, answers, past, quotes, events>>

---------------------------- (* the surroundings *) -------------------------

Happens == past' = Append(past, tpm')

Tick == /\ tpm.clock < MaxClock
        /\ tpm' = [tpm EXCEPT !.clock = @ + 1] /\ Happens
        /\ UNCHANGED <<broker, wire, client, answers, quotes, events>>

ExtendPcr(p) ==
    /\ Event
    /\ tpm' = [tpm EXCEPT !.pcrs[p] = @ + 1, !.counter = @ + 1] /\ Happens
    /\ UNCHANGED <<broker, wire, client, answers, quotes>>

\* The TPM's clock goes on; everything else begins again.
Restart ==
    /\ Event
    /\ tpm' = [tpm EXCEPT !.boot = @ + 1, !.pcrs = Zero, !.counter = 0] /\ Happens
    /\ broker' = Idle /\ wire' = NoWire
    /\ client' = [client EXCEPT !.seq = 1, !.sent = None]
    /\ answers' = {}
    /\ UNCHANGED quotes

Next ==
    \/ \E op \in {"read14", "read15"} : Send(op, None)
    \/ \E c \in Channels : \/ Send("quote14", Extra(c, "certificate"))
                           \/ Send("quote14", Extra(c, "exporter"))
                           \/ Send("quote15", Extra(c, "receipt"))
    \/ SendAgain \/ DecodeResponse \/ Handle
    \/ \E part \in SUBSET Pcr15 : ReadPart(part)
    \/ Quote \/ Respond \/ Tick \/ Restart
    \/ \E p \in Pcr15 : ExtendPcr(p)

------------------------------- (* verifier *) ------------------------------

\* _quote14 and the strict 15-PCR appraiser: what is signed, and the baseline.
Fits(q, c, kind, op) == q.op = op /\ q.extra = Extra(c, kind) /\ q.pcrs["base"] = 0

\* Mutant: the quotes' restart counts are not compared.
SameBoot_Any(cert, exp, sup) == TRUE

SameBoot(cert, exp, sup) == cert.boot = sup.boot /\ exp.boot = sup.boot

Ordered(cert, exp, sup) == /\ cert.clock <= exp.clock /\ exp.clock <= sup.clock
                           /\ sup.clock <= cert.clock + Window

\* appraise_quote_conjunction for the connection c.
Conjunction(c, cert, exp, sup) ==
    /\ Fits(cert, c, "certificate", "quote14")
    /\ Fits(exp, c, "exporter", "quote14")
    /\ Fits(sup, c, "receipt", "quote15")
    /\ SameBoot(cert, exp, sup) /\ Ordered(cert, exp, sup)

------------------------------ (* correctness *) ----------------------------

(* What PID 1 accepts as the PCRs it asked for are the values of one instant
   after it asked and before the deadline, however many parts the TPM answered
   in and whatever was extended, repeated or late meanwhile. *)
ReadOfOneInstant ==
    \A a \in answers : \E i \in 1 .. Len(past) :
        /\ past[i].boot = tpm.boot
        /\ a.deadline - Window <= past[i].clock /\ past[i].clock < a.deadline
        /\ \A p \in DOMAIN a.extra : a.extra[p] = past[i].pcrs[p]

(* From the first to the last of three quotes that the verifier takes together
   for a connection, the machine neither restarted nor left the baseline, not
   even for an instant, and no more than the interval went by. *)
OneSitting ==
    \A c \in Channels, cert, exp, sup \in quotes :
        Conjunction(c, cert, exp, sup) =>
            \A i \in 1 .. Len(past) :
                (\E q, r \in {cert, exp, sup} : q.when <= i /\ i <= r.when) =>
                    /\ past[i].boot = sup.boot /\ past[i].pcrs["base"] = 0
                    /\ past[i].clock - cert.clock <= Window

=============================================================================
