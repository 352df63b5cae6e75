--------------------------- MODULE MessageChannel ---------------------------
(***************************************************************************)
(* The candidate's controller and gateway talking over one seqpacket       *)
(* socket (conf_proc_spp_candidate_messages.py over ..._ipc.py).           *)
(*                                                                         *)
(* Each end is single-threaded and never blocks: it queues one frame,      *)
(* flushes it when the socket takes it, and receives one frame a call.  A  *)
(* collector response is cut into chunks, one or more, and each chunk is   *)
(* acknowledged with what has arrived so far before the next one goes; no  *)
(* other message is acknowledged, however short.  Every packet             *)
(* has a deadline and a whole response an overall one; an end that meets   *)
(* anything it did not expect closes.  Time passes between any two steps,  *)
(* either socket buffer may be full, both ends may start to talk at once,  *)
(* and a peer may repeat a frame.                                          *)
(*                                                                         *)
(* A digest is what was digested.  Descriptors sent along are left out.    *)
(***************************************************************************)
EXTENDS Naturals, Sequences

CONSTANTS Controller, Gateway,
          Responses,   \* the messages that are a COLLECTOR_RESPONSE
          Chunks,      \* message -> number of chunks, 1 for an ordinary one
          Talk,        \* end -> the messages it may send, in this order
          Buffer,      \* frames a socket buffer holds
          PacketTime, OverallTime,
          MaxTime,     \* bound: the clock
          MaxReplays,  \* bound: repeated frames
          None

VARIABLES chan, wire, sent, delivered, now, replays

mvars == <<chan, wire, sent, delivered, now, replays>>

Ends == {Controller, Gateway}
Other(e) == IF e = Controller THEN Gateway ELSE Controller

\* rx, tx: message sequence numbers; train: next chunk expected; out: the
\* response going out and how far; got: the one coming in; ack: what must be
\* acknowledged next; ready: arrived whole, its last acknowledgement not out;
\* said: history, how many messages it was given to send.
Fresh == [closed |-> FALSE, rx |-> 1, tx |-> 1, train |-> 0, pending |-> None, out |-> None,
          got |-> <<>>, ack |-> None, ackQueued |-> FALSE, ready |-> None,
          deadline |-> None, overall |-> None, said |-> 0]

Init == /\ chan = [e \in Ends |-> Fresh]
        /\ wire = [e \in Ends |-> <<>>]
        /\ sent = [e \in Ends |-> <<>>] /\ delivered = [e \in Ends |-> <<>>]
        /\ now = 0 /\ replays = 0

Frame(c, kind, msg, index, count, so_far) ==
    [kind |-> kind, msg |-> msg, seq |-> c.tx, index |-> index, count |-> count, acks |-> so_far,
     said |-> c.said]

\* _packet: queue one frame and start its time.
Packet(c, frame) == [c EXCEPT !.pending = frame, !.deadline = now + PacketTime]
NextChunk(c, msg, index) ==
    [Packet(c, Frame(c, "chunk", msg, index, Chunks[msg], 0))
        EXCEPT !.out = [msg |-> msg, index |-> index],
               !.ack = [seq |-> c.tx, msg |-> msg, so_far |-> index + 1]]
Closed(c) == [Fresh EXCEPT !.closed = TRUE, !.rx = c.rx, !.tx = c.tx]

Expired(c) == \/ c.deadline # None /\ now >= c.deadline
              \/ c.overall # None /\ now >= c.overall

\* tick, which every call begins with.
TickCloses(e) == /\ ~chan[e].closed /\ Expired(chan[e])
                 /\ chan' = [chan EXCEPT ![e] = Closed(@)]
                 /\ UNCHANGED <<wire, sent, delivered, now, replays>>
Usable(e) == ~chan[e].closed /\ ~Expired(chan[e])

\* send: refused, and nothing changes, while anything is under way.
Send(e) ==
    /\ Usable(e) /\ Len(sent[e]) < Len(Talk[e])
    /\ LET c == [chan[e] EXCEPT !.said = @ + 1]
           m == Talk[e][Len(sent[e]) + 1]
       IN /\ c.out = None /\ c.got = <<>> /\ c.ready = None /\ c.pending = None
          /\ chan' = [chan EXCEPT ![e] =
                 IF m \in Responses THEN [NextChunk(c, m, 0) EXCEPT !.overall = now + OverallTime]
                 ELSE Packet(c, Frame(c, "plain", m, 0, 1, 0))]
          /\ sent' = [sent EXCEPT ![e] = Append(@, m)]
    /\ UNCHANGED <<wire, delivered, now, replays>>

Flushed(c) ==
    LET d == [c EXCEPT !.pending = None,
                       !.tx = IF c.pending.index = c.pending.count - 1 THEN @ + 1 ELSE @]
    IN CASE c.ackQueued /\ c.ready # None ->
              [d EXCEPT !.ackQueued = FALSE, !.got = <<>>, !.overall = None, !.deadline = None]
         [] c.ackQueued /\ c.ready = None ->
              [d EXCEPT !.ackQueued = FALSE, !.deadline = now + PacketTime]
         [] ~c.ackQueued /\ (c.out # None \/ c.got # <<>>) -> d
         [] OTHER -> [d EXCEPT !.deadline = None]

Flush(e) ==
    /\ Usable(e) /\ chan[e].pending # None /\ Len(wire[e]) < Buffer
    /\ \/ /\ ~chan[Other(e)].closed
          /\ wire' = [wire EXCEPT ![e] = Append(@, chan[e].pending)]
          /\ chan' = [chan EXCEPT ![e] = Flushed(@)]
       \/ /\ chan[Other(e)].closed
          /\ chan' = [chan EXCEPT ![e] = Closed(@)] /\ UNCHANGED wire
    /\ UNCHANGED <<sent, delivered, now, replays>>

\* Mutant: chunks are counted and messages are not.
Continues_Chunks(c, f) == f.index = c.train

\* _advance: the sequence and the position are the ones that come next.
Continues(c, f) == f.seq = c.rx /\ f.index = c.train
Advance(c, f) == IF f.index = f.count - 1 THEN [c EXCEPT !.rx = @ + 1, !.train = 0]
                 ELSE [c EXCEPT !.train = @ + 1]

OnAck(c, f) ==
    IF c.ack = None \/ c.pending # None
         \/ f.acks # c.ack THEN Closed(c)
    ELSE LET next == c.out.index + 1 IN
         IF next = Chunks[c.out.msg]
         THEN [c EXCEPT !.ack = None, !.out = None, !.deadline = None, !.overall = None]
         ELSE NextChunk(c, c.out.msg, next)

Busy(c) == c.out # None \/ c.ackQueued \/ c.ready # None

OnChunk(c, f) ==
    IF Busy(c) \/ c.pending # None THEN Closed(c)
    ELSE LET got == Append(c.got, f.msg)
             d == [c EXCEPT !.got = got, !.ackQueued = TRUE,
                            !.overall = IF @ = None THEN now + OverallTime ELSE @,
                            !.ready = IF f.index = f.count - 1 THEN f.msg ELSE None]
             so_far == [seq |-> f.seq, msg |-> f.msg, so_far |-> Len(got)]
         IN Packet(d, Frame(d, "ack", f.msg, 0, 1, so_far))

\* receive: a response that is ready is handed over first.
Receive(e) ==
    /\ Usable(e)
    /\ LET c == chan[e]
           w == wire[Other(e)]
       IN \/ /\ c.ready # None /\ ~c.ackQueued
             /\ chan' = [chan EXCEPT ![e].ready = None]
             /\ delivered' = [delivered EXCEPT ![e] = Append(@, c.ready)]
             /\ UNCHANGED wire
          \/ /\ ~(c.ready # None /\ ~c.ackQueued) /\ w # <<>>
             /\ wire' = [wire EXCEPT ![Other(e)] = Tail(@)]
             /\ LET f == Head(w)
                    d == Advance(c, f)
                    plain == Continues(c, f) /\ f.kind = "plain" /\ ~Busy(d) /\ d.got = <<>>
                IN /\ chan' = [chan EXCEPT ![e] =
                          CASE ~Continues(c, f) -> Closed(c)
                            [] Continues(c, f) /\ f.kind = "ack" -> OnAck(d, f)
                            [] Continues(c, f) /\ f.kind = "chunk" -> OnChunk(d, f)
                            [] plain -> d
                            [] OTHER -> Closed(c)]
                   /\ delivered' = IF plain THEN [delivered EXCEPT ![e] = Append(@, f.msg)]
                                   ELSE delivered
          \/ /\ ~(c.ready # None /\ ~c.ackQueued) /\ w = <<>> /\ chan[Other(e)].closed
             /\ chan' = [chan EXCEPT ![e] = Closed(c)]
             /\ UNCHANGED <<wire, delivered>>
    /\ UNCHANGED <<sent, now, replays>>

Tick == /\ now < MaxTime /\ now' = now + 1
        /\ UNCHANGED <<chan, wire, sent, delivered, replays>>

\* A peer's process sends its last frame once more.
Repeat(e) == /\ replays < MaxReplays /\ replays' = replays + 1
             /\ wire[e] # <<>> /\ Len(wire[e]) < Buffer
             /\ wire' = [wire EXCEPT ![e] = Append(@, @[Len(@)])]
             /\ UNCHANGED <<chan, sent, delivered, now>>

Next == \/ \E e \in Ends : TickCloses(e) \/ Send(e) \/ Flush(e) \/ Receive(e) \/ Repeat(e)
        \/ Tick

IsPrefixOf(s, t) == Len(s) <= Len(t) /\ SubSeq(t, 1, Len(s)) = s

(* Each end delivers just what the other sent, whole, once and in order,
   whatever crosses, expires, blocks or is repeated; a sender that has let go
   of a collector response has it arrived whole at the other end; and an end that
   waits for an acknowledgement, a chunk or the socket has a deadline running. *)
DeliveredInOrder ==
    \A e \in Ends :
        LET c == chan[e]
            peer == chan[Other(e)]
        IN /\ IsPrefixOf(delivered[e], sent[Other(e)])
           /\ (~c.closed /\ c.out = None /\ c.pending = None /\ ~peer.closed
                  /\ sent[e] # <<>> /\ sent[e][Len(sent[e])] \in Responses)
                => \/ Len(delivered[Other(e)]) = Len(sent[e])
                   \/ peer.ready = sent[e][Len(sent[e])]
           /\ ~c.closed /\ (c.out # None \/ c.got # <<>> \/ c.pending # None) => c.deadline # None

=============================================================================
