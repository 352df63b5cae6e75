------------------------------- MODULE Gateway -------------------------------
(***************************************************************************)
(* One attested channel of the gateway from accept to close                *)
(* (ratls_gateway.py): GatewayHandler.handle, the re-armable               *)
(* _ConnectionDeadline with its timer threads, and _http_relay, the serial *)
(* per-request relay, composed with the daily allowance (module Allowance) *)
(* that all channels share.                                                *)
(*                                                                         *)
(* The peer, the portal and the upstream are the environment: they answer  *)
(* in any way the code distinguishes, late or never.  Time advances only   *)
(* while every thread is blocked (Quiet), so an instant stands for the     *)
(* time the threads need between two blocking calls.                       *)
(***************************************************************************)
EXTENDS Integers, FiniteSets

CONSTANTS
  Channels,          \* connections; each has its handler thread
  Journals, Objects, Policies, Units, MaxUsed, MaxDay, MaxTime, None, \* see Allowance
  Credentials,       \* bearer credentials
  JournalOf,         \* the journal the portal reports for a credential
  Requests,          \* the request heads a client may send
  AudioCharges,      \* audio_units of the durations a transcription may report
  MeasuredCharges,   \* token sums a walker may have read from a chat response
  Penalty,           \* charge of unmeasured chat work (262_144)
  AdmissionTimeout,  \* admission_timeout
  Lifetime,          \* channel_lifetime (T_max)
  Grace,             \* channel_force_close_grace (G)
  ConnectTimeout,    \* socket timeout of the upstream: of its connect and of each sendall
  Backlog,           \* bound: pieces of a body that wait unread when the socket is shut,
                     \* in the reader, in OpenSSL and in the kernel's receive buffer
  LastAccept,        \* bound: the last instant a connection is accepted
  MaxRequests        \* bound: requests read on one channel

VARIABLES
  today, now, day, states, heap, lease, stage, grant, \* Allowance
  conn,     \* per channel: the handler's local variables
  served,   \* per channel: heads read so far (bound)
  timers,   \* per channel: the threading.Timer threads, by the event they raise
  current,  \* per channel: _ConnectionDeadline._timer
  shut,     \* per channel: the raw socket was shut down, and when
  unsettled \* history: a chat response was begun and not yet given to the tally

A == INSTANCE Allowance

accounting == <<today, day, states, heap, lease, stage, grant>>

channel == <<conn, served, timers, current, shut, unsettled>>

vars == <<today, now, day, states, heap, lease, stage, grant,
          conn, served, timers, current, shut, unsettled>>

Turnover == Lifetime + Grace

\* The longest that n calls of the upstream's socket take.
Calls(n) == n * ConnectTimeout

Never == -1

Request == [cred : Credentials \cup {None}, kind : {"chat", "audio", "other"},
            size : {"fits", "drain", "huge"}, close : BOOLEAN]

\* What module Allowance assumes of the constants the two share.
ASSUME PolicyAssumption ==
  \A p \in Policies : /\ p.daily \in 1..MaxUsed
                      /\ p.cooldown \in Nat \ {0}
                      /\ p.max_inflight \in Nat \ {0}

ASSUME BoundAssumption ==
  /\ MaxUsed \in Nat \ {0}
  /\ Units \subseteq Nat
  /\ MaxDay \in Nat
  /\ MaxTime \in Nat

ASSUME SetAssumption ==
  /\ IsFiniteSet(Channels)
  /\ None \notin Objects

ASSUME NoneAssumption == None \notin A!Lease

ASSUME RequestAssumption == Requests \subseteq Request

ASSUME CredentialAssumption ==
  /\ JournalOf \in [Credentials -> Journals]
  /\ None \notin Credentials \cup Policies \cup Request \cup {"admission", "hard"}

ASSUME ChargeAssumption == AudioCharges \cup MeasuredCharges \cup {0, Penalty} \subseteq Units

ASSUME GatewayTimeAssumption ==
  /\ {AdmissionTimeout, Lifetime, Grace, ConnectTimeout, Backlog, LastAccept, MaxRequests}
       \subseteq Nat
  /\ LastAccept + Turnover <= MaxTime

\* The handler before accept and, but for pc and started, between two requests:
\* admitted_credential, authorization and the locals of one loop iteration; late counts
\* the pieces of the body read after the socket was shut.
Idle == [pc |-> "idle", started |-> 0, cred |-> None, policy |-> None, since |-> Never,
         req |-> None, due |-> 0, late |-> 0, work |-> FALSE, status |-> "none", mode |-> "none",
         completed |-> FALSE, walker |-> "none", ends |-> FALSE]

Init ==
  /\ A!Init
  /\ conn = [c \in Channels |-> Idle]
  /\ served = [c \in Channels |-> 0]
  /\ timers = [c \in Channels |-> [admission |-> "off", hard |-> "off"]]
  /\ current = [c \in Channels |-> None]
  /\ shut = [c \in Channels |-> Never]
  /\ unsettled = [c \in Channels |-> FALSE]

At(c, pc) == conn[c].pc = pc

Goto(c, pc) == conn' = [conn EXCEPT ![c].pc = pc]

IsShut(c) == shut[c] # Never

Expired(c) == now - conn[c].started >= Lifetime

-----------------------------------------------------------------------------
(* _ConnectionDeadline *)

Due(c, k) ==
  conn[c].started +
    IF k = "hard" THEN Turnover ELSE A!Least(AdmissionTimeout, Turnover)

\* cancel() of the armed timer: it has an effect only before the timer thread
\* has left its wait.
Cancelled(c) == [k \in {"admission", "hard"} |->
                   IF timers[c][k] = "armed" THEN "off" ELSE timers[c][k]]

\* Mutant: the deadline is not replaced when the channel is admitted.
Arm_AdmissionOnly(c, k) ==
  /\ timers' = [timers EXCEPT ![c] = [Cancelled(c) EXCEPT ![k] = IF k = "hard" THEN "off" ELSE "armed"]]
  /\ current' = [current EXCEPT ![c] = k]

Arm(c, k) ==
  /\ timers' = [timers EXCEPT ![c] = [Cancelled(c) EXCEPT ![k] = "armed"]]
  /\ current' = [current EXCEPT ![c] = k]

Disarm(c) ==
  /\ timers' = [timers EXCEPT ![c] = Cancelled(c)]
  /\ current' = [current EXCEPT ![c] = None]

\* The timer's wait is over; the thread has not taken the lock yet.
TimerWakes(c, k) ==
  /\ timers[c][k] = "armed"
  /\ now >= Due(c, k)
  /\ timers' = [timers EXCEPT ![c][k] = "firing"]
  /\ UNCHANGED <<accounting, now, conn, served, current, shut, unsettled>>

ShutDown(c) == shut' = [shut EXCEPT ![c] = IF @ = Never THEN now ELSE @]

\* Mutant: _fire does not ask whether it is still the current timer.
Fire_Stale(c, k) ==
  /\ timers[c][k] = "firing"
  /\ timers' = [timers EXCEPT ![c][k] = "off"]
  /\ ShutDown(c)
  /\ UNCHANGED <<accounting, now, conn, served, current, unsettled>>

\* _fire under the lock: a superseded timer returns.
Fire(c, k) ==
  /\ timers[c][k] = "firing"
  /\ timers' = [timers EXCEPT ![c][k] = "off"]
  /\ IF current[c] = k THEN ShutDown(c) ELSE UNCHANGED shut
  /\ UNCHANGED <<accounting, now, conn, served, current, unsettled>>

-----------------------------------------------------------------------------
(* GatewayHandler.handle *)

\* Mutant: only the admitted channel is under a deadline.
Accept_Unarmed(c) ==
  /\ At(c, "idle") /\ now <= LastAccept
  /\ conn' = [conn EXCEPT ![c] = [Idle EXCEPT !.pc = "admit", !.started = now]]
  /\ UNCHANGED <<accounting, now, served, timers, current, shut, unsettled>>

Accept(c) ==
  /\ At(c, "idle") /\ now <= LastAccept
  /\ conn' = [conn EXCEPT ![c] = [Idle EXCEPT !.pc = "admit", !.started = now]]
  /\ Arm(c, "admission")
  /\ UNCHANGED <<accounting, now, served, shut, unsettled>>

\* Preface, evidence (Collector, StatusProofs), handshake, proof request and
\* exporter proof succeeded; sending the proof needs the socket.
ProofSent(c) ==
  /\ At(c, "admit") /\ ~IsShut(c)
  /\ Goto(c, "proved")
  /\ UNCHANGED <<accounting, now, served, timers, current, shut, unsettled>>

\* One of them, or the status snapshot after the proof, failed.
AdmitFails(c) ==
  /\ At(c, "admit") \/ At(c, "proved")
  /\ Goto(c, "closing")
  /\ UNCHANGED <<accounting, now, served, timers, current, shut, unsettled>>

Admit(c) ==
  /\ At(c, "proved")
  /\ Goto(c, "top")
  /\ Arm(c, "hard")
  /\ UNCHANGED <<accounting, now, served, shut, unsettled>>

\* The finally clause of handle: first the deadline is cancelled,
Close(c) ==
  /\ At(c, "closing")
  /\ Goto(c, "bye")
  /\ Disarm(c)
  /\ UNCHANGED <<accounting, now, served, shut, unsettled>>

\* then the TLS connection takes its leave on the blocking socket, and closes.  With no
\* timer left it waits for a client that does not read, unless the socket is shut.
Farewell(c) ==
  /\ At(c, "bye")
  /\ Goto(c, "closed")
  /\ UNCHANGED <<accounting, now, served, timers, current, shut, unsettled>>

-----------------------------------------------------------------------------
(* _http_relay: reading and routing a request *)

\* The top of the loop: no new request once the lifetime is over.
NextRequest(c) ==
  /\ At(c, "top")
  /\ Goto(c, IF Expired(c) THEN "closing" ELSE "head")
  /\ UNCHANGED <<accounting, now, served, timers, current, shut, unsettled>>

\* End of stream, idle timeout, malformed head, or a head that arrives after
\* the lifetime.
HeadEnds(c) ==
  /\ At(c, "head")
  /\ Goto(c, "closing")
  /\ UNCHANGED <<accounting, now, served, timers, current, shut, unsettled>>

\* Mutant: only the first request's credential is looked at.
CredentialStep_FirstOnly(c, cred) ==
  IF cred = None THEN "closing" ELSE IF conn[c].cred = None THEN "auth" ELSE "route"

\* The first credential is put to the portal, later ones must equal it (401).
CredentialStep(c, cred) ==
  IF cred = None THEN "closing"
  ELSE IF conn[c].cred = None THEN "auth"
  ELSE IF cred = conn[c].cred THEN "route" ELSE "closing"

ReadHead(c, r) ==
  /\ At(c, "head") /\ ~Expired(c)
  /\ served[c] < MaxRequests
  /\ served' = [served EXCEPT ![c] = @ + 1]
  /\ conn' = [conn EXCEPT ![c].pc = CredentialStep(c, r.cred), ![c].req = r]
  /\ UNCHANGED <<accounting, now, timers, current, shut, unsettled>>

\* authorize(): 204 with the journal and, perhaps, an allowance policy.
Authorize(c, p) ==
  /\ At(c, "auth")
  /\ conn' = [conn EXCEPT ![c].pc = "route", ![c].cred = conn[c].req.cred,
                          ![c].policy = p, ![c].since = now]
  /\ UNCHANGED <<accounting, now, served, timers, current, shut, unsettled>>

\* 401 or 503 to the client, and the channel ends.
AuthorizeFails(c) ==
  /\ At(c, "auth")
  /\ Goto(c, "closing")
  /\ UNCHANGED <<accounting, now, served, timers, current, shut, unsettled>>

Forwarded(r) == r.kind = "chat" \/ (r.kind = "audio" /\ r.size = "fits")

\* 404 for an unknown path, 413 for an oversized transcription.  The channel
\* goes on when the body is small enough to be drained.
Decline(c) ==
  /\ At(c, "route") /\ ~Forwarded(conn[c].req)
  /\ Goto(c, IF conn[c].req.close \/ conn[c].req.size = "huge" \/ IsShut(c)
             THEN "closing" ELSE "drain")
  /\ UNCHANGED <<accounting, now, served, timers, current, shut, unsettled>>

Drained(c) ==
  /\ At(c, "drain")
  /\ conn' = [conn EXCEPT ![c].pc = "top", ![c].req = None]
  /\ UNCHANGED <<accounting, now, served, timers, current, shut, unsettled>>

\* Unsupported framing of the request body, a client that cannot be answered,
\* or one that closes in the middle of a body that is drained.
RouteFails(c) ==
  /\ At(c, "route") \/ At(c, "drain")
  /\ Goto(c, "closing")
  /\ UNCHANGED <<accounting, now, served, timers, current, shut, unsettled>>

-----------------------------------------------------------------------------
(* _http_relay: the request under its lease *)

ToForward(c) == At(c, "route") /\ Forwarded(conn[c].req)

BeginLease(c, o) ==
  /\ ToForward(c) /\ conn[c].policy # None
  /\ A!Begin(c, JournalOf[conn[c].cred], conn[c].policy, o)
  /\ Goto(c, "wait")
  /\ UNCHANGED <<served, timers, current, shut, unsettled>>

\* OccupancyExceeded: 429, and the channel ends.
BeginRefused(c, o) ==
  /\ ToForward(c) /\ conn[c].policy # None
  /\ A!Refuse(c, JournalOf[conn[c].cred], conn[c].policy, o)
  /\ Goto(c, "closing")
  /\ UNCHANGED <<served, timers, current, shut, unsettled>>

\* The portal sent no policy: begin() returns None.
BeginUnmetered(c) ==
  /\ ToForward(c) /\ conn[c].policy = None
  /\ conn' = [conn EXCEPT ![c].pc = "connect", ![c].due = now + ConnectTimeout]
  /\ UNCHANGED <<accounting, now, served, timers, current, shut, unsettled>>

\* Mutant: the delay is not waited.
WaitEnd_AtOnce(c) == grant[c].at

\* _wait_allowance returns at its own deadline, computed from lease.delay.
WaitEnd(c) == grant[c].at + lease[c].delay

WaitOver(c) ==
  /\ At(c, "wait") /\ now >= WaitEnd(c)
  /\ conn' = [conn EXCEPT ![c].pc = "connect", ![c].due = now + ConnectTimeout]
  /\ UNCHANGED <<accounting, now, served, timers, current, shut, unsettled>>

\* Mutant: a client that leaves during the cooldown ends the channel at once.
WaitFails_NoFinish(c) ==
  /\ At(c, "wait") /\ lease[c].delay > 0
  /\ Goto(c, "closing")
  /\ UNCHANGED <<accounting, now, served, timers, current, shut, unsettled>>

\* The poll reports a hangup: the client is gone or the deadline shut the socket.
WaitFails(c) ==
  /\ At(c, "wait") /\ lease[c].delay > 0
  /\ conn' = [conn EXCEPT ![c].pc = "settle", ![c].ends = TRUE]
  /\ UNCHANGED <<accounting, now, served, timers, current, shut, unsettled>>

\* The head goes to the upstream, in one sendall with the socket's timeout,
Connected(c) ==
  /\ At(c, "connect")
  /\ conn' = [conn EXCEPT ![c].pc = "send", ![c].due = now + ConnectTimeout]
  /\ UNCHANGED <<accounting, now, served, timers, current, shut, unsettled>>

\* and so does each piece of the body (_copy_exact).  What had arrived before the socket
\* was shut can still be read.
Piece(c) ==
  /\ At(c, "upload")
  /\ IsShut(c) => conn[c].late < Backlog
  /\ conn' = [conn EXCEPT ![c].pc = "send", ![c].due = now + ConnectTimeout,
                          ![c].late = IF IsShut(c) THEN @ + 1 ELSE @]
  /\ UNCHANGED <<accounting, now, served, timers, current, shut, unsettled>>

Sent(c) ==
  /\ At(c, "send")
  /\ Goto(c, "upload")
  /\ UNCHANGED <<accounting, now, served, timers, current, shut, unsettled>>

\* The head and the whole body reached the upstream: work_started.
Uploaded(c) ==
  /\ At(c, "upload")
  /\ conn' = [conn EXCEPT ![c].pc = "reply", ![c].work = TRUE]
  /\ IF A!Open(c)
     THEN /\ stage' = [stage EXCEPT ![c] = "working"]
          /\ grant' = [grant EXCEPT ![c].started = now]
     ELSE UNCHANGED <<stage, grant>>
  /\ UNCHANGED <<today, day, states, heap, lease, now, served, timers, current, shut, unsettled>>

\* An exception between the connect and the response head: no upstream, a body
\* cut short, an upstream that closes, stalls or answers nonsense.
ExchangeFails(c) ==
  /\ conn[c].pc \in {"connect", "send", "upload", "reply"}
  /\ conn' = [conn EXCEPT ![c].pc = "settle", ![c].ends = TRUE]
  /\ UNCHANGED <<accounting, now, served, timers, current, shut, unsettled>>

\* A response head.  status is assigned before the head is sent to the client,
\* and an interim response (1xx) only repeats the loop.
ReplyHead(c, s, m) ==
  /\ At(c, "reply")
  /\ \/ /\ ~IsShut(c)
        /\ conn' = [conn EXCEPT ![c].pc = IF m = "none" THEN "settle" ELSE "body",
                                ![c].status = s, ![c].mode = m, ![c].completed = (m = "none")]
        /\ unsettled' = [unsettled EXCEPT ![c] = m # "none" /\ conn[c].req.kind = "chat"]
     \/ /\ conn' = [conn EXCEPT ![c].pc = "settle", ![c].status = s, ![c].ends = TRUE]
        /\ UNCHANGED unsettled
  /\ UNCHANGED <<accounting, now, served, timers, current, shut>>

\* The body was relayed to its end; a chat response is given to the tally.  A
\* close-delimited one ends the channel.
BodyDone(c, w) ==
  /\ At(c, "body") /\ ~IsShut(c)
  /\ conn' = [conn EXCEPT ![c].pc = "settle", ![c].completed = TRUE, ![c].walker = w,
                          ![c].ends = (conn[c].mode = "close")]
  /\ unsettled' = [unsettled EXCEPT ![c] = FALSE]
  /\ UNCHANGED <<accounting, now, served, timers, current, shut>>

\* The upstream broke off (RelayProtocolError, OSError): the tally gets the
\* response as truncated.
BodyTruncated(c) ==
  /\ At(c, "body")
  /\ conn' = [conn EXCEPT ![c].pc = "settle", ![c].ends = TRUE]
  /\ unsettled' = [unsettled EXCEPT ![c] = FALSE]
  /\ UNCHANGED <<accounting, now, served, timers, current, shut>>

\* Sending to the client failed.  The client is an OpenSSL connection: it raises
\* SSL.Error, which is no OSError, so the tally is not told.
ClientLost(c) ==
  /\ At(c, "body")
  /\ conn' = [conn EXCEPT ![c].pc = "settle", ![c].ends = TRUE]
  /\ UNCHANGED <<accounting, now, served, timers, current, shut, unsettled>>

\* The units of the finally clause.
Charge(c) ==
  IF ~conn[c].work \/ conn[c].status = "refused" THEN {0}
  ELSE IF conn[c].req.kind = "audio" THEN AudioCharges
  ELSE IF conn[c].completed /\ conn[c].walker = "clean" THEN MeasuredCharges
  ELSE {Penalty}

Settle(c, u) ==
  /\ At(c, "settle") /\ u \in Charge(c)
  /\ IF A!Open(c) THEN A!Finish(c, u) ELSE UNCHANGED <<accounting, now>>
  /\ conn' = [conn EXCEPT ![c] =
       [Idle EXCEPT !.pc = IF conn[c].ends \/ conn[c].req.close THEN "closing" ELSE "top",
                    !.started = conn[c].started, !.cred = conn[c].cred,
                    !.policy = conn[c].policy, !.since = conn[c].since]]
  /\ UNCHANGED <<served, timers, current, shut, unsettled>>

-----------------------------------------------------------------------------
(* Time *)

\* A thread waits for its peer, the portal, the upstream or a timer.  Shutting
\* the socket down wakes the ones that wait for the client, not the ones in a call of
\* the upstream's socket.
Blocked(c) ==
  \/ conn[c].pc \in {"idle", "auth", "reply", "body", "closed"}
  \/ conn[c].pc \in {"connect", "send"} /\ now < conn[c].due
  \/ /\ ~IsShut(c)
     /\ \/ conn[c].pc \in {"admit", "head", "drain", "upload", "bye"}
        \/ At(c, "wait") /\ now < WaitEnd(c)

TimersWait(c) == \A k \in {"admission", "hard"} :
  \/ timers[c][k] = "off"
  \/ timers[c][k] = "armed" /\ now < Due(c, k)

Quiet == \A c \in Channels : Blocked(c) /\ TimersWait(c)

Tick == Quiet /\ A!Tick /\ UNCHANGED channel

\* service_actions of the accept loop, and the wall clock.
Expire == A!Expire /\ UNCHANGED channel

SetWallClock(d) == A!SetWallClock(d) /\ UNCHANGED channel

-----------------------------------------------------------------------------
(* What a thread does by itself, what a bounded call returns, and what a    *)
(* thread blocked on its client does once the socket is shut.               *)

Running(c) ==
  \/ Admit(c) \/ Close(c) \/ NextRequest(c) \/ Decline(c) \/ BeginUnmetered(c) \/ WaitOver(c)
  \/ \E o \in Objects : BeginLease(c, o) \/ BeginRefused(c, o)
  \/ \E u \in Units : Settle(c, u)

Called(c) ==
  \/ \E p \in Policies \cup {None} : Authorize(c, p)
  \/ AuthorizeFails(c)
  \/ Connected(c) \/ Sent(c)
  \/ ~At(c, "upload") /\ ExchangeFails(c)
  \/ \E s \in {"served", "refused"}, m \in {"framed", "close", "none"} : ReplyHead(c, s, m)

Broken(c) ==
  \/ AdmitFails(c) \/ HeadEnds(c) \/ RouteFails(c) \/ WaitFails(c)
  \/ At(c, "upload") /\ ExchangeFails(c)
  \/ BodyTruncated(c) \/ ClientLost(c) \/ Farewell(c)

ByClient(c) ==
  \/ Accept(c) \/ ProofSent(c) \/ Drained(c) \/ Piece(c) \/ Uploaded(c)
  \/ \E r \in Requests : ReadHead(c, r)
  \/ \E w \in {"clean", "spoilt"} : BodyDone(c, w)

Timers(c) == \E k \in {"admission", "hard"} : TimerWakes(c, k) \/ Fire(c, k)

Next ==
  \/ \E c \in Channels : Running(c) \/ Called(c) \/ Broken(c) \/ ByClient(c) \/ Timers(c)
  \/ Tick
  \/ Expire
  \/ \E d \in 0..MaxDay : SetWallClock(d)

\* Threads run, calls with a timeout return, timers fire, and a socket that is
\* shut down wakes its reader or writer; the client may stall for ever.
Fairness ==
  /\ WF_vars(Tick)
  /\ \A c \in Channels : /\ WF_vars(Running(c) \/ Called(c) \/ (IsShut(c) /\ Broken(c)))
                         /\ WF_vars(Timers(c))

Spec == Init /\ [][Next]_vars

FairSpec == Spec /\ Fairness

-----------------------------------------------------------------------------
Handler == [pc : {"idle", "admit", "proved", "top", "head", "auth", "route", "drain", "wait",
                  "connect", "send", "upload", "reply", "body", "settle", "closing", "bye",
                  "closed"},
            started : Nat, cred : Credentials \cup {None}, policy : Policies \cup {None},
            since : Nat \cup {Never}, req : Requests \cup {None}, due : Nat, late : Nat,
            work : BOOLEAN,
            status : {"none", "served", "refused"}, mode : {"none", "framed", "close"},
            completed : BOOLEAN, walker : {"none", "clean", "spoilt"}, ends : BOOLEAN]

TypeOK ==
  /\ A!TypeOK
  /\ conn \in [Channels -> Handler]
  /\ served \in [Channels -> 0..MaxRequests]
  /\ timers \in [Channels -> [{"admission", "hard"} -> {"off", "armed", "firing"}]]
  /\ current \in [Channels -> {"admission", "hard", None}]
  /\ shut \in [Channels -> Nat \cup {Never}]
  /\ unsettled \in [Channels -> BOOLEAN]

\* No way out of a request, its exceptions included, keeps its lease (the
\* finally clause of _http_relay): a leaked lease would hold the journal's only
\* slot until midnight and longer.
NoLeakedLease ==
  \A c \in Channels :
    A!Open(c) => conn[c].pc \in {"wait", "connect", "send", "upload", "reply", "body", "settle"}

\* Work is charged to the journal of the credential that its own request
\* carried, and that credential was accepted by the portal on this channel
\* (_bearer_credential, authorize and the comparison with admitted_credential).
ChargedToItsBearer ==
  \A c \in Channels :
    conn[c].pc \in {"wait", "connect", "send", "upload", "reply", "body"} =>
      /\ conn[c].since # Never
      /\ conn[c].req.cred = conn[c].cred
      /\ A!Open(c) => lease[c].journal = JournalOf[conn[c].req.cred]

\* An admitted channel is shut down by its deadline no sooner than T_max + G
\* after accept: an admission timer that had already woken when the deadline
\* was re-armed cannot cut it, nor one that had woken when it was cancelled cut the
\* farewell (the identity test of _ConnectionDeadline._fire).
AdmittedKeepsItsTime ==
  [][\A c \in Channels :
       shut[c] = Never /\ shut'[c] # Never /\ current[c] # "admission" =>
         /\ conn[c].pc \notin {"bye", "closed"}
         /\ now >= conn[c].started + Turnover]_vars

\* Revocation is bounded by channel turnover, but not by T_max + G alone: the shutdown
\* reaches the client's socket and not the upstream's.  Work begins at most T_max + G
\* after the portal accepted the credential, and the time of one upstream connect, of
\* sending the head and of sending each piece of the body that had arrived by then.
ServedWithinTurnover ==
  [][\A c \in Channels :
       ~conn[c].work /\ conn'[c].work =>
         now <= conn[c].since + Turnover + Calls(2 + Backlog)]_vars

\* The relay uses the allowance as module Allowance assumes: in particular work
\* begins only after the lease's delay, whatever the channel's deadline, the
\* client or the upstream do meanwhile.
AllowanceProtocol == A!Spec

\* Whatever the client does or fails to do, its handler thread comes to its end: it
\* closes, or, with its lease returned and its deadline cancelled, takes its leave of a
\* client whose socket was never shut and who alone can now hold it (the finally clause
\* of handle calls the blocking shutdown() without a timer).
EveryConnectionCloses ==
  \A c \in Channels :
    At(c, "admit") ~> \/ At(c, "closed")
                      \/ At(c, "bye") /\ ~IsShut(c) /\ ~A!Open(c) /\ current[c] = None

\* Every chat response whose body was begun is given to the tally, complete or
\* truncated, before its handler leaves the response (commit_response in
\* _http_relay).
ResponseAccounted ==
  \A c \in Channels : unsettled[c] => At(c, "body")
=============================================================================
