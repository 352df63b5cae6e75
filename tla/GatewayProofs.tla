--------------------------- MODULE GatewayProofs ---------------------------
(***************************************************************************)
(* Proofs about the gateway's channels, for any number of connections,     *)
(* credentials, journals and policies and for every timeout.               *)
(*                                                                         *)
(* The ledger's own invariant (AllowanceProofs) is carried along: every    *)
(* step of the gateway is a step of the ledger or leaves it alone, given   *)
(* what is known of a channel at each point of handle and _http_relay      *)
(* (ChannelOK): under which lease, which credential and which timer it is, *)
(* and how late it can be.                                                 *)
(***************************************************************************)
EXTENDS Gateway, TLAPS

\* The proofs about the allowance, over the variables the two modules share.
AP == INSTANCE AllowanceProofs

-----------------------------------------------------------------------------
(* The inductive invariant.                                                *)

PCs == {"idle", "admit", "proved", "top", "head", "auth", "route", "drain", "wait",
        "connect", "send", "upload", "reply", "body", "settle", "closing", "bye", "closed"}

\* A request is under way, it is forwarded, it may hold a lease, and the channel is
\* admitted and not at its end.
Reading == {"auth", "route", "drain", "wait", "connect", "send", "upload", "reply", "body",
            "settle"}
Bearing == {"route", "wait", "connect", "send", "upload", "reply", "body"}
Leased == {"wait", "connect", "send", "upload", "reply", "body", "settle"}
Admitted == {"top", "head"} \cup Reading

\* What is known of channel c when its handler's locals are h.  The lease of a request:
\* its work has not begun before the body is up, the wait is over once the upstream is
\* connected, and it is the journal of the credential.
LeaseOK(c, h) ==
  /\ A!Open(c) => /\ h.pc \in Leased
                  /\ h.cred # None
                  /\ lease[c].journal = JournalOf[h.cred]
  /\ A!Open(c) /\ h.pc \in {"wait", "connect", "send", "upload"} => stage[c] = "waiting"
  /\ A!Open(c) /\ h.pc \in {"connect", "send", "upload"} => now >= WaitEnd(c)

\* The credential of a request that is forwarded, and since when the portal accepts it.
BearerOK(h) ==
  /\ h.pc \in Reading => h.req # None
  /\ h.pc = "auth" => h.req.cred # None
  /\ h.pc \in Bearing => h.cred # None /\ h.req.cred = h.cred
  /\ h.cred # None => h.since # Never
  /\ h.pc \in {"admit", "proved"} => h.since = Never
  /\ h.since # Never => h.started <= h.since /\ h.since <= now

\* The timers: an admitted channel is under the hard deadline until it is shut, the hard
\* timer wakes at T_max + G, and until then an accepted credential is younger than that.
TimerOK(c, h) ==
  /\ h.started <= now
  /\ h.pc = "idle" => timers[c]["hard"] = "off" /\ current[c] = None
  /\ h.pc \in {"bye", "closed"} => current[c] = None
  /\ timers[c]["hard"] = "firing" => now >= h.started + Turnover
  /\ h.pc \in Admitted /\ shut[c] = Never =>
       current[c] = "hard" /\ timers[c]["hard"] \in {"armed", "firing"}
  /\ h.pc \in Admitted /\ shut[c] = Never /\ h.since # Never => now <= h.since + Turnover

\* How late a request can be: before and during the connect, and while the head and the
\* pieces of the body are sent, each piece that is read from a shut socket one call later.
TurnoverOK(h) ==
  /\ h.late <= Backlog
  /\ h.pc \in {"route", "wait"} => now <= h.since + Turnover
  /\ h.pc = "connect" => now <= h.due /\ h.due <= h.since + Turnover + ConnectTimeout
  /\ h.pc = "send" => now <= h.due /\ h.due <= h.since + Turnover + Calls(2 + h.late)
  /\ h.pc = "upload" => now <= h.since + Turnover + Calls(2 + h.late)

ChannelOK(c, h) == LeaseOK(c, h) /\ BearerOK(h) /\ TimerOK(c, h) /\ TurnoverOK(h)

\* The types of what a channel is made of, apart from the ledger's.
ChannelTypeOK ==
  /\ conn \in [Channels -> Handler]
  /\ timers \in [Channels -> [{"admission", "hard"} -> {"off", "armed", "firing"}]]
  /\ current \in [Channels -> {"admission", "hard", None}]
  /\ shut \in [Channels -> Nat \cup {Never}]

\* The types of what the ledger and a channel share.
LeaseTypeOK ==
  /\ now \in Nat
  /\ lease \in [Channels -> A!Lease \cup {None}]
  /\ stage \in [Channels -> {"idle", "waiting", "working"}]
  /\ grant \in [Channels -> A!Grant]

\* What only bounds the model or only records.
HistoryTypeOK ==
  /\ served \in [Channels -> 0..MaxRequests]
  /\ unsettled \in [Channels -> BOOLEAN]

IInv == AP!IInv /\ ChannelTypeOK /\ HistoryTypeOK /\ \A c \in Channels : ChannelOK(c, conn[c])

-----------------------------------------------------------------------------
(* The ledger.                                                             *)

\* The two instances of Allowance are the same specification.
LEMMA SameInit == A!Init => AP!Init
BY DEF A!Init, AP!Init, A!NoGrant, AP!NoGrant, A!Fresh, AP!Fresh, A!Never, AP!Never

LEMMA SameStep == [A!Next]_(A!vars) => [AP!Next]_(AP!vars)
BY DEF A!Next, AP!Next, A!vars, AP!vars, A!Expire, AP!Expire, A!Begin, AP!Begin,
       A!Refuse, AP!Refuse, A!StartWork, AP!StartWork, A!Finish, AP!Finish, A!Tick, AP!Tick,
       A!SetWallClock, AP!SetWallClock, A!ExpiredDay, AP!ExpiredDay, A!ExpiredStates,
       AP!ExpiredStates, A!ExpiredHeap, AP!ExpiredHeap, A!StateFor, AP!StateFor, A!Entry,
       AP!Entry, A!Slower, AP!Slower, A!OccupancyLimit, AP!OccupancyLimit, A!Delay, AP!Delay,
       A!Charged, AP!Charged, A!Released, AP!Released, A!Settled, AP!Settled, A!NoGrant,
       AP!NoGrant, A!Fresh, AP!Fresh, A!Never, AP!Never, A!Open, AP!Open, A!Holders, AP!Holders,
       A!Referenced, AP!Referenced, A!Least, AP!Least, A!Most, AP!Most

\* The ledger's invariant is inductive under its own steps (AllowanceProofs), also here.
LEMMA LedgerStarts == A!Init => AP!IInv
BY SameInit, AP!InitIInv, PolicyAssumption, BoundAssumption, SetAssumption, NoneAssumption
   DEF A!Lease, AP!Lease, IsFiniteSet, AP!IsFiniteSet

LEMMA LedgerKept == AP!IInv /\ [A!Next]_(A!vars) => AP!IInv'
BY SameStep, AP!NextIInv, PolicyAssumption, BoundAssumption, SetAssumption, NoneAssumption
   DEF A!Lease, AP!Lease, IsFiniteSet, AP!IsFiniteSet

\* It types what a channel sees of the ledger.
LEMMA LedgerTypes == AP!IInv => A!TypeOK /\ LeaseTypeOK
BY DEF AP!IInv, AP!TypeOK, A!TypeOK, LeaseTypeOK, A!Lease, AP!Lease, A!Grant, AP!Grant,
       A!StateObject, AP!StateObject, A!Never, AP!Never

LEMMA LedgerTypesKept ==
  ASSUME AP!IInv, [A!Next]_(A!vars)
  PROVE  LeaseTypeOK'
<1>1. AP!IInv'
  BY LedgerKept
<1> QED
  BY <1>1 DEF AP!IInv, AP!TypeOK, LeaseTypeOK, A!Lease, AP!Lease, A!Grant, AP!Grant,
     A!Never, AP!Never

-----------------------------------------------------------------------------
(* The shape of a step.                                                    *)

\* What the action properties of the gateway say of channel c.
KeepsTime(c) ==
  /\ shut[c] = Never /\ shut'[c] # Never /\ current[c] # "admission" =>
       conn[c].pc \notin {"bye", "closed"} /\ now >= conn[c].started + Turnover
  /\ ~conn[c].work /\ conn'[c].work => now <= conn[c].since + Turnover + Calls(2 + Backlog)

\* Nothing of channel d changes.
Still(d) ==
  /\ conn'[d] = conn[d] /\ timers'[d] = timers[d] /\ current'[d] = current[d]
  /\ shut'[d] = shut[d] /\ lease'[d] = lease[d] /\ stage'[d] = stage[d] /\ grant'[d] = grant[d]

\* A step of channel c: the others stand still, and the ledger takes a step of its own.
StepOf(c) ==
  /\ ChannelTypeOK' /\ HistoryTypeOK' /\ now' = now
  /\ ChannelOK(c, conn[c])' /\ KeepsTime(c)
  /\ \A d \in Channels \ {c} : Still(d)
  /\ [A!Next]_(A!vars)

Before(c) == /\ c \in Channels
             /\ LeaseTypeOK /\ ChannelTypeOK /\ HistoryTypeOK /\ ChannelOK(c, conn[c])

\* A step that changes the handler's locals and nothing else.
LEMMA MoveStep ==
  ASSUME NEW c \in Channels, Before(c), NEW y \in Handler, conn' = [conn EXCEPT ![c] = y],
         UNCHANGED <<accounting, now, timers, current, shut>>, HistoryTypeOK',
         ChannelOK(c, y), y.work => conn[c].work
  PROVE  StepOf(c)
<1>1. conn' \in [Channels -> Handler] /\ conn'[c] = y /\ \A d \in Channels \ {c} : conn'[d] = conn[d]
  BY DEF Before, ChannelTypeOK
<1>2. ChannelTypeOK'
  BY <1>1 DEF Before, ChannelTypeOK
<1>3. ChannelOK(c, conn[c])'
  BY <1>1 DEF ChannelOK, LeaseOK, BearerOK, TimerOK, TurnoverOK, accounting, A!Open, WaitEnd
<1>4. [A!Next]_(A!vars)
  BY DEF accounting, A!vars
<1>5. KeepsTime(c)
  BY <1>1 DEF KeepsTime
<1> QED
  BY <1>1, <1>2, <1>3, <1>4, <1>5 DEF StepOf, Still, accounting

\* Going on to p, with the locals as they are.
LEMMA GotoStep ==
  ASSUME NEW c \in Channels, Before(c), NEW p \in PCs, Goto(c, p),
         UNCHANGED <<accounting, now, served, timers, current, shut, unsettled>>,
         \A y \in Handler :
           /\ y.pc = p /\ y.started = conn[c].started /\ y.cred = conn[c].cred
           /\ y.since = conn[c].since /\ y.req = conn[c].req /\ y.due = conn[c].due
           /\ y.late = conn[c].late
           => ChannelOK(c, y)
  PROVE  StepOf(c)
<1> DEFINE y == [conn[c] EXCEPT !.pc = p]
<1>1. conn[c] \in Handler
  BY DEF Before, ChannelTypeOK
<1>2. conn' = [conn EXCEPT ![c] = y]
  BY DEF Goto
<1>3. /\ y \in Handler /\ y.pc = p /\ y.started = conn[c].started /\ y.cred = conn[c].cred
      /\ y.since = conn[c].since /\ y.req = conn[c].req /\ y.due = conn[c].due
      /\ y.late = conn[c].late /\ y.work = conn[c].work
  BY <1>1 DEF Handler, PCs
<1>4. HistoryTypeOK'
  BY DEF Before, HistoryTypeOK
<1> HIDE DEF y
<1> QED
  BY <1>2, <1>3, <1>4, MoveStep

-----------------------------------------------------------------------------
(* The steps of a handler that change its locals only.                     *)

\* The types of the locals, one by one.
LEMMA HandlerFields ==
  ASSUME NEW h \in Handler
  PROVE  /\ h.pc \in PCs /\ h.started \in Nat /\ h.due \in Nat /\ h.late \in Nat
         /\ h.cred \in Credentials \cup {None} /\ h.policy \in Policies \cup {None}
         /\ h.since \in Nat \cup {Never} /\ h.req \in Requests \cup {None}
BY DEF Handler, PCs

\* The values of a response head's status, of the way its body ends, of the walker.
Statuses == {"none", "served", "refused"}
Modes == {"none", "framed", "close"}
Walkers == {"none", "clean", "spoilt"}

LEMMA Points ==
  /\ "idle" \in PCs /\ "admit" \in PCs /\ "proved" \in PCs /\ "top" \in PCs /\ "head" \in PCs
  /\ "auth" \in PCs /\ "route" \in PCs /\ "drain" \in PCs /\ "wait" \in PCs
  /\ "connect" \in PCs /\ "send" \in PCs /\ "upload" \in PCs /\ "reply" \in PCs
  /\ "body" \in PCs /\ "settle" \in PCs /\ "closing" \in PCs /\ "bye" \in PCs
  /\ "closed" \in PCs
BY DEF PCs

LEMMA HandlerIs ==
  Handler = [pc : PCs, started : Nat, cred : Credentials \cup {None},
             policy : Policies \cup {None}, since : Nat \cup {Never},
             req : Requests \cup {None}, due : Nat, late : Nat, work : BOOLEAN,
             status : Statuses, mode : Modes, completed : BOOLEAN, walker : Walkers,
             ends : BOOLEAN]
BY DEF Handler, PCs, Statuses, Modes, Walkers

\* The locals with some of them replaced, each within its type; what the types are made
\* of does not matter.
LEMMA HandlerAsks ==
  ASSUME NEW h \in Handler, NEW p \in PCs, NEW r \in Requests
  PROVE  [h EXCEPT !.pc = p, !.req = r] \in Handler
BY HandlerIs

LEMMA HandlerReplies ==
  ASSUME NEW h \in Handler, NEW p \in PCs, NEW s \in Statuses, NEW m \in Modes,
         NEW d \in BOOLEAN
  PROVE  [h EXCEPT !.pc = p, !.status = s, !.mode = m, !.completed = d] \in Handler
BY HandlerIs

LEMMA HandlerBreaks ==
  ASSUME NEW h \in Handler, NEW p \in PCs, NEW s \in Statuses, NEW e \in BOOLEAN
  PROVE  [h EXCEPT !.pc = p, !.status = s, !.ends = e] \in Handler
BY HandlerIs

LEMMA HandlerEnds ==
  ASSUME NEW h \in Handler, NEW p \in PCs, NEW d \in BOOLEAN, NEW w \in Walkers,
         NEW e \in BOOLEAN
  PROVE  [h EXCEPT !.pc = p, !.completed = d, !.walker = w, !.ends = e] \in Handler
BY HandlerIs

\* A handler before accept.
LEMMA IdleIs ==
  /\ Idle \in Handler /\ Idle.pc = "idle" /\ Idle.started = 0 /\ Idle.cred = None
  /\ Idle.since = Never /\ ~Idle.work /\ Idle.late = 0
<1>1. Idle \in Handler
  BY DEF Idle, Handler
<1> QED
  BY <1>1 DEF Idle

\* The durations are numbers.
LEMMA Durations ==
  /\ Turnover \in Nat /\ ConnectTimeout \in Nat /\ Lifetime \in Nat /\ Backlog \in Nat
  /\ Lifetime <= Turnover
BY GatewayTimeAssumption DEF Turnover

\* One call more, and more calls, of the upstream's socket.
LEMMA OneMoreCall ==
  ASSUME NEW n \in Nat
  PROVE  /\ Calls(2 + n) \in Nat /\ Calls(2 + (n + 1)) = Calls(2 + n) + ConnectTimeout
         /\ ConnectTimeout + ConnectTimeout <= Calls(2 + n)
<1>1. n * ConnectTimeout \in Nat /\ ConnectTimeout \in Nat
  BY Durations
<1>2. /\ (2 + n) * ConnectTimeout = n * ConnectTimeout + ConnectTimeout + ConnectTimeout
      /\ (2 + (n + 1)) * ConnectTimeout
           = n * ConnectTimeout + ConnectTimeout + ConnectTimeout + ConnectTimeout
  BY Durations
<1> DEFINE x == n * ConnectTimeout
<1> HIDE DEF x
<1> QED
  BY <1>1, <1>2 DEF Calls, x

LEMMA MoreCalls ==
  ASSUME NEW m \in Nat, NEW n \in Nat, m <= n
  PROVE  Calls(2 + m) <= Calls(2 + n)
<1>1. (2 + n) * ConnectTimeout = (2 + m) * ConnectTimeout + (n - m) * ConnectTimeout
  BY Durations
<1>2. (n - m) * ConnectTimeout \in Nat /\ (2 + m) * ConnectTimeout \in Nat
  BY Durations
<1> DEFINE x == (n - m) * ConnectTimeout
           z == (2 + m) * ConnectTimeout
<1> HIDE DEF x, z
<1> QED
  BY <1>1, <1>2 DEF Calls, x, z

\* From which point of the handler to which one it may go on with nothing else done: to
\* its end while it holds no lease, and by these steps.
GoesOn(q, p) ==
  \/ p = "closing" /\ q \in PCs \ (Leased \cup {"bye"})
  \/ q = "admit" /\ p = "proved"
  \/ q = "top" /\ p = "head"
  \/ q = "route" /\ p = "drain"
  \/ q = "send" /\ p = "upload"
  \/ q = "bye" /\ p = "closed"

LEMMA GoingOnKeeps ==
  ASSUME NEW c \in Channels, now \in Nat, NEW h \in Handler, ChannelOK(c, h),
         NEW y \in Handler, GoesOn(h.pc, y.pc), h.pc # "idle", h.pc # "closed",
         y.started = h.started, y.cred = h.cred, y.since = h.since, y.req = h.req,
         y.late = h.late
  PROVE  ChannelOK(c, y)
<1>1. LeaseOK(c, h) /\ BearerOK(h) /\ TimerOK(c, h) /\ TurnoverOK(h)
  BY DEF ChannelOK
<1>2. LeaseOK(c, y)
  BY <1>1 DEF LeaseOK, GoesOn, Leased
<1>3. BearerOK(y)
  BY <1>1 DEF BearerOK, GoesOn, Reading, Bearing
<1>4. TimerOK(c, y)
  BY <1>1 DEF TimerOK, GoesOn, Admitted, Reading
<1>5. TurnoverOK(y)
  <2>1. /\ y.pc \in {"closing", "proved", "head", "drain", "upload", "closed"}
        /\ y.late <= Backlog
    BY <1>1 DEF GoesOn, TurnoverOK
  <2>2. CASE y.pc # "upload"
    BY <2>1, <2>2 DEF TurnoverOK
  <2>3. CASE y.pc = "upload"
    <3>1. h.pc = "send"
      BY <2>3 DEF GoesOn
    <3>2. now <= h.due /\ h.due <= h.since + Turnover + Calls(2 + h.late)
      BY <1>1, <3>1 DEF TurnoverOK
    <3>3. h.since # Never
      BY <1>1, <3>1 DEF BearerOK, Bearing
    <3>4. h.since \in Nat /\ h.due \in Nat /\ Calls(2 + h.late) \in Nat
      BY <3>3, HandlerFields, OneMoreCall
    <3>5. now <= h.since + Turnover + Calls(2 + h.late)
      BY <3>2, <3>4, Durations
    <3> QED
      BY <2>1, <2>3, <3>5 DEF TurnoverOK
  <2> QED
    BY <2>2, <2>3
<1> QED
  BY <1>2, <1>3, <1>4, <1>5 DEF ChannelOK

LEMMA GoingOnStep ==
  ASSUME NEW c \in Channels, Before(c), NEW p \in PCs, Goto(c, p), GoesOn(conn[c].pc, p),
         conn[c].pc # "idle", conn[c].pc # "closed",
         UNCHANGED <<accounting, now, served, timers, current, shut, unsettled>>
  PROVE  StepOf(c)
<1>1. conn[c] \in Handler /\ now \in Nat /\ ChannelOK(c, conn[c])
  BY DEF Before, ChannelTypeOK, LeaseTypeOK
<1>2. ASSUME NEW y \in Handler,
             /\ y.pc = p /\ y.started = conn[c].started /\ y.cred = conn[c].cred
             /\ y.since = conn[c].since /\ y.req = conn[c].req /\ y.due = conn[c].due
             /\ y.late = conn[c].late
      PROVE  ChannelOK(c, y)
  BY <1>1, <1>2, GoingOnKeeps
<1> QED
  BY <1>2, GotoStep

\* Those that only go on: admission, the top of the loop, the ends before a lease is
\* taken, a call of the upstream that is done, the leave that is taken.
LEMMA GoingOn ==
  ASSUME NEW c \in Channels, Before(c),
         \/ ProofSent(c) \/ AdmitFails(c) \/ NextRequest(c) \/ HeadEnds(c) \/ AuthorizeFails(c)
         \/ Decline(c) \/ RouteFails(c) \/ Sent(c) \/ Farewell(c)
  PROVE  StepOf(c)
<1>1. UNCHANGED <<accounting, now, served, timers, current, shut, unsettled>>
  BY DEF ProofSent, AdmitFails, NextRequest, HeadEnds, AuthorizeFails, Decline, RouteFails,
         Sent, Farewell
<1>2. PICK p \in PCs : Goto(c, p) /\ GoesOn(conn[c].pc, p) /\ conn[c].pc \notin {"idle", "closed"}
  <2>1. CASE ProofSent(c)
    BY <2>1, Points DEF ProofSent, At, GoesOn, Leased
  <2>2. CASE AdmitFails(c)
    BY <2>2, Points DEF AdmitFails, At, GoesOn, Leased
  <2>3. CASE NextRequest(c)
    BY <2>3, Points DEF NextRequest, At, GoesOn, Leased
  <2>4. CASE HeadEnds(c)
    BY <2>4, Points DEF HeadEnds, At, GoesOn, Leased
  <2>5. CASE AuthorizeFails(c)
    BY <2>5, Points DEF AuthorizeFails, At, GoesOn, Leased
  <2>6. CASE Decline(c)
    BY <2>6, Points DEF Decline, At, GoesOn, Leased
  <2>7. CASE RouteFails(c)
    BY <2>7, Points DEF RouteFails, At, GoesOn, Leased
  <2>8. CASE Sent(c)
    BY <2>8, Points DEF Sent, At, GoesOn, Leased
  <2>9. CASE Farewell(c)
    BY <2>9, Points DEF Farewell, At, GoesOn, Leased
  <2> QED
    BY <2>1, <2>2, <2>3, <2>4, <2>5, <2>6, <2>7, <2>8, <2>9
<1> QED
  BY <1>1, <1>2, GoingOnStep

\* A request head, and what its credential leads to.
LEMMA ReadHeadMoves ==
  ASSUME NEW c \in Channels, Before(c), NEW r \in Requests, ReadHead(c, r)
  PROVE  StepOf(c)
<1> DEFINE step == CredentialStep(c, r.cred)
<1> DEFINE y == [conn[c] EXCEPT !.pc = step, !.req = r]
<1>1. conn[c] \in Handler /\ now \in Nat
  BY DEF Before, ChannelTypeOK, LeaseTypeOK
<1>2. conn' = [conn EXCEPT ![c] = y] /\ UNCHANGED <<accounting, now, timers, current, shut>>
  BY DEF ReadHead
<1>new. r \in Request /\ None \notin Request /\ r.cred \in Credentials \cup {None}
      /\ step \in {"closing", "auth", "route"}
  BY RequestAssumption, CredentialAssumption DEF Request, CredentialStep
<1>more. r # None
  BY <1>new
<1>pc. step \in PCs
  BY <1>new DEF PCs
<1> HIDE DEF step
<1>3. y \in Handler
  BY <1>1, <1>pc, HandlerAsks
<1>4. /\ y.started = conn[c].started
      /\ y.pc = step /\ y.req = r
      /\ y.cred = conn[c].cred
      /\ y.since = conn[c].since
      /\ y.late = conn[c].late /\ y.work = conn[c].work
  BY <1>1 DEF Handler
<1>5. HistoryTypeOK'
  BY GatewayTimeAssumption DEF Before, HistoryTypeOK, ReadHead
<1> HIDE DEF y
<1>6. ChannelOK(c, y)
  BY <1>1, <1>3, <1>4, HandlerFields, Durations, <1>new, <1>more
     DEF Before, At, ChannelOK, LeaseOK, BearerOK, TimerOK, TurnoverOK,
         Reading, Bearing, Leased, Admitted, PCs, ReadHead, Expired, CredentialStep, step
<1> QED
  BY <1>2, <1>3, <1>4, <1>5, <1>6, MoveStep

\* The portal accepts the credential.
LEMMA AuthorizeMoves ==
  ASSUME NEW c \in Channels, Before(c), NEW p \in Policies \cup {None}, Authorize(c, p)
  PROVE  StepOf(c)
<1> DEFINE y == [conn[c] EXCEPT !.pc = "route", !.cred = conn[c].req.cred, !.policy = p, !.since = now]
<1>1. conn[c] \in Handler /\ now \in Nat
  BY DEF Before, ChannelTypeOK, LeaseTypeOK
<1>2. conn' = [conn EXCEPT ![c] = y] /\ UNCHANGED <<accounting, now, timers, current, shut>>
  BY DEF Authorize
<1>new. conn[c].req \in Requests /\ conn[c].req.cred \in Credentials
  BY <1>1, HandlerFields, RequestAssumption DEF Authorize, At, Before, ChannelOK, BearerOK, Reading, Request
<1>3. y \in Handler
  BY <1>1, <1>new, Points, HandlerIs
<1>4. /\ y.started = conn[c].started
      /\ y.pc = "route" /\ y.cred = conn[c].req.cred /\ y.since = now
      /\ y.req = conn[c].req
      /\ y.late = conn[c].late /\ y.work = conn[c].work
  BY <1>1 DEF Handler
<1>5. HistoryTypeOK'
  BY DEF Before, HistoryTypeOK, Authorize
<1> HIDE DEF y
<1>6. ChannelOK(c, y)
  BY <1>1, <1>3, <1>4, HandlerFields, Durations, <1>new, CredentialAssumption
     DEF Before, At, ChannelOK, LeaseOK, BearerOK, TimerOK, TurnoverOK,
         Reading, Bearing, Leased, Admitted, PCs, Authorize, Never
<1> QED
  BY <1>2, <1>3, <1>4, <1>5, <1>6, MoveStep

\* The body of a declined request was read.
LEMMA DrainedMoves ==
  ASSUME NEW c \in Channels, Before(c), Drained(c)
  PROVE  StepOf(c)
<1> DEFINE y == [conn[c] EXCEPT !.pc = "top", !.req = None]
<1>1. conn[c] \in Handler /\ now \in Nat
  BY DEF Before, ChannelTypeOK, LeaseTypeOK
<1>2. conn' = [conn EXCEPT ![c] = y] /\ UNCHANGED <<accounting, now, timers, current, shut>>
  BY DEF Drained
<1>3. y \in Handler
  BY <1>1, Points, HandlerIs
<1>4. /\ y.started = conn[c].started
      /\ y.pc = "top"
      /\ y.cred = conn[c].cred
      /\ y.since = conn[c].since
      /\ y.late = conn[c].late /\ y.work = conn[c].work
  BY <1>1 DEF Handler
<1>5. HistoryTypeOK'
  BY DEF Before, HistoryTypeOK, Drained
<1> HIDE DEF y
<1>6. ChannelOK(c, y)
  BY <1>1, <1>3, <1>4, HandlerFields, Durations
     DEF Before, At, ChannelOK, LeaseOK, BearerOK, TimerOK, TurnoverOK,
         Reading, Bearing, Leased, Admitted, PCs, Drained
<1> QED
  BY <1>2, <1>3, <1>4, <1>5, <1>6, MoveStep

\* An unmetered request goes to the upstream at once.
LEMMA BeginUnmeteredMoves ==
  ASSUME NEW c \in Channels, Before(c), BeginUnmetered(c)
  PROVE  StepOf(c)
<1> DEFINE due == now + ConnectTimeout
<1> DEFINE y == [conn[c] EXCEPT !.pc = "connect", !.due = due]
<1>1. conn[c] \in Handler /\ now \in Nat
  BY DEF Before, ChannelTypeOK, LeaseTypeOK
<1>2. conn' = [conn EXCEPT ![c] = y] /\ UNCHANGED <<accounting, now, timers, current, shut>>
  BY DEF BeginUnmetered
<1>new. due \in Nat
  BY <1>1, Durations
<1> HIDE DEF due
<1>3. y \in Handler
  BY <1>1, <1>new, Points, HandlerIs
<1>4. /\ y.started = conn[c].started
      /\ y.pc = "connect" /\ y.due = due
      /\ y.cred = conn[c].cred
      /\ y.since = conn[c].since
      /\ y.req = conn[c].req
      /\ y.late = conn[c].late /\ y.work = conn[c].work
  BY <1>1 DEF Handler
<1>5. HistoryTypeOK'
  BY DEF Before, HistoryTypeOK, BeginUnmetered
<1> HIDE DEF y
<1>6. ChannelOK(c, y)
  BY <1>1, <1>3, <1>4, HandlerFields, Durations
     DEF Before, At, ChannelOK, LeaseOK, BearerOK, TimerOK, TurnoverOK,
         Reading, Bearing, Leased, Admitted, PCs, BeginUnmetered, ToForward, due
<1> QED
  BY <1>2, <1>3, <1>4, <1>5, <1>6, MoveStep

\* The wait of a lease is over.
LEMMA WaitOverMoves ==
  ASSUME NEW c \in Channels, Before(c), WaitOver(c)
  PROVE  StepOf(c)
<1> DEFINE due == now + ConnectTimeout
<1> DEFINE y == [conn[c] EXCEPT !.pc = "connect", !.due = due]
<1>1. conn[c] \in Handler /\ now \in Nat
  BY DEF Before, ChannelTypeOK, LeaseTypeOK
<1>2. conn' = [conn EXCEPT ![c] = y] /\ UNCHANGED <<accounting, now, timers, current, shut>>
  BY DEF WaitOver
<1>new. due \in Nat
  BY <1>1, Durations
<1> HIDE DEF due
<1>3. y \in Handler
  BY <1>1, <1>new, Points, HandlerIs
<1>4. /\ y.started = conn[c].started
      /\ y.pc = "connect" /\ y.due = due
      /\ y.cred = conn[c].cred
      /\ y.since = conn[c].since
      /\ y.req = conn[c].req
      /\ y.late = conn[c].late /\ y.work = conn[c].work
  BY <1>1 DEF Handler
<1>5. HistoryTypeOK'
  BY DEF Before, HistoryTypeOK, WaitOver
<1> HIDE DEF y
<1>6. ChannelOK(c, y)
  BY <1>1, <1>3, <1>4, HandlerFields, Durations
     DEF Before, At, ChannelOK, LeaseOK, BearerOK, TimerOK, TurnoverOK,
         Reading, Bearing, Leased, Admitted, PCs, WaitOver, due
<1> QED
  BY <1>2, <1>3, <1>4, <1>5, <1>6, MoveStep

\* The upstream is connected, and the head is to be sent.
LEMMA ConnectedMoves ==
  ASSUME NEW c \in Channels, Before(c), Connected(c)
  PROVE  StepOf(c)
<1> DEFINE due == now + ConnectTimeout
<1> DEFINE y == [conn[c] EXCEPT !.pc = "send", !.due = due]
<1>1. conn[c] \in Handler /\ now \in Nat /\ conn[c].pc = "connect"
  BY DEF Before, ChannelTypeOK, LeaseTypeOK, Connected, At
<1>2. conn' = [conn EXCEPT ![c] = y] /\ UNCHANGED <<accounting, now, timers, current, shut>>
  BY DEF Connected
<1>new. due \in Nat
  BY <1>1, Durations
<1> HIDE DEF due
<1>3. y \in Handler
  BY <1>1, <1>new, Points, HandlerIs
<1>4. /\ y.started = conn[c].started
      /\ y.pc = "send" /\ y.due = due
      /\ y.cred = conn[c].cred
      /\ y.since = conn[c].since
      /\ y.req = conn[c].req
      /\ y.late = conn[c].late /\ y.work = conn[c].work
  BY <1>1 DEF Handler
<1>5. HistoryTypeOK'
  BY DEF Before, HistoryTypeOK, Connected
<1> HIDE DEF y
<1>6. TurnoverOK(y)
  <2>1. /\ conn[c].late <= Backlog /\ now <= conn[c].due
        /\ conn[c].due <= conn[c].since + Turnover + ConnectTimeout
        /\ conn[c].since # Never
    BY <1>1 DEF Before, ChannelOK, TurnoverOK, BearerOK, Bearing
  <2>2. /\ conn[c].since \in Nat /\ conn[c].due \in Nat /\ Calls(2 + conn[c].late) \in Nat
        /\ ConnectTimeout + ConnectTimeout <= Calls(2 + conn[c].late)
    BY <1>1, <2>1, HandlerFields, OneMoreCall
  <2>3. now <= due /\ due <= conn[c].since + Turnover + Calls(2 + conn[c].late)
    BY <1>1, <2>1, <2>2, Durations DEF due
  <2> QED
    BY <1>4, <2>1, <2>3 DEF TurnoverOK
<1>7. LeaseOK(c, y) /\ BearerOK(y) /\ TimerOK(c, y)
  BY <1>1, <1>4
     DEF Before, ChannelOK, LeaseOK, BearerOK, TimerOK, Reading, Bearing, Leased, Admitted
<1>8. ChannelOK(c, y)
  BY <1>6, <1>7 DEF ChannelOK
<1> QED
  BY <1>2, <1>3, <1>4, <1>5, <1>8, MoveStep

\* A piece of the body was read, before the socket was shut or of what had arrived by then.
LEMMA PieceMoves ==
  ASSUME NEW c \in Channels, Before(c), Piece(c)
  PROVE  StepOf(c)
<1> DEFINE due == now + ConnectTimeout
           late == IF IsShut(c) THEN conn[c].late + 1 ELSE conn[c].late
<1> DEFINE y == [conn[c] EXCEPT !.pc = "send", !.due = due, !.late = late]
<1>1. conn[c] \in Handler /\ now \in Nat /\ conn[c].pc = "upload"
  BY DEF Before, ChannelTypeOK, LeaseTypeOK, Piece, At
<1>2. conn' = [conn EXCEPT ![c] = y] /\ UNCHANGED <<accounting, now, timers, current, shut>>
  BY DEF Piece
<1>new. due \in Nat /\ late \in Nat /\ conn[c].late \in Nat
  BY <1>1, Durations, HandlerFields
<1> HIDE DEF due, late
<1>3. y \in Handler
  BY <1>1, <1>new, Points, HandlerIs
<1>4. /\ y.started = conn[c].started
      /\ y.pc = "send" /\ y.due = due
      /\ y.cred = conn[c].cred
      /\ y.since = conn[c].since
      /\ y.req = conn[c].req
      /\ y.late = late /\ y.work = conn[c].work
  BY <1>1 DEF Handler
<1>5. HistoryTypeOK'
  BY DEF Before, HistoryTypeOK, Piece
<1> HIDE DEF y
<1>6. TurnoverOK(y)
  <2>1. /\ conn[c].late <= Backlog /\ now <= conn[c].since + Turnover + Calls(2 + conn[c].late)
        /\ conn[c].since # Never
    BY <1>1 DEF Before, ChannelOK, TurnoverOK, BearerOK, Bearing
  <2>2. /\ conn[c].since \in Nat /\ Calls(2 + conn[c].late) \in Nat
        /\ Calls(2 + (conn[c].late + 1)) = Calls(2 + conn[c].late) + ConnectTimeout
        /\ ConnectTimeout + ConnectTimeout <= Calls(2 + conn[c].late)
    BY <1>1, <1>new, <2>1, HandlerFields, OneMoreCall
  <2>3. CASE IsShut(c)
    <3>1. late = conn[c].late + 1 /\ late <= Backlog
      BY <1>new, <2>3, Durations DEF Piece, late
    <3>2. now <= due /\ due <= conn[c].since + Turnover + Calls(2 + late)
      BY <1>1, <2>1, <2>2, <3>1, Durations DEF due
    <3> QED
      BY <1>4, <3>1, <3>2 DEF TurnoverOK
  <2>4. CASE ~IsShut(c)
    <3>1. late = conn[c].late /\ now <= conn[c].since + Turnover
      BY <1>1, <2>1, <2>4
         DEF Before, ChannelOK, TimerOK, Admitted, Reading, IsShut, late
    <3>2. now <= due /\ due <= conn[c].since + Turnover + Calls(2 + late)
      BY <1>1, <2>2, <3>1, Durations DEF due
    <3> QED
      BY <1>4, <2>1, <3>1, <3>2 DEF TurnoverOK
  <2> QED
    BY <2>3, <2>4
<1>7. LeaseOK(c, y) /\ BearerOK(y) /\ TimerOK(c, y)
  BY <1>1, <1>4
     DEF Before, ChannelOK, LeaseOK, BearerOK, TimerOK, Reading, Bearing, Leased, Admitted
<1>8. ChannelOK(c, y)
  BY <1>6, <1>7 DEF ChannelOK
<1> QED
  BY <1>2, <1>3, <1>4, <1>5, <1>8, MoveStep

\* The client leaves during the wait.
LEMMA WaitFailsMoves ==
  ASSUME NEW c \in Channels, Before(c), WaitFails(c)
  PROVE  StepOf(c)
<1> DEFINE y == [conn[c] EXCEPT !.pc = "settle", !.ends = TRUE]
<1>1. conn[c] \in Handler /\ now \in Nat
  BY DEF Before, ChannelTypeOK, LeaseTypeOK
<1>2. conn' = [conn EXCEPT ![c] = y] /\ UNCHANGED <<accounting, now, timers, current, shut>>
  BY DEF WaitFails
<1>3. y \in Handler
  BY <1>1, Points, HandlerIs
<1>4. /\ y.started = conn[c].started
      /\ y.pc = "settle"
      /\ y.cred = conn[c].cred
      /\ y.since = conn[c].since
      /\ y.req = conn[c].req
      /\ y.late = conn[c].late /\ y.work = conn[c].work
  BY <1>1 DEF Handler
<1>5. HistoryTypeOK'
  BY DEF Before, HistoryTypeOK, WaitFails
<1> HIDE DEF y
<1>6. ChannelOK(c, y)
  BY <1>1, <1>3, <1>4, HandlerFields, Durations
     DEF Before, At, ChannelOK, LeaseOK, BearerOK, TimerOK, TurnoverOK,
         Reading, Bearing, Leased, Admitted, PCs, WaitFails
<1> QED
  BY <1>2, <1>3, <1>4, <1>5, <1>6, MoveStep

\* The exchange with the upstream fails.
LEMMA ExchangeFailsMoves ==
  ASSUME NEW c \in Channels, Before(c), ExchangeFails(c)
  PROVE  StepOf(c)
<1> DEFINE y == [conn[c] EXCEPT !.pc = "settle", !.ends = TRUE]
<1>1. conn[c] \in Handler /\ now \in Nat
  BY DEF Before, ChannelTypeOK, LeaseTypeOK
<1>2. conn' = [conn EXCEPT ![c] = y] /\ UNCHANGED <<accounting, now, timers, current, shut>>
  BY DEF ExchangeFails
<1>3. y \in Handler
  BY <1>1, Points, HandlerIs
<1>4. /\ y.started = conn[c].started
      /\ y.pc = "settle"
      /\ y.cred = conn[c].cred
      /\ y.since = conn[c].since
      /\ y.req = conn[c].req
      /\ y.late = conn[c].late /\ y.work = conn[c].work
  BY <1>1 DEF Handler
<1>5. HistoryTypeOK'
  BY DEF Before, HistoryTypeOK, ExchangeFails
<1> HIDE DEF y
<1>6. ChannelOK(c, y)
  BY <1>1, <1>3, <1>4, HandlerFields, Durations
     DEF Before, At, ChannelOK, LeaseOK, BearerOK, TimerOK, TurnoverOK,
         Reading, Bearing, Leased, Admitted, PCs, ExchangeFails
<1> QED
  BY <1>2, <1>3, <1>4, <1>5, <1>6, MoveStep

\* The upstream breaks off.
LEMMA BodyTruncatedMoves ==
  ASSUME NEW c \in Channels, Before(c), BodyTruncated(c)
  PROVE  StepOf(c)
<1> DEFINE y == [conn[c] EXCEPT !.pc = "settle", !.ends = TRUE]
<1>1. conn[c] \in Handler /\ now \in Nat
  BY DEF Before, ChannelTypeOK, LeaseTypeOK
<1>2. conn' = [conn EXCEPT ![c] = y] /\ UNCHANGED <<accounting, now, timers, current, shut>>
  BY DEF BodyTruncated
<1>3. y \in Handler
  BY <1>1, Points, HandlerIs
<1>4. /\ y.started = conn[c].started
      /\ y.pc = "settle"
      /\ y.cred = conn[c].cred
      /\ y.since = conn[c].since
      /\ y.req = conn[c].req
      /\ y.late = conn[c].late /\ y.work = conn[c].work
  BY <1>1 DEF Handler
<1>5. HistoryTypeOK'
  BY DEF Before, HistoryTypeOK, BodyTruncated
<1> HIDE DEF y
<1>6. ChannelOK(c, y)
  BY <1>1, <1>3, <1>4, HandlerFields, Durations
     DEF Before, At, ChannelOK, LeaseOK, BearerOK, TimerOK, TurnoverOK,
         Reading, Bearing, Leased, Admitted, PCs, BodyTruncated
<1> QED
  BY <1>2, <1>3, <1>4, <1>5, <1>6, MoveStep

\* The client cannot be sent to.
LEMMA ClientLostMoves ==
  ASSUME NEW c \in Channels, Before(c), ClientLost(c)
  PROVE  StepOf(c)
<1> DEFINE y == [conn[c] EXCEPT !.pc = "settle", !.ends = TRUE]
<1>1. conn[c] \in Handler /\ now \in Nat
  BY DEF Before, ChannelTypeOK, LeaseTypeOK
<1>2. conn' = [conn EXCEPT ![c] = y] /\ UNCHANGED <<accounting, now, timers, current, shut>>
  BY DEF ClientLost
<1>3. y \in Handler
  BY <1>1, Points, HandlerIs
<1>4. /\ y.started = conn[c].started
      /\ y.pc = "settle"
      /\ y.cred = conn[c].cred
      /\ y.since = conn[c].since
      /\ y.req = conn[c].req
      /\ y.late = conn[c].late /\ y.work = conn[c].work
  BY <1>1 DEF Handler
<1>5. HistoryTypeOK'
  BY DEF Before, HistoryTypeOK, ClientLost
<1> HIDE DEF y
<1>6. ChannelOK(c, y)
  BY <1>1, <1>3, <1>4, HandlerFields, Durations
     DEF Before, At, ChannelOK, LeaseOK, BearerOK, TimerOK, TurnoverOK,
         Reading, Bearing, Leased, Admitted, PCs, ClientLost
<1> QED
  BY <1>2, <1>3, <1>4, <1>5, <1>6, MoveStep

\* The body is relayed to its end.
LEMMA BodyDoneMoves ==
  ASSUME NEW c \in Channels, Before(c), NEW w \in {"clean", "spoilt"}, BodyDone(c, w)
  PROVE  StepOf(c)
<1> DEFINE last == (conn[c].mode = "close")
<1> DEFINE y == [conn[c] EXCEPT !.pc = "settle", !.completed = TRUE, !.walker = w,
                        !.ends = last]
<1>1. conn[c] \in Handler /\ now \in Nat
  BY DEF Before, ChannelTypeOK, LeaseTypeOK
<1>2. conn' = [conn EXCEPT ![c] = y] /\ UNCHANGED <<accounting, now, timers, current, shut>>
  BY DEF BodyDone
<1>new. last = TRUE \/ last = FALSE
  OBVIOUS
<1>more. w = "clean" \/ w = "spoilt"
  OBVIOUS
<1> HIDE DEF last
<1>3. y \in Handler
  <2>1. "settle" \in PCs /\ w \in Walkers /\ last \in BOOLEAN
    BY <1>new, <1>more DEF PCs, Walkers
  <2> QED
    BY <1>1, <2>1, HandlerEnds
<1>4. /\ y.started = conn[c].started
      /\ y.pc = "settle"
      /\ y.cred = conn[c].cred
      /\ y.since = conn[c].since
      /\ y.req = conn[c].req
      /\ y.late = conn[c].late /\ y.work = conn[c].work
  BY <1>1 DEF Handler
<1>5. HistoryTypeOK'
  BY DEF Before, HistoryTypeOK, BodyDone
<1> HIDE DEF y
<1>6. ChannelOK(c, y)
  BY <1>1, <1>3, <1>4, HandlerFields, Durations
     DEF Before, At, ChannelOK, LeaseOK, BearerOK, TimerOK, TurnoverOK,
         Reading, Bearing, Leased, Admitted, PCs, BodyDone
<1> QED
  BY <1>2, <1>3, <1>4, <1>5, <1>6, MoveStep

\* A response head: the body follows, or it has none, or it could not be sent on.
LEMMA ReplyHeadMoves ==
  ASSUME NEW c \in Channels, Before(c), NEW s \in {"served", "refused"},
         NEW m \in {"framed", "close", "none"}, ReplyHead(c, s, m)
  PROVE  StepOf(c)
<1> DEFINE pc == IF m = "none" THEN "settle" ELSE "body"
           done == (m = "none")
           y == [conn[c] EXCEPT !.pc = pc, !.status = s, !.mode = m, !.completed = done]
           z == [conn[c] EXCEPT !.pc = "settle", !.status = s, !.ends = TRUE]
<1>1. conn[c] \in Handler /\ now \in Nat /\ conn \in [Channels -> Handler]
  BY DEF Before, ChannelTypeOK, LeaseTypeOK
<1>2. /\ conn' = [conn EXCEPT ![c] = y] \/ conn' = [conn EXCEPT ![c] = z]
      /\ UNCHANGED <<accounting, now, timers, current, shut>> /\ conn[c].pc = "reply"
  <2>1. CASE conn' = [conn EXCEPT ![c].pc = pc, ![c].status = s, ![c].mode = m,
                                  ![c].completed = done]
    <3>1. conn' = [conn EXCEPT ![c] = y]
      <4> HIDE DEF pc, done
      <4> QED
        BY ONLY <1>1, <2>1, c \in Channels
    <3> QED
      BY <3>1 DEF ReplyHead, At
  <2>2. CASE conn' = [conn EXCEPT ![c].pc = "settle", ![c].status = s, ![c].ends = TRUE]
    BY <2>2 DEF ReplyHead, At
  <2> QED
    BY <2>1, <2>2 DEF ReplyHead
<1>3. HistoryTypeOK'
  <2>1. (m # "none" /\ conn[c].req.kind = "chat") \in BOOLEAN
    OBVIOUS
  <2> QED
    BY <2>1 DEF Before, HistoryTypeOK, ReplyHead
<1>4. pc \in {"settle", "body"} /\ pc \in PCs
  BY DEF PCs
<1> HIDE DEF pc
<1>5. y \in Handler /\ z \in Handler
  <2>1. "settle" \in PCs /\ s \in Statuses /\ m \in Modes /\ done \in BOOLEAN
    BY DEF PCs, Statuses, Modes
  <2> HIDE DEF done
  <2>2. y \in Handler
    BY <1>1, <1>4, <2>1, HandlerReplies
  <2>3. z \in Handler
    BY <1>1, <2>1, HandlerBreaks
  <2> QED
    BY <2>2, <2>3
<1>6. /\ y.pc = pc /\ y.started = conn[c].started /\ y.cred = conn[c].cred
      /\ y.since = conn[c].since /\ y.req = conn[c].req /\ y.work = conn[c].work
      /\ y.late = conn[c].late
  BY <1>1 DEF Handler
<1>7. /\ z.pc = "settle" /\ z.started = conn[c].started /\ z.cred = conn[c].cred
      /\ z.since = conn[c].since /\ z.req = conn[c].req /\ z.work = conn[c].work
      /\ z.late = conn[c].late
  BY <1>1 DEF Handler
<1> HIDE DEF y, z
<1>8. ChannelOK(c, y) /\ ChannelOK(c, z)
  BY <1>1, <1>2, <1>4, <1>5, <1>6, <1>7, HandlerFields, Durations
     DEF Before, ChannelOK, LeaseOK, BearerOK, TimerOK, TurnoverOK,
         Reading, Bearing, Leased, Admitted, PCs
<1> QED
  BY <1>2, <1>3, <1>5, <1>6, <1>7, <1>8, MoveStep

-----------------------------------------------------------------------------
(* Deadlines.                                                              *)

\* A step that changes locals and timers of one channel, not the ledger.
LEMMA DeadlineStep ==
  ASSUME NEW c \in Channels, Before(c), UNCHANGED <<accounting, now, served, unsettled>>,
         NEW y \in Handler, conn' = [conn EXCEPT ![c] = y],
         NEW t \in [{"admission", "hard"} -> {"off", "armed", "firing"}],
         timers' = [timers EXCEPT ![c] = t],
         NEW k \in {"admission", "hard", None}, current' = [current EXCEPT ![c] = k],
         NEW x \in Nat \cup {Never}, shut' = [shut EXCEPT ![c] = x],
         LeaseOK(c, y), BearerOK(y), TurnoverOK(y), TimerOK(c, conn[c])', KeepsTime(c)
  PROVE  StepOf(c)
<1>1. /\ conn' \in [Channels -> Handler] /\ conn'[c] = y
      /\ \A d \in Channels \ {c} : conn'[d] = conn[d] /\ timers'[d] = timers[d]
      /\ \A d \in Channels \ {c} : current'[d] = current[d] /\ shut'[d] = shut[d]
  BY DEF Before, ChannelTypeOK
<1>2. ChannelTypeOK'
  BY <1>1 DEF Before, ChannelTypeOK
<1>3. ChannelOK(c, conn[c])'
  BY <1>1 DEF ChannelOK, LeaseOK, BearerOK, TurnoverOK, accounting, A!Open, WaitEnd
<1>4. [A!Next]_(A!vars) /\ HistoryTypeOK'
  BY DEF accounting, A!vars, Before, HistoryTypeOK
<1> QED
  BY <1>1, <1>2, <1>3, <1>4 DEF StepOf, Still, accounting

\* cancel leaves the timers timers.
LEMMA CancelledType ==
  ASSUME NEW c \in Channels, ChannelTypeOK
  PROVE  /\ Cancelled(c) \in [{"admission", "hard"} -> {"off", "armed", "firing"}]
         /\ Cancelled(c)["hard"] # "armed"
         /\ Cancelled(c)["hard"] = "firing" <=> timers[c]["hard"] = "firing"
BY DEF ChannelTypeOK, Cancelled

\* A timer thread wakes, or takes the lock and finds out whether it is still current.
LEMMA TimersStep ==
  ASSUME NEW c \in Channels, Before(c), Timers(c)
  PROVE  StepOf(c)
<1>1. /\ conn[c] \in Handler /\ conn' = [conn EXCEPT ![c] = conn[c]] /\ conn'[c] = conn[c]
      /\ current' = [current EXCEPT ![c] = current[c]] /\ now \in Nat
      /\ current[c] \in {"admission", "hard", None} /\ current'[c] = current[c]
      /\ UNCHANGED <<accounting, now, served, unsettled>>
  BY DEF Before, ChannelTypeOK, LeaseTypeOK, Timers, TimerWakes, Fire
<1>2. ASSUME NEW k \in {"admission", "hard"}, TimerWakes(c, k) PROVE StepOf(c)
  <2> DEFINE t == [timers[c] EXCEPT ![k] = "firing"]
  <2>1. /\ timers' = [timers EXCEPT ![c] = t] /\ shut' = [shut EXCEPT ![c] = shut[c]]
        /\ shut[c] \in Nat \cup {Never} /\ shut'[c] = shut[c]
    BY <1>2 DEF TimerWakes, Before, ChannelTypeOK
  <2>2. /\ t \in [{"admission", "hard"} -> {"off", "armed", "firing"}]
        /\ t["hard"] = IF k = "hard" THEN "firing" ELSE timers[c]["hard"]
    BY DEF Before, ChannelTypeOK
  <2>3. timers'[c] = t
    BY <2>1 DEF Before, ChannelTypeOK
  <2>4. /\ timers[c][k] = "armed"
        /\ k = "hard" => now >= conn[c].started + Turnover
    BY <1>2 DEF TimerWakes, Due
  <2> HIDE DEF t
  <2>5. TimerOK(c, conn[c])'
    BY <1>1, <2>1, <2>2, <2>3, <2>4 DEF Before, ChannelOK, TimerOK
  <2>6. KeepsTime(c)
    BY <1>1, <2>1 DEF KeepsTime
  <2> QED
    BY <1>1, <2>1, <2>2, <2>5, <2>6, DeadlineStep DEF Before, ChannelOK
<1>3. ASSUME NEW k \in {"admission", "hard"}, Fire(c, k) PROVE StepOf(c)
  <2> DEFINE t == [timers[c] EXCEPT ![k] = "off"]
             x == IF current[c] = k /\ shut[c] = Never THEN now ELSE shut[c]
  <2>1. /\ timers' = [timers EXCEPT ![c] = t] /\ shut' = [shut EXCEPT ![c] = x]
        /\ x \in Nat \cup {Never} /\ shut'[c] = x
    BY <1>1, <1>3 DEF Fire, ShutDown, Before, ChannelTypeOK
  <2>2. /\ t \in [{"admission", "hard"} -> {"off", "armed", "firing"}]
        /\ t["hard"] = IF k = "hard" THEN "off" ELSE timers[c]["hard"]
    BY DEF Before, ChannelTypeOK
  <2>3. timers'[c] = t /\ timers[c][k] = "firing"
    BY <1>3, <2>1 DEF Before, ChannelTypeOK, Fire
  <2> HIDE DEF t
  <2>4. current[c] = k => x # Never
    BY <1>1 DEF Never
  <2>5. TimerOK(c, conn[c])'
    BY <1>1, <2>1, <2>2, <2>3, <2>4 DEF Before, ChannelOK, TimerOK
  <2>6. KeepsTime(c)
    BY <1>1, <2>1, <2>3, CredentialAssumption DEF KeepsTime, Before, ChannelOK, TimerOK, At
  <2> HIDE DEF x
  <2> QED
    BY <1>1, <2>1, <2>2, <2>5, <2>6, DeadlineStep DEF Before, ChannelOK
<1> QED
  BY <1>2, <1>3 DEF Timers

\* Accept arms the admission timer, admission replaces it by the hard one, the end of the
\* handler cancels it.
LEMMA ArmingStep ==
  ASSUME NEW c \in Channels, Before(c), Accept(c) \/ Admit(c) \/ Close(c)
  PROVE  StepOf(c)
<1>1. /\ conn[c] \in Handler /\ now \in Nat /\ timers[c]["hard"] \in {"off", "armed", "firing"}
      /\ shut[c] \in Nat \cup {Never} /\ shut' = [shut EXCEPT ![c] = shut[c]] /\ shut'[c] = shut[c]
      /\ UNCHANGED <<accounting, now, served, unsettled>>
  BY DEF Before, ChannelTypeOK, LeaseTypeOK, Accept, Admit, Close
<1>2. /\ Cancelled(c) \in [{"admission", "hard"} -> {"off", "armed", "firing"}]
      /\ Cancelled(c)["hard"] # "armed"
      /\ Cancelled(c)["hard"] = "firing" <=> timers[c]["hard"] = "firing"
  BY CancelledType DEF Before
<1>3. CASE Accept(c)
  <2> DEFINE y == [Idle EXCEPT !.pc = "admit", !.started = now]
             t == [Cancelled(c) EXCEPT !["admission"] = "armed"]
  <2>1. /\ conn' = [conn EXCEPT ![c] = y] /\ timers' = [timers EXCEPT ![c] = t]
        /\ current' = [current EXCEPT ![c] = "admission"] /\ conn[c].pc = "idle"
    BY <1>3 DEF Accept, Arm, At
  <2>2. /\ y \in Handler /\ y.pc = "admit" /\ y.started = now /\ y.cred = None
        /\ y.since = Never /\ ~y.work /\ y.late = 0
    BY <1>1, IdleIs, HandlerIs, Points
  <2>3. /\ t \in [{"admission", "hard"} -> {"off", "armed", "firing"}]
        /\ t["hard"] = Cancelled(c)["hard"]
    BY <1>2
  <2> HIDE DEF y, t
  <2>4. conn'[c] = y /\ timers'[c] = t /\ current'[c] = "admission"
    BY <2>1 DEF Before, ChannelTypeOK
  <2>5. t["hard"] = "off"
    BY <1>1, <1>2, <2>1, <2>3 DEF Before, ChannelOK, TimerOK
  <2>6. TimerOK(c, conn[c])'
    BY <1>1, <2>2, <2>4, <2>5 DEF TimerOK, Admitted, Reading
  <2>7. LeaseOK(c, y) /\ BearerOK(y) /\ TurnoverOK(y)
    BY <1>1, <2>1, <2>2, Durations
       DEF Before, ChannelOK, LeaseOK, BearerOK, TurnoverOK, Reading, Bearing, Leased
  <2>8. KeepsTime(c)
    BY <1>1, <2>2, <2>4 DEF KeepsTime
  <2> QED
    BY <1>1, <2>1, <2>2, <2>3, <2>6, <2>7, <2>8, DeadlineStep
<1>4. CASE Admit(c)
  <2> DEFINE y == [conn[c] EXCEPT !.pc = "top"]
             t == [Cancelled(c) EXCEPT !["hard"] = "armed"]
  <2>1. /\ conn' = [conn EXCEPT ![c] = y] /\ timers' = [timers EXCEPT ![c] = t]
        /\ current' = [current EXCEPT ![c] = "hard"] /\ conn[c].pc = "proved"
    BY <1>4 DEF Admit, Arm, At, Goto
  <2>2. /\ y \in Handler /\ y.pc = "top" /\ y.started = conn[c].started /\ y.cred = conn[c].cred
        /\ y.since = conn[c].since /\ y.work = conn[c].work /\ y.late = conn[c].late
    BY <1>1 DEF Handler
  <2>3. /\ t \in [{"admission", "hard"} -> {"off", "armed", "firing"}]
        /\ t["hard"] = "armed"
    BY <1>2
  <2> HIDE DEF y, t
  <2>4. conn'[c] = y /\ timers'[c] = t /\ current'[c] = "hard"
    BY <2>1 DEF Before, ChannelTypeOK
  <2>5. TimerOK(c, conn[c])'
    BY <1>1, <2>1, <2>2, <2>3, <2>4 DEF Before, ChannelOK, BearerOK, TimerOK
  <2>6. LeaseOK(c, y) /\ BearerOK(y) /\ TurnoverOK(y)
    BY <1>1, <2>1, <2>2
       DEF Before, ChannelOK, LeaseOK, BearerOK, TurnoverOK, Reading, Bearing, Leased
  <2>7. KeepsTime(c)
    BY <1>1, <2>2, <2>4 DEF KeepsTime
  <2> QED
    BY <1>1, <2>1, <2>2, <2>3, <2>5, <2>6, <2>7, DeadlineStep
<1>5. CASE Close(c)
  <2> DEFINE y == [conn[c] EXCEPT !.pc = "bye"]
             t == Cancelled(c)
  <2>1. /\ conn' = [conn EXCEPT ![c] = y] /\ timers' = [timers EXCEPT ![c] = t]
        /\ current' = [current EXCEPT ![c] = None] /\ conn[c].pc = "closing"
    BY <1>5 DEF Close, Disarm, At, Goto
  <2>2. /\ y \in Handler /\ y.pc = "bye" /\ y.started = conn[c].started
        /\ y.cred = conn[c].cred /\ y.since = conn[c].since /\ y.work = conn[c].work
        /\ y.late = conn[c].late
    BY <1>1 DEF Handler
  <2> HIDE DEF y, t
  <2>3. conn'[c] = y /\ timers'[c] = t /\ current'[c] = None
    BY <2>1 DEF Before, ChannelTypeOK
  <2>4. TimerOK(c, conn[c])'
    BY <1>1, <1>2, <2>2, <2>3 DEF Before, ChannelOK, TimerOK, Admitted, Reading, t
  <2>5. LeaseOK(c, y) /\ BearerOK(y) /\ TurnoverOK(y)
    BY <1>1, <2>1, <2>2
       DEF Before, ChannelOK, LeaseOK, BearerOK, TurnoverOK, Reading, Bearing, Leased
  <2>6. KeepsTime(c)
    BY <1>1, <2>2, <2>3 DEF KeepsTime
  <2> QED
    BY <1>1, <1>2, <2>1, <2>2, <2>4, <2>5, <2>6, DeadlineStep DEF t
<1> QED
  BY <1>3, <1>4, <1>5

-----------------------------------------------------------------------------
(* The steps that the channel takes together with the ledger.              *)

\* A step that changes the locals and the lease of one channel.
LEMMA LedgerStep ==
  ASSUME NEW c \in Channels, Before(c), UNCHANGED <<now, served, timers, current, shut, unsettled>>,
         NEW y \in Handler, conn' = [conn EXCEPT ![c] = y], LeaseTypeOK',
         \A d \in Channels \ {c} :
           lease'[d] = lease[d] /\ stage'[d] = stage[d] /\ grant'[d] = grant[d],
         [A!Next]_(A!vars),
         LeaseOK(c, conn[c])', BearerOK(y), TurnoverOK(y), TimerOK(c, y), KeepsTime(c)
  PROVE  StepOf(c)
<1>1. /\ conn' \in [Channels -> Handler] /\ conn'[c] = y
      /\ \A d \in Channels \ {c} : conn'[d] = conn[d]
  BY DEF Before, ChannelTypeOK
<1>2. ChannelTypeOK' /\ HistoryTypeOK'
  BY <1>1 DEF Before, ChannelTypeOK, HistoryTypeOK
<1>3. ChannelOK(c, conn[c])'
  BY <1>1 DEF ChannelOK, BearerOK, TurnoverOK, TimerOK
<1> QED
  BY <1>1, <1>2, <1>3 DEF StepOf, Still

\* begin() grants a lease.
LEMMA BeginLeaseStep ==
  ASSUME AP!IInv, NEW c \in Channels, Before(c), NEW o \in Objects, BeginLease(c, o)
  PROVE  StepOf(c)
<1> DEFINE y == [conn[c] EXCEPT !.pc = "wait"]
           j == JournalOf[conn[c].cred]
           p == conn[c].policy
<1>1. conn[c] \in Handler /\ now \in Nat /\ conn[c].pc = "route"
  BY DEF Before, ChannelTypeOK, LeaseTypeOK, BeginLease, ToForward, At
<1>2. conn[c].cred \in Credentials /\ j \in Journals /\ p \in Policies
  BY <1>1, HandlerFields, CredentialAssumption
     DEF BeginLease, Before, ChannelOK, BearerOK, Bearing
<1> HIDE DEF j, p
<1>3. A!Begin(c, j, p, o) /\ conn' = [conn EXCEPT ![c] = y]
      /\ UNCHANGED <<served, timers, current, shut, unsettled>>
  BY DEF BeginLease, Goto, j, p
<1>4. [A!Next]_(A!vars)
  BY <1>2, <1>3 DEF A!Next
<1>5. LeaseTypeOK'
  BY <1>4, LedgerTypesKept
<1>6. /\ lease'[c].journal = j /\ stage'[c] = "waiting" /\ now' = now
      /\ \A d \in Channels \ {c} :
           lease'[d] = lease[d] /\ stage'[d] = stage[d] /\ grant'[d] = grant[d]
  BY <1>3 DEF A!Begin, Before, LeaseTypeOK
<1>7. y \in Handler
  BY <1>1 DEF Handler
<1>8. /\ y.pc = "wait" /\ y.started = conn[c].started /\ y.cred = conn[c].cred
      /\ y.since = conn[c].since /\ y.req = conn[c].req /\ y.work = conn[c].work
      /\ y.late = conn[c].late
  BY <1>1 DEF Handler
<1> HIDE DEF y
<1>9. conn'[c] = y
  BY <1>3 DEF Before, ChannelTypeOK
<1>10. LeaseOK(c, conn[c])'
  BY <1>2, <1>6, <1>8, <1>9, CredentialAssumption DEF LeaseOK, Leased, j
<1>11. BearerOK(y) /\ TurnoverOK(y) /\ TimerOK(c, y)
  BY <1>1, <1>8, HandlerFields, Durations
     DEF Before, ChannelOK, BearerOK, TurnoverOK, TimerOK, Reading, Bearing, Admitted
<1>12. KeepsTime(c)
  BY <1>3, <1>8, <1>9 DEF KeepsTime
<1> QED
  BY <1>3, <1>4, <1>5, <1>6, <1>7, <1>10, <1>11, <1>12, LedgerStep

\* begin() refuses: 429.
LEMMA BeginRefusedStep ==
  ASSUME AP!IInv, NEW c \in Channels, Before(c), NEW o \in Objects, BeginRefused(c, o)
  PROVE  StepOf(c)
<1> DEFINE y == [conn[c] EXCEPT !.pc = "closing"]
           j == JournalOf[conn[c].cred]
           p == conn[c].policy
<1>1. conn[c] \in Handler /\ now \in Nat /\ conn[c].pc = "route"
  BY DEF Before, ChannelTypeOK, LeaseTypeOK, BeginRefused, ToForward, At
<1>2. conn[c].cred \in Credentials /\ j \in Journals /\ p \in Policies
  BY <1>1, HandlerFields, CredentialAssumption
     DEF BeginRefused, Before, ChannelOK, BearerOK, Bearing
<1> HIDE DEF j, p
<1>3. A!Refuse(c, j, p, o) /\ conn' = [conn EXCEPT ![c] = y]
      /\ UNCHANGED <<served, timers, current, shut, unsettled>>
  BY DEF BeginRefused, Goto, j, p
<1>4. [A!Next]_(A!vars)
  BY <1>2, <1>3 DEF A!Next
<1>5. LeaseTypeOK'
  BY <1>4, LedgerTypesKept
<1>6. UNCHANGED <<now, lease, stage, grant>> /\ ~A!Open(c) /\ ~A!Open(c)'
  BY <1>3 DEF A!Refuse, A!Open
<1>7. y \in Handler
  BY <1>1 DEF Handler
<1>8. /\ y.pc = "closing" /\ y.started = conn[c].started /\ y.cred = conn[c].cred
      /\ y.since = conn[c].since /\ y.req = conn[c].req /\ y.work = conn[c].work
      /\ y.late = conn[c].late
  BY <1>1 DEF Handler
<1> HIDE DEF y
<1>9. conn'[c] = y
  BY <1>3 DEF Before, ChannelTypeOK
<1>10. LeaseOK(c, conn[c])'
  BY <1>6 DEF LeaseOK
<1>11. BearerOK(y) /\ TurnoverOK(y) /\ TimerOK(c, y)
  BY <1>1, <1>8 DEF Before, ChannelOK, BearerOK, TurnoverOK, TimerOK, Reading, Bearing, Admitted
<1>12. KeepsTime(c)
  BY <1>3, <1>8, <1>9 DEF KeepsTime
<1> QED
  BY <1>3, <1>4, <1>5, <1>6, <1>7, <1>10, <1>11, <1>12, LedgerStep

\* The body is up: the work of an open lease begins.
LEMMA UploadedStep ==
  ASSUME AP!IInv, NEW c \in Channels, Before(c), Uploaded(c)
  PROVE  StepOf(c)
<1> DEFINE y == [conn[c] EXCEPT !.pc = "reply", !.work = TRUE]
<1>1. conn[c] \in Handler /\ now \in Nat /\ conn[c].pc = "upload"
  BY DEF Before, ChannelTypeOK, LeaseTypeOK, Uploaded, At
<1>2. /\ conn' = [conn EXCEPT ![c] = y]
      /\ UNCHANGED <<today, day, states, heap, lease, now, served, timers, current, shut, unsettled>>
  BY DEF Uploaded
<1>3. [A!Next]_(A!vars)
  <2>1. CASE A!Open(c)
    <3>1. stage[c] = "waiting" /\ now >= grant[c].at + lease[c].delay
      BY <1>1, <2>1 DEF Before, ChannelOK, LeaseOK, WaitEnd
    <3>2. A!StartWork(c)
      BY <2>1, <3>1 DEF Uploaded, A!StartWork
    <3> QED
      BY <3>2 DEF A!Next
  <2>2. CASE ~A!Open(c)
    BY <2>2 DEF Uploaded, A!vars
  <2> QED
    BY <2>1, <2>2
<1>4. LeaseTypeOK'
  BY <1>3, LedgerTypesKept
<1>5. \A d \in Channels \ {c} :
        lease'[d] = lease[d] /\ stage'[d] = stage[d] /\ grant'[d] = grant[d]
  BY DEF Uploaded, Before, LeaseTypeOK
<1>6. y \in Handler
  BY <1>1 DEF Handler
<1>7. /\ y.pc = "reply" /\ y.started = conn[c].started /\ y.cred = conn[c].cred
      /\ y.since = conn[c].since /\ y.req = conn[c].req /\ y.late = conn[c].late
  BY <1>1 DEF Handler
<1> HIDE DEF y
<1>8. conn'[c] = y
  BY <1>2 DEF Before, ChannelTypeOK
<1>9. LeaseOK(c, conn[c])'
  BY <1>1, <1>2, <1>7, <1>8 DEF Before, ChannelOK, LeaseOK, Leased, A!Open
<1>10. BearerOK(y) /\ TurnoverOK(y) /\ TimerOK(c, y)
  BY <1>1, <1>7 DEF Before, ChannelOK, BearerOK, TurnoverOK, TimerOK, Reading, Bearing, Admitted
<1>11. KeepsTime(c)
  <2>1. /\ conn[c].late <= Backlog /\ now <= conn[c].since + Turnover + Calls(2 + conn[c].late)
        /\ conn[c].since # Never
    BY <1>1 DEF Before, ChannelOK, TurnoverOK, BearerOK, Bearing
  <2>2. /\ conn[c].since \in Nat /\ Calls(2 + conn[c].late) \in Nat
        /\ Calls(2 + Backlog) \in Nat /\ Calls(2 + conn[c].late) <= Calls(2 + Backlog)
    BY <1>1, <2>1, HandlerFields, Durations, OneMoreCall, MoreCalls
  <2>3. now <= conn[c].since + Turnover + Calls(2 + Backlog)
    BY <1>1, <2>1, <2>2, Durations
  <2> QED
    BY <1>2, <2>3 DEF KeepsTime
<1> QED
  BY <1>2, <1>3, <1>4, <1>5, <1>6, <1>9, <1>10, <1>11, LedgerStep

\* The finally clause: the lease, if there is one, is finished.
LEMMA SettleStep ==
  ASSUME AP!IInv, NEW c \in Channels, Before(c), NEW u \in Units, Settle(c, u)
  PROVE  StepOf(c)
<1> DEFINE pc == IF conn[c].ends \/ conn[c].req.close THEN "closing" ELSE "top"
           y == [Idle EXCEPT !.pc = pc, !.started = conn[c].started, !.cred = conn[c].cred,
                             !.policy = conn[c].policy, !.since = conn[c].since]
<1>1. conn[c] \in Handler /\ now \in Nat /\ conn[c].pc = "settle"
  BY DEF Before, ChannelTypeOK, LeaseTypeOK, Settle, At
<1>2. /\ conn' = [conn EXCEPT ![c] = y]
      /\ UNCHANGED <<served, timers, current, shut, unsettled>>
      /\ IF A!Open(c) THEN A!Finish(c, u) ELSE UNCHANGED <<accounting, now>>
  BY DEF Settle
<1>3. [A!Next]_(A!vars)
  BY <1>2 DEF A!Next, A!vars, accounting
<1>4. LeaseTypeOK'
  BY <1>3, LedgerTypesKept
<1>5. /\ now' = now /\ ~A!Open(c)'
      /\ \A d \in Channels \ {c} :
           lease'[d] = lease[d] /\ stage'[d] = stage[d] /\ grant'[d] = grant[d]
  <2>1. CASE A!Open(c)
    <3>1. /\ lease[c] # None /\ ~lease[c].finished /\ lease[c] \in A!Lease
          /\ now' = now /\ lease' = [lease EXCEPT ![c].finished = TRUE]
          /\ stage' = [stage EXCEPT ![c] = "idle"] /\ grant' = [grant EXCEPT ![c] = A!NoGrant]
      BY <1>2, <2>1 DEF A!Finish, A!Open, Before, LeaseTypeOK
    <3>2. lease'[c].finished
      BY <3>1 DEF Before, LeaseTypeOK, A!Lease
    <3> QED
      BY <3>1, <3>2 DEF Before, LeaseTypeOK, A!Open
  <2>2. CASE ~A!Open(c)
    BY <1>2, <2>2 DEF accounting, A!Open
  <2> QED
    BY <2>1, <2>2
<1>6. pc = "closing" \/ pc = "top"
  OBVIOUS
<1> HIDE DEF pc
<1>7. y \in Handler
  BY <1>1, <1>6, IdleIs, HandlerIs, Points
<1>8. /\ y.pc = pc /\ y.started = conn[c].started /\ y.cred = conn[c].cred
      /\ y.since = conn[c].since /\ ~y.work /\ y.late = 0
  BY <1>1, IdleIs, HandlerIs
<1> HIDE DEF y
<1>9. conn'[c] = y
  BY <1>2 DEF Before, ChannelTypeOK
<1>10. LeaseOK(c, conn[c])'
  BY <1>5 DEF LeaseOK
<1>11. BearerOK(y) /\ TurnoverOK(y) /\ TimerOK(c, y)
  BY <1>1, <1>6, <1>8, Durations
     DEF Before, ChannelOK, BearerOK, TurnoverOK, TimerOK, Reading, Bearing, Admitted
<1>12. KeepsTime(c)
  BY <1>2, <1>8, <1>9 DEF KeepsTime
<1> QED
  BY <1>2, <1>3, <1>4, <1>5, <1>7, <1>10, <1>11, <1>12, LedgerStep

-----------------------------------------------------------------------------
(* All steps.                                                              *)

\* Every step of a handler or of its timers is a step of its channel.
LEMMA ChannelStep ==
  ASSUME AP!IInv, NEW c \in Channels, Before(c),
         Running(c) \/ Called(c) \/ Broken(c) \/ ByClient(c) \/ Timers(c)
  PROVE  StepOf(c)
<1>1. CASE Running(c)
  BY <1>1, ArmingStep, GoingOn, BeginUnmeteredMoves, WaitOverMoves, BeginLeaseStep,
     BeginRefusedStep, SettleStep DEF Running
<1>2. CASE Called(c)
  BY <1>2, AuthorizeMoves, GoingOn, ConnectedMoves, ExchangeFailsMoves, ReplyHeadMoves DEF Called
<1>3. CASE Broken(c)
  BY <1>3, GoingOn, WaitFailsMoves, ExchangeFailsMoves, BodyTruncatedMoves, ClientLostMoves
     DEF Broken
<1>4. CASE ByClient(c)
  BY <1>4, ArmingStep, GoingOn, DrainedMoves, PieceMoves, UploadedStep, ReadHeadMoves, BodyDoneMoves
     DEF ByClient
<1>5. CASE Timers(c)
  BY <1>5, TimersStep
<1> QED
  BY <1>1, <1>2, <1>3, <1>4, <1>5

\* Time passes only while every thread is blocked, which is what bounds how late a
\* request can be: a thread that waits for its client is under the hard timer.
LEMMA TickKeeps ==
  ASSUME LeaseTypeOK, ChannelTypeOK, NEW c \in Channels, ChannelOK(c, conn[c]), Tick
  PROVE  ChannelOK(c, conn[c])'
<1>1. /\ now' = now + 1 /\ now \in Nat /\ Blocked(c) /\ TimersWait(c) /\ conn[c] \in Handler
      /\ UNCHANGED <<conn, timers, current, shut, lease, stage, grant>>
  BY DEF Tick, Quiet, A!Tick, channel, LeaseTypeOK, ChannelTypeOK
<1>2. LeaseOK(c, conn[c])'
  <2>1. A!Open(c) => lease[c].delay \in Nat /\ grant[c].at \in Nat
    BY DEF A!Open, LeaseTypeOK, A!Lease, A!Grant
  <2> QED
    BY <1>1, <2>1 DEF ChannelOK, LeaseOK, A!Open, WaitEnd
<1>3. BearerOK(conn[c])'
  BY <1>1, HandlerFields DEF ChannelOK, BearerOK
<1>4. TimerOK(c, conn[c])'
  <2>1. ASSUME conn[c].pc \in Admitted, shut[c] = Never, conn[c].since # Never
        PROVE  now + 1 <= conn[c].since + Turnover
    <3>1. timers[c]["hard"] \in {"armed", "firing"}
      BY <2>1 DEF ChannelOK, TimerOK
    <3>2. now < conn[c].started + Turnover
      BY <1>1, <3>1 DEF TimersWait, Due
    <3>3. conn[c].since \in Nat /\ conn[c].started <= conn[c].since
      BY <1>1, <2>1, HandlerFields DEF ChannelOK, BearerOK
    <3> QED
      BY <1>1, <3>2, <3>3, HandlerFields, Durations
  <2> QED
    BY <1>1, <2>1, HandlerFields, Durations DEF ChannelOK, TimerOK
<1>5. TurnoverOK(conn[c])'
  <2>1. conn[c].pc # "route"
    BY <1>1 DEF Blocked, At
  <2>2. conn[c].late <= Backlog
    BY DEF ChannelOK, TurnoverOK
  <2>3. CASE conn[c].pc \in {"wait", "upload"}
    <3>1. shut[c] = Never
      BY <1>1, <2>3 DEF Blocked, At, IsShut
    <3>2. conn[c].since # Never /\ conn[c].pc \in Admitted
      BY <2>3 DEF ChannelOK, BearerOK, Bearing, Admitted, Reading
    <3>3. now' <= conn[c].since + Turnover
      BY <1>1, <1>4, <3>1, <3>2 DEF TimerOK
    <3>4. conn[c].since \in Nat /\ Calls(2 + conn[c].late) \in Nat
      BY <1>1, <3>2, HandlerFields, OneMoreCall
    <3>5. now' <= conn[c].since + Turnover + Calls(2 + conn[c].late)
      BY <1>1, <3>3, <3>4, Durations
    <3> QED
      BY <1>1, <2>2, <2>3, <3>3, <3>5 DEF TurnoverOK
  <2>4. CASE conn[c].pc \in {"connect", "send"}
    <3>1. now < conn[c].due
      BY <1>1, <2>4 DEF Blocked, At
    <3>2. now' <= conn[c].due
      BY <1>1, <3>1, HandlerFields
    <3> QED
      BY <1>1, <2>2, <2>4, <3>2 DEF ChannelOK, TurnoverOK
  <2>5. CASE conn[c].pc \notin {"route", "wait", "send", "upload", "connect"}
    BY <1>1, <2>2, <2>5 DEF TurnoverOK
  <2> QED
    BY <2>1, <2>3, <2>4, <2>5
<1> QED
  BY <1>2, <1>3, <1>4, <1>5 DEF ChannelOK

\* The others stand still, so what is known of them stays true.
LEMMA StillKeeps ==
  ASSUME NEW d \in Channels, ChannelOK(d, conn[d]), Still(d), now' = now
  PROVE  ChannelOK(d, conn[d])' /\ KeepsTime(d)
BY DEF Still, ChannelOK, LeaseOK, BearerOK, TimerOK, TurnoverOK, A!Open, WaitEnd, KeepsTime

\* The clocks and the accept loop's housekeeping are steps of the ledger alone.
LEMMA LedgerAlone ==
  ASSUME IInv, Tick \/ Expire \/ \E d \in 0..MaxDay : SetWallClock(d)
  PROVE  /\ [A!Next]_(A!vars) /\ UNCHANGED channel
         /\ \A c \in Channels : ChannelOK(c, conn[c])'
<1>1. [A!Next]_(A!vars) /\ UNCHANGED channel
  BY DEF Tick, Expire, SetWallClock, A!Next
<1>2. LeaseTypeOK
  BY LedgerTypes DEF IInv
<1>3. CASE Tick
  BY <1>1, <1>2, <1>3, TickKeeps DEF IInv
<1>4. CASE Expire \/ \E d \in 0..MaxDay : SetWallClock(d)
  <2>1. UNCHANGED <<conn, timers, current, shut, lease, stage, grant, now>>
    BY <1>4 DEF Expire, SetWallClock, A!Expire, A!SetWallClock, channel
  <2>2. \A c \in Channels : Still(c)
    BY <2>1 DEF Still
  <2> QED
    BY <1>1, <2>1, <2>2, StillKeeps DEF IInv
<1> QED
  BY <1>1, <1>3, <1>4

\* What one step of the gateway does, under the invariant.
LEMMA NextStep ==
  ASSUME IInv, [Next]_vars
  PROVE  IInv' /\ [A!Next]_(A!vars) /\ \A c \in Channels : KeepsTime(c)
<1>1. CASE \E c \in Channels : Running(c) \/ Called(c) \/ Broken(c) \/ ByClient(c) \/ Timers(c)
  <2>1. PICK c \in Channels : Running(c) \/ Called(c) \/ Broken(c) \/ ByClient(c) \/ Timers(c)
    BY <1>1
  <2>2. StepOf(c)
    BY <2>1, ChannelStep, LedgerTypes DEF IInv, Before
  <2>3. \A d \in Channels : ChannelOK(d, conn[d])' /\ KeepsTime(d)
    BY <2>2, StillKeeps DEF StepOf, IInv
  <2>4. AP!IInv'
    BY <2>2, LedgerKept DEF StepOf, IInv
  <2> QED
    BY <2>2, <2>3, <2>4 DEF StepOf, IInv
<1>2. CASE Tick \/ Expire \/ \E d \in 0..MaxDay : SetWallClock(d)
  <2>1. /\ [A!Next]_(A!vars) /\ UNCHANGED channel
        /\ \A c \in Channels : ChannelOK(c, conn[c])'
    BY <1>2, LedgerAlone
  <2>2. AP!IInv'
    BY <2>1, LedgerKept DEF IInv
  <2>3. \A c \in Channels : KeepsTime(c)
    BY <2>1 DEF KeepsTime, channel
  <2>4. ChannelTypeOK' /\ HistoryTypeOK'
    BY <2>1 DEF IInv, ChannelTypeOK, HistoryTypeOK, channel
  <2> QED
    BY <2>1, <2>2, <2>3, <2>4 DEF IInv
<1>3. CASE UNCHANGED vars
  <2>1. [A!Next]_(A!vars) /\ UNCHANGED channel /\ UNCHANGED <<lease, stage, grant, now>>
    BY <1>3 DEF vars, A!vars, channel
  <2>2. AP!IInv'
    BY <2>1, LedgerKept DEF IInv
  <2>3. \A c \in Channels : Still(c)
    BY <2>1 DEF Still, channel
  <2>4. \A c \in Channels : ChannelOK(c, conn[c])' /\ KeepsTime(c)
    BY <2>1, <2>3, StillKeeps DEF IInv
  <2>5. ChannelTypeOK' /\ HistoryTypeOK'
    BY <2>1 DEF IInv, ChannelTypeOK, HistoryTypeOK, channel
  <2> QED
    BY <2>1, <2>2, <2>4, <2>5 DEF IInv
<1> QED
  BY <1>1, <1>2, <1>3 DEF Next

LEMMA InitIInv == Init => IInv
<1> SUFFICES ASSUME Init PROVE IInv
  OBVIOUS
<1>1. AP!IInv /\ now = 0 /\ \A c \in Channels : lease[c] = None
  BY LedgerStarts DEF Init, A!Init
<1>2. /\ Idle \in Handler /\ Idle.pc = "idle" /\ Idle.started = 0 /\ Idle.cred = None
      /\ Idle.since = Never /\ Idle.late = 0
  BY IdleIs
<1>3. \A c \in Channels : /\ conn[c] = Idle /\ timers[c]["hard"] = "off" /\ current[c] = None
                          /\ shut[c] = Never
  BY DEF Init
<1>4. ChannelTypeOK /\ HistoryTypeOK
  BY <1>2, GatewayTimeAssumption DEF Init, ChannelTypeOK, HistoryTypeOK
<1>5. \A c \in Channels : ChannelOK(c, conn[c])
  BY <1>1, <1>2, <1>3, CredentialAssumption, Durations
     DEF ChannelOK, LeaseOK, BearerOK, TimerOK, TurnoverOK, Reading, Bearing, Leased, Admitted,
         A!Open
<1> QED
  BY <1>1, <1>4, <1>5 DEF IInv

-----------------------------------------------------------------------------
(* The theorems.                                                           *)

\* The invariant holds in every reachable state of the gateway.
THEOREM GatewayInvariance == Spec => []IInv
<1>1. IInv /\ [Next]_vars => IInv'
  BY NextStep
<1> QED
  BY InitIInv, <1>1, PTL DEF Spec

\* The handlers, the timers and the ledger keep their types.
THEOREM GatewayTypes == Spec => []TypeOK
<1>1. IInv => TypeOK
  BY LedgerTypes DEF IInv, ChannelTypeOK, HistoryTypeOK, TypeOK
<1> QED
  BY <1>1, GatewayInvariance, PTL

\* The relay implements the protocol the ledger is proved under: every step of the
\* gateway is a step of Allowance or leaves it alone.  Work in particular begins only
\* after the lease's delay, whatever the deadline, the client or the upstream do.
THEOREM GatewayImplementsAllowance == Spec => AllowanceProtocol
<1>1. IInv /\ [Next]_vars => [A!Next]_(A!vars)
  BY NextStep
<1>2. Init => A!Init
  BY DEF Init
<1> QED
  BY GatewayInvariance, <1>1, <1>2, PTL DEF Spec, AllowanceProtocol, A!Spec

\* What is proved of the ledger alone holds with the relay around it: every open lease
\* counts once, an over-budget request runs alone under its budget, and it has waited
\* its cooldown before it works.
THEOREM LedgerInTheGateway ==
  Spec => [](A!OccupancyExact /\ A!SlowRunsAlone /\ A!CooldownHonoured)
<1>1. AP!IInv => AP!OccupancyExact /\ AP!SlowRunsAlone /\ AP!CooldownHonoured
  BY AP!InvariantSays, PolicyAssumption, BoundAssumption, SetAssumption, NoneAssumption
     DEF A!Lease, AP!Lease, IsFiniteSet, AP!IsFiniteSet
<1>2. AP!SlowRunsAlone => A!SlowRunsAlone
  BY DEF AP!SlowRunsAlone, A!SlowRunsAlone, AP!Open, A!Open
<1>3. AP!CooldownHonoured => A!CooldownHonoured
  BY DEF AP!CooldownHonoured, A!CooldownHonoured, AP!Open, A!Open, AP!Never, A!Never,
         AP!Unrivalled, A!Unrivalled
<1>4. AP!OccupancyExact => A!OccupancyExact
  BY DEF AP!OccupancyExact, A!OccupancyExact, AP!Open, A!Open, AP!Holders, A!Holders,
         AP!Cardinality, A!Cardinality, AP!IsFiniteSet, A!IsFiniteSet
<1> QED
  BY <1>1, <1>2, <1>3, <1>4, GatewayInvariance, PTL DEF IInv

\* No way out of a request keeps its lease (the finally clause of _http_relay).
THEOREM LeasesReturn == Spec => []NoLeakedLease
<1>1. IInv => NoLeakedLease
  BY DEF IInv, ChannelOK, LeaseOK, Leased, NoLeakedLease
<1> QED
  BY <1>1, GatewayInvariance, PTL

\* Work is charged to the journal of the credential that its own request carried and
\* the portal accepted on this channel.
THEOREM BearerIsCharged == Spec => []ChargedToItsBearer
<1>1. IInv => ChargedToItsBearer
  BY DEF IInv, ChannelOK, LeaseOK, BearerOK, Bearing, ChargedToItsBearer
<1> QED
  BY <1>1, GatewayInvariance, PTL

\* An admission timer that had woken before it was replaced does not cut an admitted
\* channel: it is shut no sooner than T_max + G after accept; nor does one that had woken
\* before it was cancelled cut the farewell (_ConnectionDeadline._fire).
THEOREM AdmittedTime == Spec => AdmittedKeepsItsTime
<1>1. IInv /\ [Next]_vars =>
        [\A c \in Channels :
           shut[c] = Never /\ shut'[c] # Never /\ current[c] # "admission" =>
             /\ conn[c].pc \notin {"bye", "closed"}
             /\ now >= conn[c].started + Turnover]_vars
  BY NextStep DEF KeepsTime
<1> QED
  BY GatewayInvariance, <1>1, PTL DEF Spec, AdmittedKeepsItsTime

\* Revocation is bounded: after the portal accepted the credential, work begins at most
\* T_max + G later and the time of one connect, of sending the head and of sending every
\* piece of the body that waited unread when the socket was shut.
THEOREM TurnoverBoundsWork == Spec => ServedWithinTurnover
<1>1. IInv /\ [Next]_vars =>
        [\A c \in Channels :
           ~conn[c].work /\ conn'[c].work =>
             now <= conn[c].since + Turnover + Calls(2 + Backlog)]_vars
  BY NextStep DEF KeepsTime
<1> QED
  BY GatewayInvariance, <1>1, PTL DEF Spec, ServedWithinTurnover
=============================================================================
