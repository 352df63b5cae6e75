----------------------------- MODULE Allowance -----------------------------
(***************************************************************************)
(* The gateway's daily allowance (allowance.py): every journal has a daily *)
(* budget of work units; a journal that has spent it is not refused but    *)
(* slowed down to one request at a time with a cooldown between requests.  *)
(*                                                                         *)
(* The module models class Allowance (begin, finish, expire) together with *)
(* the protocol its one caller follows, the relay loop of one connection   *)
(* thread (ratls_gateway._http_relay): begin a lease, wait the lease's     *)
(* delay, start the work, finish the lease.  Several connection threads    *)
(* share one Allowance; every method runs under its lock, so each method   *)
(* is one action.                                                          *)
(*                                                                         *)
(* A lease holds a REFERENCE to the _State object it was granted from,     *)
(* while the table `states' may drop its entry for the journal at          *)
(* midnight.  The objects therefore live in a heap and the table and the   *)
(* leases hold their identities.                                           *)
(***************************************************************************)
EXTENDS Integers, FiniteSets

CONSTANTS
  Channels,     \* connection threads; each runs one request at a time
  Journals,     \* authorization.journal values (the table key is their HMAC)
  Objects,      \* identities of _State objects
  Policies,     \* the allowance policies the portal may return
  Units,        \* the work units one request may be charged
  MaxUsed,      \* the saturation bound of `used' (10**15 in the code)
  MaxDay,       \* bound: the last wall-clock day
  MaxTime,      \* bound: the last instant of the monotonic clock
  None          \* Python's None, where a lease or a table entry may be absent

\* parse_authorization bounds every policy field from below by 1, and the
\* largest daily budget is far below the saturation bound of `used'.
ASSUME PolicyAssumption ==
  \A p \in Policies : /\ p.daily \in 1..MaxUsed
                      /\ p.cooldown \in Nat \ {0}
                      /\ p.max_inflight \in Nat \ {0}

ASSUME BoundAssumption ==
  /\ MaxUsed \in Nat \ {0}
  /\ Units \subseteq Nat
  /\ MaxDay \in Nat
  /\ MaxTime \in Nat

ASSUME SetAssumption ==
  /\ IsFiniteSet(Channels)
  /\ None \notin Objects

VARIABLES
  today,    \* the wall clock's day; the operator or NTP may set it back
  now,      \* the monotonic clock
  day,      \* Allowance._day
  states,   \* Allowance._states: journal -> object identity or None
  heap,     \* the _State objects
  lease,    \* the Lease each channel's current request holds, or None
  stage,    \* where the channel's request is: "idle", "waiting", "working"
  grant     \* history: how each channel's lease was granted and started

vars == <<today, now, day, states, heap, lease, stage, grant>>

Never == -1

StateObject == [day : Nat, used : 0..MaxUsed, active : Nat, completed_at : Nat \cup {Never}]

Lease == [journal : Journals, state : Objects, delay : Nat, policy : Policies, finished : BOOLEAN]

ASSUME NoneAssumption == None \notin Lease

\* slow: used >= daily at the grant; at: the instant of the grant; on: the
\* accounting day of the grant; after: the instant the journal's latest
\* charged request of that accounting day had completed; started: the instant
\* its work began.
Grant == [slow : BOOLEAN, at : Nat, on : Nat, after : Nat \cup {Never},
          started : Nat \cup {Never}]

NoGrant == [slow |-> FALSE, at |-> 0, on |-> 0, after |-> Never, started |-> Never]

Fresh(d) == [day |-> d, used |-> 0, active |-> 0, completed_at |-> Never]

Open(c) == lease[c] # None /\ ~lease[c].finished

\* The leases that count against object o.
Holders(o) == {c \in Channels : Open(c) /\ lease[c].state = o}

Referenced(o) == (\E j \in Journals : states[j] = o) \/ Holders(o) # {}

Least(a, b) == IF a <= b THEN a ELSE b

Most(a, b) == IF a >= b THEN a ELSE b

Init ==
  /\ today \in 0..MaxDay
  /\ now = 0
  /\ day = today
  /\ states = [j \in Journals |-> None]
  /\ heap = [o \in Objects |-> Fresh(0)]
  /\ lease = [c \in Channels |-> None]
  /\ stage = [c \in Channels |-> "idle"]
  /\ grant = [c \in Channels |-> NoGrant]

-----------------------------------------------------------------------------
(* _expire: on a later day, entries with an open lease start again from    *)
(* zero, the others are deleted.  Every method but the constructor runs it *)
(* first, so the other actions start from these three values.              *)

\* Mutant: `day == self._day' instead of `<=': a clock set back is a new day.
ExpiredDay_AnyChange == today

ExpiredDay == Most(day, today)

\* Mutant: entries with an open lease are deleted too.
ExpiredStates_DropsActive ==
  IF today <= day THEN states ELSE [j \in Journals |-> None]

ExpiredStates ==
  IF today <= day THEN states
  ELSE [j \in Journals |->
          IF states[j] # None /\ heap[states[j]].active = 0 THEN None ELSE states[j]]

ExpiredHeap ==
  IF today <= day THEN heap
  ELSE [o \in Objects |->
          IF \E j \in Journals : states[j] = o
          THEN IF heap[o].active # 0
               THEN [Fresh(today) EXCEPT !.active = heap[o].active]
               ELSE Fresh(0)                \* deleted: the object is garbage
          ELSE heap[o]]

\* expire(): the accept loop's housekeeping (GatewayServer.service_actions).
Expire ==
  /\ day' = ExpiredDay
  /\ states' = ExpiredStates
  /\ heap' = ExpiredHeap
  /\ UNCHANGED <<today, now, lease, stage, grant>>

-----------------------------------------------------------------------------
\* setdefault(key, _State(day)): the object begin works on.
StateFor(j, o) ==
  IF ExpiredStates[j] # None THEN o = ExpiredStates[j] ELSE ~Referenced(o)

Entry(j, o) == IF ExpiredStates[j] # None THEN ExpiredHeap[o] ELSE Fresh(ExpiredDay)

Slower(s, p) == s.used >= p.daily

\* Mutant: max_inflight requests also over budget.
OccupancyLimit_Flat(s, p) == p.max_inflight

OccupancyLimit(s, p) == IF Slower(s, p) THEN 1 ELSE p.max_inflight

\* Mutant: no wait for a budget that is spent exactly.
Delay_AboveBudget(s, p) ==
  IF s.used > p.daily THEN Most(0, s.completed_at + p.cooldown - now) ELSE 0

Delay(s, p) ==
  IF Slower(s, p) /\ s.completed_at # Never
  THEN Most(0, s.completed_at + p.cooldown - now)
  ELSE 0

\* begin() grants a lease.
Begin(c, j, p, o) ==
  /\ ~Open(c)
  /\ StateFor(j, o)
  /\ LET s == Entry(j, o) IN
       /\ s.active < OccupancyLimit(s, p)
       /\ heap' = [ExpiredHeap EXCEPT ![o] = [s EXCEPT !.active = @ + 1]]
       /\ lease' = [lease EXCEPT ![c] =
            [journal |-> j, state |-> o, delay |-> Delay(s, p), policy |-> p, finished |-> FALSE]]
       /\ grant' = [grant EXCEPT ![c] =
            [slow |-> Slower(s, p), at |-> now, on |-> ExpiredDay,
             after |-> s.completed_at, started |-> Never]]
  /\ states' = [ExpiredStates EXCEPT ![j] = o]
  /\ day' = ExpiredDay
  /\ stage' = [stage EXCEPT ![c] = "waiting"]
  /\ UNCHANGED <<today, now>>

\* begin() raises OccupancyExceeded (the relay answers 429); the table entry
\* it looked up or created stays.
Refuse(c, j, p, o) ==
  /\ ~Open(c)
  /\ StateFor(j, o)
  /\ LET s == Entry(j, o) IN
       /\ s.active >= OccupancyLimit(s, p)
       /\ heap' = [ExpiredHeap EXCEPT ![o] = s]
  /\ states' = [ExpiredStates EXCEPT ![j] = o]
  /\ day' = ExpiredDay
  /\ UNCHANGED <<today, now, lease, stage, grant>>

\* The relay waited lease.delay (_wait_allowance) and sent the request's body
\* upstream: work_started.
StartWork(c) ==
  /\ stage[c] = "waiting"
  /\ now >= grant[c].at + lease[c].delay
  /\ stage' = [stage EXCEPT ![c] = "working"]
  /\ grant' = [grant EXCEPT ![c].started = now]
  /\ UNCHANGED <<today, now, day, states, heap, lease>>

Charged(s, units) ==
  [s EXCEPT !.used = Least(MaxUsed, @ + Most(0, units)), !.completed_at = now]

Released(s) == [s EXCEPT !.active = @ - 1]

\* The state after finish(): the units are charged only if work started.
Settled(s, units, worked) == IF worked THEN Charged(Released(s), units) ELSE Released(s)

\* Mutant: the finished flag is not tested.
Finish_Twice(c, units) ==
  /\ lease[c] # None
  /\ heap' = [ExpiredHeap EXCEPT ![lease[c].state] = Settled(@, units, stage[c] = "working")]
  /\ states' = ExpiredStates
  /\ day' = ExpiredDay
  /\ lease' = [lease EXCEPT ![c].finished = TRUE]
  /\ stage' = [stage EXCEPT ![c] = "idle"]
  /\ grant' = [grant EXCEPT ![c] = NoGrant]
  /\ UNCHANGED <<today, now>>

\* finish(lease, units, worked), idempotent through lease.finished: it is
\* called from the relay's finally clause.
Finish(c, units) ==
  /\ lease[c] # None
  /\ IF lease[c].finished
     THEN UNCHANGED vars
     ELSE LET o == lease[c].state IN
          /\ heap' = [ExpiredHeap EXCEPT ![o] = Settled(@, units, stage[c] = "working")]
          /\ states' = ExpiredStates
          /\ day' = ExpiredDay
          /\ lease' = [lease EXCEPT ![c].finished = TRUE]
          /\ stage' = [stage EXCEPT ![c] = "idle"]
          /\ grant' = [grant EXCEPT ![c] = NoGrant]
          /\ UNCHANGED <<today, now>>

-----------------------------------------------------------------------------
\* The clocks.  The wall clock may jump in both directions.
Tick ==
  /\ now < MaxTime
  /\ now' = now + 1
  /\ UNCHANGED <<today, day, states, heap, lease, stage, grant>>

SetWallClock(d) ==
  /\ today' = d
  /\ UNCHANGED <<now, day, states, heap, lease, stage, grant>>

Next ==
  \/ Expire
  \/ \E c \in Channels, j \in Journals, p \in Policies, o \in Objects :
       Begin(c, j, p, o) \/ Refuse(c, j, p, o)
  \/ \E c \in Channels : StartWork(c)
  \/ \E c \in Channels, u \in Units : Finish(c, u)
  \/ Tick
  \/ \E d \in 0..MaxDay : SetWallClock(d)

Spec == Init /\ [][Next]_vars

-----------------------------------------------------------------------------
TypeOK ==
  /\ today \in Nat
  /\ now \in Nat
  /\ day \in Nat
  /\ states \in [Journals -> Objects \cup {None}]
  /\ heap \in [Objects -> StateObject]
  /\ lease \in [Channels -> Lease \cup {None}]
  /\ stage \in [Channels -> {"idle", "waiting", "working"}]
  /\ grant \in [Channels -> Grant]

\* Every open lease counts exactly once against the object the table holds for
\* its journal, and nothing else does: midnight (Allowance._expire), a second
\* finish of the same lease or a refusal can neither leak a slot nor free one
\* that is in use, and no lease is ever charged to an object the table dropped.
OccupancyExact ==
  /\ \A c \in Channels : Open(c) => states[lease[c].journal] = lease[c].state
  /\ \A j \in Journals :
       states[j] # None => heap[states[j]].active = Cardinality(Holders(states[j]))

\* A request granted over its journal's budget (`slower' in Allowance.begin)
\* runs alone for the rest of that accounting day: a journal's other requests
\* can only join it under a policy with a strictly larger budget.
SlowRunsAlone ==
  \A c, e \in Channels :
    /\ c # e /\ Open(c) /\ Open(e)
    /\ lease[c].state = lease[e].state
    /\ grant[c].slow
    /\ heap[lease[c].state].day = grant[c].on
    => lease[e].policy.daily > lease[c].policy.daily

\* In the accounting day of c's grant, no policy has a larger budget than c's.
Unrivalled(c) ==
  /\ heap[lease[c].state].day = grant[c].on
  /\ \A p \in Policies : p.daily <= lease[c].policy.daily

\* The work of a request granted over budget starts no sooner than cooldown_ms
\* after the journal's previous charged request completed (the delay of
\* Allowance.begin, waited by _wait_allowance); such a previous request always
\* exists, so the `completed_at is not None' test never lets one skip the wait.
\* The delay is chosen at the grant and waited outside the lock; it does not
\* become stale: until the request ends, the completion it was chosen by stays
\* the journal's latest, unless midnight passes or a larger budget lets
\* another request in beside it.
CooldownHonoured ==
  \A c \in Channels :
    Open(c) /\ grant[c].slow =>
      /\ grant[c].after # Never
      /\ stage[c] = "working" => grant[c].started >= grant[c].after + lease[c].policy.cooldown
      /\ Unrivalled(c) => heap[lease[c].state].completed_at = grant[c].after

UsedBy(j) == IF states[j] = None THEN 0 ELSE heap[states[j]].used

\* Within one accounting day the usage held against a journal never decreases,
\* whatever the wall clock does: only a strictly later day forgives it.
UsageOnlyForgivenByANewDay ==
  [][ /\ day' >= day
      /\ day' = day => \A j \in Journals : UsedBy(j)' >= UsedBy(j) ]_vars
=============================================================================
