-------------------------- MODULE AllowanceProofs --------------------------
(***************************************************************************)
(* TLAPS proofs about Allowance, for every set of channels, journals and   *)
(* policies and without any bound on the clocks.                           *)
(***************************************************************************)
EXTENDS Allowance, FiniteSetTheorems, TLAPS

\* active is the number of open leases for every object of the heap, also for
\* those the table no longer holds: what makes deleting inactive entries safe.
ActiveCounts == \A o \in Objects : heap[o].active = Cardinality(Holders(o))

OpenInTable == \A c \in Channels : Open(c) => states[lease[c].journal] = lease[c].state

TableInjective ==
  \A i, j \in Journals : states[i] # None /\ states[i] = states[j] => i = j

\* used and completed_at are reset together.
UsedMeansCompleted == \A o \in Objects : heap[o].used > 0 => heap[o].completed_at # Never

StageMatchesLease == \A c \in Channels : stage[c] # "idle" => Open(c)

\* A grant made over budget stays over budget until its object is reset.
SlowStaysOver ==
  \A c \in Channels : Open(c) =>
    /\ grant[c].on <= day
    /\ grant[c].slow /\ heap[lease[c].state].day = grant[c].on
         => heap[lease[c].state].used >= lease[c].policy.daily

WaitCoversCooldown ==
  \A c \in Channels : Open(c) =>
    /\ grant[c].slow =>
         /\ grant[c].after # Never
         /\ grant[c].at + lease[c].delay >= grant[c].after + lease[c].policy.cooldown
    /\ stage[c] = "working" => grant[c].started >= grant[c].at + lease[c].delay

\* Nobody completes beside an over-budget request nobody may join.
DelayStaysRight ==
  \A c \in Channels : Open(c) /\ grant[c].slow /\ Unrivalled(c)
    => heap[lease[c].state].completed_at = grant[c].after

\* The inductive invariant.
IInv ==
  /\ TypeOK
  /\ ActiveCounts
  /\ OpenInTable
  /\ TableInjective
  /\ UsedMeansCompleted
  /\ StageMatchesLease
  /\ SlowStaysOver
  /\ SlowRunsAlone
  /\ WaitCoversCooldown
  /\ DelayStaysRight

-----------------------------------------------------------------------------
\* The leases that hold an object are finitely many (there are finitely many
\* connection threads), and none hold it exactly when the count is zero.
LEMMA HoldersFinite ==
  ASSUME NEW o PROVE /\ IsFiniteSet(Holders(o))
                     /\ Cardinality(Holders(o)) \in Nat
                     /\ Cardinality(Holders(o)) = 0 <=> Holders(o) = {}
<1>1. Holders(o) \subseteq Channels
  BY DEF Holders
<1>2. IsFiniteSet(Holders(o))
  BY <1>1, FS_Subset, SetAssumption
<1> QED
  BY <1>2, FS_CardinalityType, FS_EmptySet

\* What _expire leaves behind: open leases keep their object and its count,
\* entries only disappear when nothing holds them.
LEMMA ExpiredFacts ==
  ASSUME IInv
  PROVE  /\ ExpiredDay \in Nat /\ ExpiredDay >= day
         /\ ExpiredStates \in [Journals -> Objects \cup {None}]
         /\ ExpiredHeap \in [Objects -> StateObject]
         /\ \A o \in Objects : ExpiredHeap[o].active = heap[o].active
         /\ \A j \in Journals : ExpiredStates[j] # None => ExpiredStates[j] = states[j]
         /\ \A c \in Channels : Open(c) => ExpiredStates[lease[c].journal] = lease[c].state
         /\ \A o \in Objects : ExpiredHeap[o].used > 0 => ExpiredHeap[o].completed_at # Never
         /\ \A c \in Channels :
              /\ Open(c) /\ grant[c].slow
              /\ ExpiredHeap[lease[c].state].day = grant[c].on
              => /\ heap[lease[c].state].day = grant[c].on
                 /\ ExpiredHeap[lease[c].state].used >= lease[c].policy.daily
                 /\ ExpiredHeap[lease[c].state] = heap[lease[c].state]
<1> USE DEF IInv, TypeOK
<1>0. \A c \in Channels : Open(c) =>
        /\ lease[c] \in Lease
        /\ lease[c].journal \in Journals /\ lease[c].state \in Objects
        /\ states[lease[c].journal] = lease[c].state
        /\ heap[lease[c].state].active # 0
  <2> SUFFICES ASSUME NEW c \in Channels, Open(c)
               PROVE  /\ lease[c] \in Lease
                      /\ lease[c].journal \in Journals /\ lease[c].state \in Objects
                      /\ states[lease[c].journal] = lease[c].state
                      /\ heap[lease[c].state].active # 0
    OBVIOUS
  <2>1. lease[c] \in Lease /\ lease[c].journal \in Journals /\ lease[c].state \in Objects
    BY DEF Open, Lease
  <2>2. c \in Holders(lease[c].state)
    BY DEF Holders
  <2>3. heap[lease[c].state].active # 0
    BY <2>1, <2>2, HoldersFinite DEF ActiveCounts
  <2> QED
    BY <2>1, <2>3 DEF OpenInTable
<1>1. CASE today <= day
  <2>1. ExpiredDay = day /\ ExpiredStates = states /\ ExpiredHeap = heap
    BY <1>1 DEF ExpiredDay, ExpiredStates, ExpiredHeap, Most
  <2> QED
    BY <1>0, <2>1 DEF UsedMeansCompleted, SlowStaysOver
<1>2. CASE ~(today <= day)
  <2>1. ExpiredDay = today /\ today > day
    BY <1>2 DEF ExpiredDay, Most
  <2>2. ExpiredStates = [j \in Journals |->
          IF states[j] # None /\ heap[states[j]].active = 0 THEN None ELSE states[j]]
    BY <1>2 DEF ExpiredStates
  <2>3. \A o \in Objects : ExpiredHeap[o] =
          IF \E j \in Journals : states[j] = o
          THEN IF heap[o].active # 0 THEN [Fresh(today) EXCEPT !.active = heap[o].active]
               ELSE Fresh(0)
          ELSE heap[o]
    BY <1>2 DEF ExpiredHeap
  <2>4. \A o \in Objects :
          /\ ExpiredHeap[o] \in StateObject
          /\ ExpiredHeap[o].active = heap[o].active
          /\ ExpiredHeap[o].used > 0 => ExpiredHeap[o].completed_at # Never
    <3> SUFFICES ASSUME NEW o \in Objects
                 PROVE  /\ ExpiredHeap[o] \in StateObject
                        /\ ExpiredHeap[o].active = heap[o].active
                        /\ ExpiredHeap[o].used > 0 => ExpiredHeap[o].completed_at # Never
      OBVIOUS
    <3>1. heap[o] \in StateObject /\ heap[o].active \in Nat
      BY DEF StateObject
    <3>2. CASE ExpiredHeap[o] = heap[o]
      BY <3>1, <3>2 DEF UsedMeansCompleted
    <3>3. CASE ExpiredHeap[o] = Fresh(0) /\ heap[o].active = 0
      BY <3>3, BoundAssumption DEF Fresh, StateObject
    <3>4. CASE ExpiredHeap[o] = [Fresh(today) EXCEPT !.active = heap[o].active]
      <4>1. ExpiredHeap[o] = [day |-> today, used |-> 0, active |-> heap[o].active,
                              completed_at |-> Never]
        BY <3>4 DEF Fresh
      <4> QED
        BY <3>1, <4>1, BoundAssumption DEF StateObject
    <3> QED
      BY <2>3, <3>2, <3>3, <3>4
  <2>5. DOMAIN ExpiredHeap = Objects /\ ExpiredHeap = [o \in Objects |-> ExpiredHeap[o]]
    BY <1>2 DEF ExpiredHeap
  <2>6. ExpiredHeap \in [Objects -> StateObject]
    BY <2>4, <2>5
  <2>7. \A c \in Channels : Open(c) =>
          /\ ExpiredStates[lease[c].journal] = lease[c].state
          /\ ExpiredHeap[lease[c].state].day = today
    <3> SUFFICES ASSUME NEW c \in Channels, Open(c)
                 PROVE  /\ ExpiredStates[lease[c].journal] = lease[c].state
                        /\ ExpiredHeap[lease[c].state].day = today
      OBVIOUS
    <3> DEFINE o == lease[c].state
    <3>1. o \in Objects /\ heap[o].active # 0 /\ lease[c].journal \in Journals
          /\ states[lease[c].journal] = o
      BY <1>0
    <3>2. ExpiredStates[lease[c].journal] = o
      BY <2>2, <3>1
    <3>3. ExpiredHeap[o] = [Fresh(today) EXCEPT !.active = heap[o].active]
      BY <2>3, <3>1
    <3> QED
      BY <3>2, <3>3 DEF Fresh
  <2>8. \A c \in Channels : Open(c) => grant[c].on <= day /\ grant[c].on \in Nat
    BY DEF SlowStaysOver, Grant
  <2>9. \A c \in Channels : Open(c) => ExpiredHeap[lease[c].state].day # grant[c].on
    BY <2>1, <2>7, <2>8
  <2>10. ExpiredStates \in [Journals -> Objects \cup {None}]
    BY <2>2
  <2>11. \A j \in Journals : ExpiredStates[j] # None => ExpiredStates[j] = states[j]
    BY <2>2
  <2>12. ExpiredDay \in Nat /\ ExpiredDay >= day
    BY <2>1
  <2> QED
    BY <2>4, <2>6, <2>7, <2>9, <2>10, <2>11, <2>12
<1> QED
  BY <1>1, <1>2

-----------------------------------------------------------------------------
\* _expire alone preserves the invariant.
LEMMA ExpireStep ==
  ASSUME IInv, Expire PROVE IInv'
<1> USE DEF IInv
<1>0. \A c \in Channels : Open(c)' <=> Open(c)
  BY DEF Expire, Open
<1>1. \A o : Holders(o)' = Holders(o)
  BY DEF Expire, Open, Holders
<1>2. TypeOK'
  BY ExpiredFacts DEF Expire, TypeOK
<1>3. ActiveCounts'
  BY <1>1, ExpiredFacts DEF Expire, ActiveCounts
<1>4. OpenInTable'
  BY <1>0, ExpiredFacts DEF Expire, OpenInTable
<1>5. TableInjective'
  BY ExpiredFacts DEF Expire, TableInjective
<1>6. UsedMeansCompleted'
  BY ExpiredFacts DEF Expire, UsedMeansCompleted
<1>7. StageMatchesLease'
  BY <1>0 DEF Expire, StageMatchesLease
<1>8. SlowStaysOver'
  <2>1. \A c \in Channels : grant[c].on \in Nat
    BY DEF TypeOK, Grant
  <2>2. day \in Nat
    BY DEF TypeOK
  <2> QED
    BY <1>0, <2>1, <2>2, ExpiredFacts DEF Expire, SlowStaysOver
<1>9. SlowRunsAlone'
  BY <1>0, ExpiredFacts DEF Expire, SlowRunsAlone
<1>10. WaitCoversCooldown'
  BY <1>0 DEF Expire, WaitCoversCooldown
<1>11. DelayStaysRight'
  BY <1>0, ExpiredFacts DEF Expire, DelayStaysRight, Unrivalled
<1> QED
  BY <1>2, <1>3, <1>4, <1>5, <1>6, <1>7, <1>8, <1>9, <1>10, <1>11

-----------------------------------------------------------------------------
\* The object begin() works on: its count is exact, nobody else's journal maps
\* to it, and a fresh object has no holders.
LEMMA EntryFacts ==
  ASSUME IInv, NEW j \in Journals, NEW o \in Objects, StateFor(j, o)
  PROVE  /\ Entry(j, o) \in StateObject
         /\ Entry(j, o).active = Cardinality(Holders(o))
         /\ Entry(j, o).used > 0 => Entry(j, o).completed_at # Never
         /\ \A i \in Journals : i # j => ExpiredStates[i] # o
         /\ Holders(o) # {} => ExpiredStates[j] = o /\ Entry(j, o) = ExpiredHeap[o]
<1> USE DEF IInv
<1>1. o # None
  BY SetAssumption
<1>2. CASE ExpiredStates[j] # None
  <2>1. ExpiredStates[j] = o /\ Entry(j, o) = ExpiredHeap[o] /\ states[j] = o
    BY <1>2, ExpiredFacts DEF StateFor, Entry
  <2>2. \A i \in Journals : i # j => ExpiredStates[i] # o
    BY <1>1, <2>1, ExpiredFacts DEF TableInjective
  <2> QED
    BY <2>1, <2>2, ExpiredFacts DEF ActiveCounts
<1>3. CASE ExpiredStates[j] = None
  <2>1. Entry(j, o) = Fresh(ExpiredDay) /\ ~Referenced(o)
    BY <1>3 DEF StateFor, Entry
  <2>2. Holders(o) = {} /\ \A i \in Journals : states[i] # o
    BY <2>1 DEF Referenced
  <2>3. Cardinality(Holders(o)) = 0
    BY <2>2, HoldersFinite
  <2>4. \A i \in Journals : ExpiredStates[i] # o
    BY <1>1, <2>2, ExpiredFacts
  <2>5. Fresh(ExpiredDay) \in StateObject
    BY ExpiredFacts, BoundAssumption DEF Fresh, StateObject
  <2> QED
    BY <2>1, <2>2, <2>3, <2>4, <2>5 DEF Fresh
<1> QED
  BY <1>2, <1>3

\* begin() grants a lease.
LEMMA BeginStep ==
  ASSUME IInv, NEW c \in Channels, NEW j \in Journals, NEW p \in Policies,
         NEW o \in Objects, Begin(c, j, p, o)
  PROVE  IInv'
<1> DEFINE s == Entry(j, o)
<1> USE DEF IInv
<1>1. /\ ~Open(c) /\ StateFor(j, o) /\ s.active < OccupancyLimit(s, p)
      /\ heap' = [ExpiredHeap EXCEPT ![o] = [s EXCEPT !.active = @ + 1]]
      /\ lease' = [lease EXCEPT ![c] =
            [journal |-> j, state |-> o, delay |-> Delay(s, p), policy |-> p, finished |-> FALSE]]
      /\ grant' = [grant EXCEPT ![c] =
            [slow |-> Slower(s, p), at |-> now, on |-> ExpiredDay,
             after |-> s.completed_at, started |-> Never]]
      /\ states' = [ExpiredStates EXCEPT ![j] = o]
      /\ day' = ExpiredDay
      /\ stage' = [stage EXCEPT ![c] = "waiting"]
      /\ today' = today /\ now' = now
  BY DEF Begin
<1>2. /\ s \in StateObject
      /\ s.active = Cardinality(Holders(o))
      /\ s.used > 0 => s.completed_at # Never
      /\ \A i \in Journals : i # j => ExpiredStates[i] # o
      /\ Holders(o) # {} => ExpiredStates[j] = o /\ s = ExpiredHeap[o]
  BY <1>1, EntryFacts
<1> HIDE DEF s
<1>3. /\ s.used \in 0..MaxUsed /\ s.active \in Nat /\ s.completed_at \in Nat \cup {Never}
      /\ s.day \in Nat
  BY <1>2 DEF StateObject
<1>4. /\ p.daily \in Nat /\ p.daily > 0 /\ p.cooldown \in Nat
  BY PolicyAssumption, BoundAssumption
<1>5. now \in Nat /\ lease \in [Channels -> Lease \cup {None}] /\ grant \in [Channels -> Grant]
      /\ stage \in [Channels -> {"idle", "waiting", "working"}]
  BY DEF TypeOK
<1>6. Delay(s, p) \in Nat /\ Slower(s, p) \in BOOLEAN
  BY <1>3, <1>4, <1>5 DEF Delay, Slower, Most, Never
<1>7. lease'[c] = [journal |-> j, state |-> o, delay |-> Delay(s, p), policy |-> p, finished |-> FALSE]
      /\ lease'[c] \in Lease
  BY <1>1, <1>5, <1>6 DEF Lease
<1>8. Open(c)' /\ \A e \in Channels : e # c => (Open(e)' <=> Open(e)) /\ lease'[e] = lease[e]
        /\ grant'[e] = grant[e] /\ stage'[e] = stage[e]
  BY <1>1, <1>5, <1>7, NoneAssumption DEF Open
<1>9. /\ heap'[o] = [s EXCEPT !.active = @ + 1]
      /\ heap'[o] \in StateObject
      /\ heap'[o].active = s.active + 1 /\ heap'[o].used = s.used
      /\ heap'[o].completed_at = s.completed_at /\ heap'[o].day = s.day
      /\ \A x \in Objects : x # o => heap'[x] = ExpiredHeap[x]
  BY <1>1, <1>2, <1>3, ExpiredFacts DEF StateObject
<1>10. TypeOK'
  <2>1. grant'[c] \in Grant
    BY <1>1, <1>3, <1>5, <1>6, ExpiredFacts DEF Grant
  <2>2. grant' \in [Channels -> Grant] /\ lease' \in [Channels -> Lease \cup {None}]
    BY <2>1, <1>1, <1>5, <1>7
  <2>3. heap' \in [Objects -> StateObject]
    BY <1>1, <1>9, ExpiredFacts
  <2>4. states' \in [Journals -> Objects \cup {None}]
    BY <1>1, ExpiredFacts
  <2> QED
    BY <2>2, <2>3, <2>4, <1>1, <1>5, ExpiredFacts DEF TypeOK
<1>11. ActiveCounts'
  <2>1. Holders(o)' = Holders(o) \cup {c} /\ c \notin Holders(o)
    BY <1>1, <1>7, <1>8 DEF Holders
  <2>2. \A x \in Objects : x # o => Holders(x)' = Holders(x)
    BY <1>1, <1>7, <1>8 DEF Holders
  <2>3. Cardinality(Holders(o)') = Cardinality(Holders(o)) + 1
    BY <2>1, HoldersFinite, FS_AddElement
  <2> SUFFICES ASSUME NEW x \in Objects
               PROVE  heap'[x].active = Cardinality(Holders(x)')
    BY DEF ActiveCounts
  <2>4. CASE x = o
    BY <2>3, <2>4, <1>2, <1>9
  <2>5. CASE x # o
    <3>1. heap'[x].active = heap[x].active
      BY <2>5, <1>9, ExpiredFacts
    <3> QED
      BY <2>2, <2>5, <3>1 DEF ActiveCounts
  <2> QED
    BY <2>4, <2>5
<1>12. OpenInTable'
  <2> SUFFICES ASSUME NEW e \in Channels, Open(e)'
               PROVE  states'[lease'[e].journal] = lease'[e].state
    BY DEF OpenInTable
  <2>1. CASE e = c
    BY <2>1, <1>1, <1>7, ExpiredFacts
  <2>2. CASE e # c
    <3>1. Open(e) /\ lease'[e] = lease[e] /\ lease[e].journal \in Journals
      BY <2>2, <1>5, <1>8 DEF Open, Lease
    <3>2. ExpiredStates[lease[e].journal] = lease[e].state
      BY <3>1, ExpiredFacts
    <3>3. CASE lease[e].journal = j
      <4>1. ExpiredStates[j] # None
        BY <3>1, <3>2, <3>3, <1>5, SetAssumption DEF Open, Lease
      <4>2. ExpiredStates[j] = o
        BY <4>1, <1>1 DEF StateFor
      <4> QED
        BY <3>1, <3>2, <3>3, <4>2, <1>1, ExpiredFacts
    <3>4. CASE lease[e].journal # j
      BY <3>1, <3>2, <3>4, <1>1, ExpiredFacts
    <3> QED
      BY <3>3, <3>4
  <2> QED
    BY <2>1, <2>2
<1>13. TableInjective'
  <2>1. \A i \in Journals : states'[i] = IF i = j THEN o ELSE ExpiredStates[i]
    BY <1>1, ExpiredFacts
  <2>2. \A i \in Journals : i # j => ExpiredStates[i] # o
    BY <1>2
  <2> QED
    BY <2>1, <2>2, ExpiredFacts DEF TableInjective
<1>14. UsedMeansCompleted'
  BY <1>2, <1>9, ExpiredFacts DEF UsedMeansCompleted
<1>15. StageMatchesLease'
  BY <1>1, <1>8 DEF StageMatchesLease
<1>16. /\ grant'[c].slow = Slower(s, p) /\ grant'[c].at = now /\ grant'[c].on = ExpiredDay
       /\ grant'[c].after = s.completed_at
  BY <1>1, <1>5
<1>17. SlowStaysOver'
  <2> SUFFICES ASSUME NEW e \in Channels, Open(e)'
               PROVE  /\ grant'[e].on <= day'
                      /\ grant'[e].slow /\ heap'[lease'[e].state].day = grant'[e].on
                           => heap'[lease'[e].state].used >= lease'[e].policy.daily
    BY DEF SlowStaysOver
  <2>1. CASE e = c
    <3>1. lease'[c].state = o /\ lease'[c].policy = p
      BY <1>7
    <3>2. grant'[c].on <= day'
      BY <1>1, <1>16, ExpiredFacts
    <3>3. Slower(s, p) => heap'[o].used >= p.daily
      BY <1>9 DEF Slower
    <3> QED
      BY <2>1, <3>1, <3>2, <3>3, <1>16
  <2>2. CASE e # c
    <3>1. Open(e) /\ lease'[e] = lease[e] /\ grant'[e] = grant[e] /\ lease[e].state \in Objects
          /\ grant[e].on \in Nat /\ day \in Nat
      BY <2>2, <1>5, <1>8 DEF Open, Lease, Grant, TypeOK
    <3>2. grant[e].on <= day'
      BY <3>1, <1>1, ExpiredFacts DEF SlowStaysOver
    <3>3. heap'[lease[e].state].day = ExpiredHeap[lease[e].state].day
          /\ heap'[lease[e].state].used = ExpiredHeap[lease[e].state].used
      <4>1. CASE lease[e].state = o
        <5>1. e \in Holders(o)
          BY <3>1, <4>1 DEF Holders
        <5> QED
          BY <4>1, <5>1, <1>2, <1>9
      <4>2. CASE lease[e].state # o
        BY <3>1, <4>2, <1>9
      <4> QED
        BY <4>1, <4>2
    <3> QED
      BY <3>1, <3>2, <3>3, ExpiredFacts
  <2> QED
    BY <2>1, <2>2
<1>18. SlowRunsAlone'
  <2> SUFFICES ASSUME NEW a \in Channels, NEW e \in Channels, a # e, Open(a)', Open(e)',
                      lease'[a].state = lease'[e].state, grant'[a].slow,
                      heap'[lease'[a].state].day = grant'[a].on
               PROVE  lease'[e].policy.daily > lease'[a].policy.daily
    BY DEF SlowRunsAlone
  <2>1. CASE a = c
    <3>1. Open(e) /\ lease[e].state = o
      BY <2>1, <1>7, <1>8
    <3>2. Holders(o) # {}
      BY <3>1 DEF Holders
    <3>3. s.active # 0
      BY <3>2, <1>2, HoldersFinite
    <3>4. Slower(s, p)
      BY <2>1, <1>16
    <3> QED
      BY <3>3, <3>4, <1>1, <1>3 DEF OccupancyLimit
  <2>2. CASE e = c
    <3>1. Open(a) /\ lease[a].state = o /\ grant'[a] = grant[a] /\ lease'[a] = lease[a]
      BY <2>2, <1>7, <1>8
    <3>2. a \in Holders(o)
      BY <3>1 DEF Holders
    <3>3. s.active # 0 /\ s = ExpiredHeap[o]
      BY <3>2, <1>2, HoldersFinite
    <3>4. ~Slower(s, p)
      BY <3>3, <1>1, <1>3 DEF OccupancyLimit
    <3>5. ExpiredHeap[o].day = grant[a].on /\ grant[a].slow
      <4>1. ExpiredHeap[o].day = grant[a].on
        BY <3>1, <3>3, <1>9
      <4>2. grant[a].slow
        BY <3>1, Zenon
      <4> QED
        BY <4>1, <4>2
    <3>6. s.used >= lease[a].policy.daily
      BY <3>1, <3>3, <3>5, ExpiredFacts
    <3>7. lease[a].policy.daily \in Nat
      BY <3>1, <1>5, PolicyAssumption, BoundAssumption DEF Open, Lease
    <3> QED
      BY <2>2, <3>1, <3>4, <3>6, <3>7, <1>3, <1>4, <1>7 DEF Slower
  <2>3. CASE a # c /\ e # c
    <3>1. Open(a) /\ Open(e) /\ lease'[a] = lease[a] /\ lease'[e] = lease[e]
          /\ grant'[a] = grant[a] /\ lease[a].state \in Objects
      BY <2>3, <1>5, <1>8 DEF Open, Lease
    <3>2. heap'[lease[a].state].day = ExpiredHeap[lease[a].state].day
      <4>1. CASE lease[a].state = o
        <5>1. a \in Holders(o)
          BY <3>1, <4>1 DEF Holders
        <5> QED
          BY <4>1, <5>1, <1>2, <1>9
      <4>2. CASE lease[a].state # o
        BY <3>1, <4>2, <1>9
      <4> QED
        BY <4>1, <4>2
    <3>3. heap[lease[a].state].day = grant[a].on
      BY <3>1, <3>2, ExpiredFacts
    <3> QED
      BY <3>1, <3>3 DEF SlowRunsAlone
  <2> QED
    BY <2>1, <2>2, <2>3
<1>19. WaitCoversCooldown'
  <2> SUFFICES ASSUME NEW e \in Channels, Open(e)'
               PROVE  /\ grant'[e].slow =>
                           /\ grant'[e].after # Never
                           /\ grant'[e].at + lease'[e].delay
                                >= grant'[e].after + lease'[e].policy.cooldown
                      /\ stage'[e] = "working" => grant'[e].started >= grant'[e].at + lease'[e].delay
    BY DEF WaitCoversCooldown
  <2>1. CASE e = c
    <3>1. stage'[c] # "working"
      BY <1>1, <1>5
    <3>2. ASSUME Slower(s, p)
          PROVE  s.completed_at # Never /\ now + Delay(s, p) >= s.completed_at + p.cooldown
      BY <3>2, <1>2, <1>3, <1>4, <1>5 DEF Slower, Delay, Most, Never
    <3> QED
      BY <2>1, <3>1, <3>2, <1>7, <1>16
  <2>2. CASE e # c
    BY <2>2, <1>8 DEF WaitCoversCooldown
  <2> QED
    BY <2>1, <2>2
\* Nobody joins an over-budget request under a budget that is not larger.
<1>20. DelayStaysRight'
  <2> SUFFICES ASSUME NEW e \in Channels, Open(e)', grant'[e].slow, Unrivalled(e)'
               PROVE  heap'[lease'[e].state].completed_at = grant'[e].after
    BY DEF DelayStaysRight
  <2>1. CASE e = c
    <3>1. lease'[c].state = o
      BY <1>7
    <3>2. heap'[o].completed_at = s.completed_at /\ grant'[c].after = s.completed_at
      BY <1>9, <1>16
    <3> QED
      BY ONLY <2>1, <3>1, <3>2
  <2>2. CASE e # c
    <3>1. Open(e) /\ lease'[e] = lease[e] /\ grant'[e] = grant[e] /\ lease[e].state \in Objects
          /\ lease[e].policy \in Policies
      BY <2>2, <1>5, <1>8 DEF Open, Lease
    <3>2. grant[e].slow
      BY <3>1, Zenon
    <3>3. heap'[lease[e].state].day = grant[e].on /\ p.daily <= lease[e].policy.daily
      BY <3>1 DEF Unrivalled
    <3>4. CASE lease[e].state = o
      <4>1. e \in Holders(o)
        BY <3>1, <3>4 DEF Holders
      <4>2. s.active # 0 /\ s = ExpiredHeap[o]
        BY <4>1, <1>2, HoldersFinite
      <4>3. ExpiredHeap[o].day = grant[e].on
        BY <3>3, <3>4, <4>2, <1>9
      <4>4. s.used >= lease[e].policy.daily
        BY <3>1, <3>2, <3>4, <4>2, <4>3, ExpiredFacts
      <4>5. lease[e].policy.daily \in Nat
        BY <3>1, PolicyAssumption, BoundAssumption
      <4>6. Slower(s, p)
        BY <3>3, <4>4, <4>5, <1>3, <1>4 DEF Slower
      <4> QED
        BY <4>2, <4>6, <1>1, <1>3 DEF OccupancyLimit
    <3>5. CASE lease[e].state # o
      <4>1. heap'[lease[e].state] = ExpiredHeap[lease[e].state]
        BY <3>1, <3>5, <1>9
      <4>2. ExpiredHeap[lease[e].state] = heap[lease[e].state]
        BY <3>1, <3>2, <3>3, <4>1, ExpiredFacts
      <4>3. Unrivalled(e)
        BY <3>1, <4>1, <4>2 DEF Unrivalled
      <4> QED
        BY <3>1, <3>2, <4>1, <4>2, <4>3 DEF DelayStaysRight
    <3> QED
      BY <3>4, <3>5
  <2> QED
    BY <2>1, <2>2
<1> QED
  BY <1>10, <1>11, <1>12, <1>13, <1>14, <1>15, <1>17, <1>18, <1>19, <1>20

\* begin() refuses: only the table may gain a fresh, unheld object.
LEMMA RefuseStep ==
  ASSUME IInv, NEW c \in Channels, NEW j \in Journals, NEW p \in Policies,
         NEW o \in Objects, Refuse(c, j, p, o)
  PROVE  IInv'
<1> USE DEF IInv
<1> DEFINE s == Entry(j, o)
<1>1. /\ StateFor(j, o) /\ s.active >= OccupancyLimit(s, p)
      /\ heap' = [ExpiredHeap EXCEPT ![o] = s]
      /\ states' = [ExpiredStates EXCEPT ![j] = o]
      /\ day' = ExpiredDay
      /\ UNCHANGED <<today, now, lease, stage, grant>>
  BY DEF Refuse
<1>2. /\ s \in StateObject
      /\ s.active = Cardinality(Holders(o))
      /\ Holders(o) # {} => ExpiredStates[j] = o /\ s = ExpiredHeap[o]
  BY <1>1, EntryFacts
<1> HIDE DEF s
\* A refusal needs an occupant (the limit is at least 1), so the entry was there.
<1>3. ExpiredStates[j] = o /\ s = ExpiredHeap[o]
  <2>1. OccupancyLimit(s, p) >= 1
    BY PolicyAssumption DEF OccupancyLimit
  <2>2. s.active \in Nat /\ OccupancyLimit(s, p) \in Nat
    BY <1>2, PolicyAssumption DEF StateObject, OccupancyLimit
  <2>3. Cardinality(Holders(o)) # 0
    BY <1>1, <1>2, <2>1, <2>2
  <2> QED
    BY <1>2, <2>3, HoldersFinite
<1>4. heap' = ExpiredHeap /\ states' = ExpiredStates
  BY <1>1, <1>3, ExpiredFacts
<1>5. Expire
  BY <1>1, <1>4 DEF Expire
<1> QED
  BY <1>5, ExpireStep

\* The relay's wait ends and the work starts.
LEMMA StartWorkStep ==
  ASSUME IInv, NEW c \in Channels, StartWork(c) PROVE IInv'
<1> USE DEF IInv
<1>1. /\ stage[c] = "waiting" /\ now >= grant[c].at + lease[c].delay
      /\ stage' = [stage EXCEPT ![c] = "working"]
      /\ grant' = [grant EXCEPT ![c].started = now]
      /\ UNCHANGED <<today, now, day, states, heap, lease>>
  BY DEF StartWork
<1>2. grant \in [Channels -> Grant] /\ now \in Nat
      /\ stage \in [Channels -> {"idle", "waiting", "working"}]
  BY DEF TypeOK
<1>3. Open(c)
  BY <1>1 DEF StageMatchesLease
<1>4. \A e \in Channels : Open(e)' <=> Open(e)
  BY <1>1 DEF Open
<1>5. \A o : Holders(o)' = Holders(o)
  BY <1>1 DEF Holders, Open
<1>6. \A e \in Channels : /\ grant'[e].slow = grant[e].slow /\ grant'[e].at = grant[e].at
                          /\ grant'[e].on = grant[e].on /\ grant'[e].after = grant[e].after
                          /\ grant'[e] \in Grant
                          /\ e # c => grant'[e] = grant[e] /\ stage'[e] = stage[e]
  BY <1>1, <1>2 DEF Grant
<1>7. TypeOK'
  BY <1>1, <1>2, <1>6 DEF TypeOK
<1>8. ActiveCounts' /\ OpenInTable' /\ TableInjective' /\ UsedMeansCompleted'
  BY <1>1, <1>4, <1>5 DEF ActiveCounts, OpenInTable, TableInjective, UsedMeansCompleted
<1>9. StageMatchesLease'
  BY <1>1, <1>3, <1>4, <1>6 DEF StageMatchesLease
<1>10. SlowStaysOver'
  BY <1>1, <1>4, <1>6 DEF SlowStaysOver
<1>11. SlowRunsAlone'
  BY <1>1, <1>4, <1>6 DEF SlowRunsAlone
<1>12. WaitCoversCooldown'
  <2>1. grant'[c].started = now
    BY <1>1, <1>2 DEF Grant
  <2> QED
    BY <2>1, <1>1, <1>4, <1>6 DEF WaitCoversCooldown
<1>13. DelayStaysRight'
  BY <1>1, <1>4, <1>6 DEF DelayStaysRight, Unrivalled
<1> QED
  BY <1>7, <1>8, <1>9, <1>10, <1>11, <1>12, <1>13

\* finish(): one count less, and used only grows.
LEMMA FinishStep ==
  ASSUME IInv, NEW c \in Channels, NEW u \in Units, Finish(c, u), Open(c),
         NEW o \in Objects, o = lease[c].state
  PROVE  IInv'
<1> USE DEF IInv
<1> DEFINE s == ExpiredHeap[o]
           w == Settled(s, u, stage[c] = "working")
<1>1. lease[c] \in Lease /\ lease[c].journal \in Journals
  BY DEF Open, TypeOK, Lease
<1>2. /\ heap' = [ExpiredHeap EXCEPT ![o] = w]
      /\ states' = ExpiredStates /\ day' = ExpiredDay
      /\ lease' = [lease EXCEPT ![c].finished = TRUE]
      /\ stage' = [stage EXCEPT ![c] = "idle"]
      /\ grant' = [grant EXCEPT ![c] = NoGrant]
      /\ today' = today /\ now' = now
  BY <1>1, ExpiredFacts DEF Finish, Open
<1>3. s \in StateObject /\ s.active = Cardinality(Holders(o)) /\ s.active \in Nat
      /\ s.used \in 0..MaxUsed /\ s.completed_at \in Nat \cup {Never} /\ s.day \in Nat
  BY <1>1, ExpiredFacts DEF ActiveCounts, StateObject
<1>4. c \in Holders(o)
  BY DEF Holders
<1>5. s.active - 1 \in Nat
  BY <1>3, <1>4, HoldersFinite
<1>6. s.used > 0 => s.completed_at # Never
  BY <1>1, ExpiredFacts
<1>7. now \in Nat /\ u \in Nat /\ MaxUsed \in Nat
  BY BoundAssumption DEF TypeOK
<1>8. /\ w \in StateObject /\ w.active = s.active - 1 /\ w.used >= s.used
      /\ w.used > 0 => w.completed_at # Never
      /\ w.day = s.day
  <2> HIDE DEF s
  <2> DEFINE r == Released(s)
  <2>1. /\ r \in StateObject /\ r.active = s.active - 1 /\ r.used = s.used
        /\ r.completed_at = s.completed_at /\ r.day = s.day
    BY <1>3, <1>5 DEF Released, StateObject
  <2>2. CASE stage[c] = "working"
    <3>1. w = Charged(r, u)
      BY <2>2 DEF Settled
    <3> HIDE DEF r
    <3>2. w = [r EXCEPT !.used = Least(MaxUsed, r.used + Most(0, u)), !.completed_at = now]
      BY <2>1, <3>1 DEF Charged, StateObject
    <3>3. Least(MaxUsed, r.used + Most(0, u)) \in 0..MaxUsed
          /\ Least(MaxUsed, r.used + Most(0, u)) >= s.used
      BY <2>1, <1>3, <1>7 DEF Least, Most
    <3>4. w = [day |-> r.day, used |-> Least(MaxUsed, r.used + Most(0, u)),
               active |-> r.active, completed_at |-> now]
      BY <2>1, <3>2 DEF StateObject
    <3> DEFINE q == Least(MaxUsed, r.used + Most(0, u))
    <3> HIDE DEF w, q
    <3>5. w = [day |-> r.day, used |-> q, active |-> r.active, completed_at |-> now]
      BY <3>4 DEF q
    <3>6. q \in 0..MaxUsed /\ q >= s.used
      BY <3>3 DEF q
    <3> QED
      BY <2>1, <3>5, <3>6, <1>3, <1>5, <1>7 DEF StateObject, Never
  <2>3. CASE stage[c] # "working"
    <3>1. w = r
      BY <2>3 DEF Settled
    <3> QED
      BY <2>1, <3>1, <1>3, <1>6
  <2> QED
    BY <2>2, <2>3
<1> HIDE DEF w, s
<1>9. heap'[o] = w /\ \A x \in Objects : x # o => heap'[x] = ExpiredHeap[x]
  BY <1>1, <1>2, ExpiredFacts
<1>10. lease \in [Channels -> Lease \cup {None}] /\ grant \in [Channels -> Grant]
       /\ stage \in [Channels -> {"idle", "waiting", "working"}]
  BY DEF TypeOK
<1>11. lease'[c] \in Lease /\ lease'[c].finished
  BY <1>1, <1>2, <1>10 DEF Lease
<1>12. ~Open(c)' /\ \A e \in Channels : e # c => (Open(e)' <=> Open(e)) /\ lease'[e] = lease[e]
         /\ grant'[e] = grant[e] /\ stage'[e] = stage[e]
  BY <1>2, <1>10, <1>11 DEF Open
<1>13. TypeOK'
  <2>1. NoGrant \in Grant
    BY DEF NoGrant, Grant
  <2>2. grant' \in [Channels -> Grant] /\ lease' \in [Channels -> Lease \cup {None}]
    BY <2>1, <1>2, <1>10, <1>11
  <2>3. heap' \in [Objects -> StateObject]
    BY <1>2, <1>8, ExpiredFacts
  <2> QED
    BY <2>2, <2>3, <1>2, <1>10, ExpiredFacts DEF TypeOK
<1>14. ActiveCounts'
  <2>1. Holders(o)' = Holders(o) \ {c}
    BY <1>12 DEF Holders
  <2>2. \A x \in Objects : x # o => Holders(x)' = Holders(x)
    BY <1>12 DEF Holders
  <2>3. Cardinality(Holders(o)') = Cardinality(Holders(o)) - 1
    <3>1. c \in Holders(o)
      BY <1>4
    <3>2. IsFiniteSet(Holders(o))
      BY HoldersFinite
    <3>3. Cardinality(Holders(o) \ {c}) = Cardinality(Holders(o)) - 1
      BY ONLY <3>1, <3>2, FS_RemoveElement
    <3> QED
      BY <2>1, <3>3
  <2> SUFFICES ASSUME NEW x \in Objects
               PROVE  heap'[x].active = Cardinality(Holders(x)')
    BY DEF ActiveCounts
  <2>4. CASE x = o
    BY <2>3, <2>4, <1>3, <1>8, <1>9
  <2>5. CASE x # o
    <3>1. heap'[x].active = heap[x].active
      BY <2>5, <1>9, ExpiredFacts
    <3> QED
      BY <2>2, <2>5, <3>1 DEF ActiveCounts
  <2> QED
    BY <2>4, <2>5
<1>15. OpenInTable'
  BY <1>2, <1>12, ExpiredFacts DEF OpenInTable
<1>16. TableInjective'
  BY <1>2, ExpiredFacts DEF TableInjective
<1>17. UsedMeansCompleted'
  BY <1>8, <1>9, ExpiredFacts DEF UsedMeansCompleted
<1>18. StageMatchesLease'
  BY <1>2, <1>10, <1>12 DEF StageMatchesLease
<1>19. \A e \in Channels : Open(e) =>
         /\ lease[e].state \in Objects
         /\ heap'[lease[e].state].day = ExpiredHeap[lease[e].state].day
         /\ heap'[lease[e].state].used >= ExpiredHeap[lease[e].state].used
         /\ heap'[lease[e].state].used \in Nat /\ ExpiredHeap[lease[e].state].used \in Nat
         /\ lease[e].policy.daily \in Nat
  <2> SUFFICES ASSUME NEW e \in Channels, Open(e)
               PROVE  /\ lease[e].state \in Objects
                      /\ heap'[lease[e].state].day = ExpiredHeap[lease[e].state].day
                      /\ heap'[lease[e].state].used >= ExpiredHeap[lease[e].state].used
                      /\ heap'[lease[e].state].used \in Nat
                      /\ ExpiredHeap[lease[e].state].used \in Nat
                      /\ lease[e].policy.daily \in Nat
    OBVIOUS
  <2>1. lease[e].state \in Objects /\ lease[e].policy \in Policies
    BY <1>10 DEF Open, Lease
  <2>2. ExpiredHeap[lease[e].state].used \in Nat /\ w.used \in Nat
    BY <2>1, <1>7, <1>8, ExpiredFacts DEF StateObject
  <2>3. lease[e].policy.daily \in Nat
    BY <2>1, PolicyAssumption, BoundAssumption
  <2>4. CASE lease[e].state = o
    BY <2>1, <2>2, <2>3, <2>4, <1>8, <1>9 DEF s
  <2>5. CASE lease[e].state # o
    BY <2>1, <2>2, <2>3, <2>5, <1>9
  <2> QED
    BY <2>4, <2>5
<1>20. SlowStaysOver'
  <2> SUFFICES ASSUME NEW e \in Channels, Open(e)'
               PROVE  /\ grant'[e].on <= day'
                      /\ grant'[e].slow /\ heap'[lease'[e].state].day = grant'[e].on
                           => heap'[lease'[e].state].used >= lease'[e].policy.daily
    BY DEF SlowStaysOver
  <2>1. e # c /\ Open(e) /\ lease'[e] = lease[e] /\ grant'[e] = grant[e]
    BY <1>12
  <2>2. grant[e].on \in Nat /\ day \in Nat
    BY <1>10 DEF TypeOK, Grant
  <2>3. grant[e].on <= day'
    BY <2>1, <2>2, <1>2, ExpiredFacts DEF SlowStaysOver
  <2>4. grant[e].slow /\ heap'[lease[e].state].day = grant[e].on
          => heap'[lease[e].state].used >= lease[e].policy.daily
    BY <2>1, <1>19, ExpiredFacts
  <2> QED
    BY <2>1, <2>3, <2>4
<1>21. SlowRunsAlone'
  <2> SUFFICES ASSUME NEW a \in Channels, NEW e \in Channels, a # e, Open(a)', Open(e)',
                      lease'[a].state = lease'[e].state, grant'[a].slow,
                      heap'[lease'[a].state].day = grant'[a].on
               PROVE  lease'[e].policy.daily > lease'[a].policy.daily
    BY DEF SlowRunsAlone
  <2>1. /\ Open(a) /\ lease'[a] = lease[a] /\ grant'[a] = grant[a]
        /\ Open(e) /\ lease'[e] = lease[e]
    BY <1>12
  <2>2. grant[a].slow
    BY <2>1, Zenon
  <2>3. ExpiredHeap[lease[a].state].day = grant[a].on
    BY <2>1, <1>19
  <2>4. heap[lease[a].state].day = grant[a].on
    BY <2>1, <2>2, <2>3, ExpiredFacts
  <2> QED
    BY <2>1, <2>2, <2>4 DEF SlowRunsAlone
<1>22. WaitCoversCooldown'
  BY <1>12 DEF WaitCoversCooldown
\* The request that ends held another object, or its budget was larger.
<1>23. DelayStaysRight'
  <2> SUFFICES ASSUME NEW e \in Channels, Open(e)', grant'[e].slow, Unrivalled(e)'
               PROVE  heap'[lease'[e].state].completed_at = grant'[e].after
    BY DEF DelayStaysRight
  <2>1. e # c /\ Open(e) /\ lease'[e] = lease[e] /\ grant'[e] = grant[e]
    BY <1>12
  <2>2. grant[e].slow
    BY <2>1, Zenon
  <2>3. ExpiredHeap[lease[e].state].day = grant[e].on
    BY <2>1, <1>19 DEF Unrivalled
  <2>4. ExpiredHeap[lease[e].state] = heap[lease[e].state]
    BY <2>1, <2>2, <2>3, ExpiredFacts
  <2>5. Unrivalled(e)
    BY <2>1, <2>3, <2>4 DEF Unrivalled
  <2>6. lease[c].policy \in Policies /\ lease[c].policy.daily \in Nat
        /\ lease[e].policy.daily \in Nat
    BY <1>1, <2>1, <1>19, PolicyAssumption, BoundAssumption DEF Lease
  <2>7. lease[c].policy.daily <= lease[e].policy.daily
    BY <2>5, <2>6 DEF Unrivalled
  <2>8. lease[e].state # o
    BY <2>1, <2>2, <2>5, <2>6, <2>7 DEF SlowRunsAlone, Unrivalled
  <2>9. heap'[lease[e].state] = heap[lease[e].state]
    BY <2>1, <2>4, <2>8, <1>9, <1>19
  <2> QED
    BY <2>1, <2>2, <2>5, <2>9 DEF DelayStaysRight
<1> QED
  BY <1>13, <1>14, <1>15, <1>16, <1>17, <1>18, <1>20, <1>21, <1>22, <1>23

\* The clocks change nothing the invariant relates.
LEMMA ClockStep ==
  ASSUME IInv, Tick \/ (\E d \in 0..MaxDay : SetWallClock(d)) PROVE IInv'
<1> USE DEF IInv
<1>1. UNCHANGED <<day, states, heap, lease, stage, grant>> /\ now' \in Nat /\ today' \in Nat
  BY BoundAssumption DEF Tick, SetWallClock, TypeOK
<1>2. \A e \in Channels : Open(e)' <=> Open(e)
  BY <1>1 DEF Open
<1>3. \A o : Holders(o)' = Holders(o)
  BY <1>1 DEF Holders, Open
<1> QED
  BY <1>1, <1>2, <1>3 DEF TypeOK, ActiveCounts, OpenInTable, TableInjective,
     UsedMeansCompleted, StageMatchesLease, SlowStaysOver, SlowRunsAlone, WaitCoversCooldown,
     DelayStaysRight, Unrivalled

LEMMA InitIInv == Init => IInv
<1> SUFFICES ASSUME Init PROVE IInv
  OBVIOUS
<1>1. \A c \in Channels : ~Open(c)
  BY DEF Init, Open
<1>2. \A o : Holders(o) = {}
  BY <1>1 DEF Holders
<1>3. ActiveCounts
  BY <1>2, FS_EmptySet DEF Init, ActiveCounts, Fresh
<1>4. Fresh(0) \in StateObject /\ NoGrant \in Grant
  BY BoundAssumption DEF Fresh, StateObject, NoGrant, Grant
<1>5. TypeOK
  BY <1>4, BoundAssumption DEF Init, TypeOK
<1> QED
  BY <1>1, <1>3, <1>5 DEF Init, IInv, OpenInTable, TableInjective, UsedMeansCompleted,
     StageMatchesLease, SlowStaysOver, SlowRunsAlone, WaitCoversCooldown, DelayStaysRight, Fresh

LEMMA NextIInv == IInv /\ [Next]_vars => IInv'
<1> SUFFICES ASSUME IInv, [Next]_vars PROVE IInv'
  OBVIOUS
<1>1. CASE Expire
  BY <1>1, ExpireStep
<1>2. CASE \E c \in Channels, j \in Journals, p \in Policies, o \in Objects :
             Begin(c, j, p, o) \/ Refuse(c, j, p, o)
  BY <1>2, BeginStep, RefuseStep
<1>3. CASE \E c \in Channels : StartWork(c)
  BY <1>3, StartWorkStep
<1>4. CASE UNCHANGED vars
  BY <1>4 DEF vars, IInv, TypeOK, ActiveCounts, OpenInTable, TableInjective,
     UsedMeansCompleted, StageMatchesLease, SlowStaysOver, SlowRunsAlone, WaitCoversCooldown,
     DelayStaysRight, Unrivalled, Open, Holders
<1>5. ASSUME NEW c \in Channels, NEW u \in Units, Finish(c, u) PROVE IInv'
  <2>1. CASE Open(c)
    <3>1. lease[c].state \in Objects
      BY <2>1 DEF Open, IInv, TypeOK, Lease
    <3> QED
      BY <1>5, <2>1, <3>1, FinishStep
  <2>2. CASE ~Open(c)
    BY <1>4, <1>5, <2>2 DEF Finish, Open
  <2> QED
    BY <2>1, <2>2
<1>6. CASE Tick \/ \E d \in 0..MaxDay : SetWallClock(d)
  BY <1>6, ClockStep
<1> QED
  BY <1>1, <1>2, <1>3, <1>4, <1>5, <1>6 DEF Next

\* The inductive invariant holds in every reachable state.
THEOREM Invariance == Spec => []IInv
  BY InitIInv, NextIInv, PTL DEF Spec

\* Type correctness: in particular active never becomes negative and used
\* never exceeds its saturation bound.
THEOREM TypeCorrect == Spec => []TypeOK
<1>1. IInv => TypeOK
  BY DEF IInv
<1> QED
  BY <1>1, Invariance, PTL

\* What the invariant says of the ledger.
LEMMA InvariantSays == IInv => OccupancyExact /\ SlowRunsAlone /\ CooldownHonoured
<1>1. IInv => OccupancyExact
  BY DEF IInv, OccupancyExact, ActiveCounts, OpenInTable, TypeOK
<1>2. IInv => CooldownHonoured
  <2> SUFFICES ASSUME IInv, NEW c \in Channels, Open(c), grant[c].slow
               PROVE  /\ grant[c].after # Never
                      /\ stage[c] = "working" =>
                           grant[c].started >= grant[c].after + lease[c].policy.cooldown
                      /\ Unrivalled(c) => heap[lease[c].state].completed_at = grant[c].after
    BY DEF CooldownHonoured
  <2>1. lease[c].policy \in Policies /\ lease[c].delay \in Nat
    BY DEF IInv, TypeOK, Open, Lease
  <2>2. lease[c].policy.cooldown \in Nat
    BY <2>1, PolicyAssumption
  <2>3. grant[c].at \in Nat /\ grant[c].after \in Int /\ grant[c].started \in Int
    BY DEF IInv, TypeOK, Grant, Never
  <2> QED
    BY <2>1, <2>2, <2>3 DEF IInv, WaitCoversCooldown, DelayStaysRight
<1> QED
  BY <1>1, <1>2 DEF IInv

\* Occupancy is exact: every open lease counts once, against the table's
\* object for its journal, across midnights and repeated finishes.
THEOREM OccupancyIsExact == Spec => []OccupancyExact
  BY InvariantSays, Invariance, PTL

\* An over-budget request runs alone under its budget.
THEOREM SlowIsAlone == Spec => []SlowRunsAlone
  BY InvariantSays, Invariance, PTL

\* The cooldown is waited before every over-budget request's work, and the
\* completion it is counted from stays the latest one.
THEOREM CooldownIsHonoured == Spec => []CooldownHonoured
  BY InvariantSays, Invariance, PTL

-----------------------------------------------------------------------------
\* No step lowers a journal's usage while the accounting day stays the same.
LEMMA UsageStep ==
  ASSUME IInv, [Next]_vars
  PROVE  [/\ day' >= day
          /\ day' = day => \A j \in Journals : UsedBy(j)' >= UsedBy(j)]_vars
<1> DEFINE A == /\ day' >= day
                /\ day' = day => \A j \in Journals : UsedBy(j)' >= UsedBy(j)
<1> SUFFICES ASSUME ~UNCHANGED vars PROVE A
  OBVIOUS
<1> USE DEF IInv
<1>0. /\ day \in Nat /\ today \in Nat
      /\ \A o \in Objects : heap[o].used \in Nat
      /\ \A j \in Journals : UsedBy(j) \in Nat
  BY BoundAssumption DEF TypeOK, StateObject, UsedBy
<1>1. CASE UNCHANGED <<day, states, heap>>
  <2>1. day' >= day
    BY <1>0, <1>1
  <2>2. ASSUME NEW j \in Journals PROVE UsedBy(j)' >= UsedBy(j)
    <3>1. UsedBy(j)' = UsedBy(j)
      BY <1>1 DEF UsedBy
    <3>2. UsedBy(j) \in Nat
      BY <1>0
    <3> QED
      BY <3>1, <3>2
  <2> QED
    BY <2>1, <2>2
<1>2. ASSUME ExpiredDay = day PROVE ExpiredStates = states /\ ExpiredHeap = heap
  BY <1>0, <1>2 DEF ExpiredDay, ExpiredStates, ExpiredHeap, Most
<1>3. CASE Expire
  <2>1. day' >= day
    BY <1>3, ExpiredFacts DEF Expire
  <2>2. day' = day => UNCHANGED <<day, states, heap>>
    BY <1>2, <1>3 DEF Expire
  <2> QED
    BY <1>1, <2>1, <2>2
<1>4. ASSUME NEW c \in Channels, NEW j \in Journals, NEW p \in Policies, NEW o \in Objects,
             Begin(c, j, p, o) \/ Refuse(c, j, p, o)
      PROVE  A
  <2> DEFINE s == Entry(j, o)
  <2>1. /\ StateFor(j, o) /\ day' = ExpiredDay /\ states' = [ExpiredStates EXCEPT ![j] = o]
        /\ heap'[o].used = s.used
        /\ \A x \in Objects : x # o => heap'[x] = ExpiredHeap[x]
    <3>1. StateFor(j, o)
      BY <1>4 DEF Begin, Refuse
    <3>2. s \in StateObject
      BY <3>1, EntryFacts
    <3> HIDE DEF s
    <3>3. heap' = [ExpiredHeap EXCEPT ![o] = [s EXCEPT !.active = @ + 1]]
          \/ heap' = [ExpiredHeap EXCEPT ![o] = s]
      BY <1>4 DEF Begin, Refuse, s
    <3> QED
      BY <1>4, <3>1, <3>2, <3>3, ExpiredFacts DEF Begin, Refuse, StateObject
  <2>2. SUFFICES ASSUME day' = day, NEW i \in Journals PROVE UsedBy(i)' >= UsedBy(i)
    BY <2>1, ExpiredFacts
  <2>3. ExpiredStates = states /\ ExpiredHeap = heap
    BY <1>2, <2>1, <2>2
  <2>4. s \in StateObject /\ \A x \in Journals : x # j => states[x] # o
    BY <2>1, <2>3, EntryFacts
  <2>5. CASE i = j
    <3>1. states'[j] = o /\ o # None
      BY <2>1, <2>3, SetAssumption DEF TypeOK
    <3>2. UsedBy(j)' = s.used
      BY <2>1, <3>1 DEF UsedBy
    <3>3. s.used >= UsedBy(j)
      <4>1. CASE states[j] # None
        <5>1. states[j] = o /\ s = heap[o]
          BY <2>1, <2>3, <4>1 DEF StateFor, Entry
        <5> QED
          BY <1>0, <4>1, <5>1 DEF UsedBy
      <4>2. CASE states[j] = None
        BY <2>4, <4>2 DEF UsedBy, StateObject
      <4> QED
        BY <4>1, <4>2
    <3> QED
      BY <2>5, <3>2, <3>3
  <2>6. CASE i # j
    <3>1. states'[i] = states[i] /\ states[i] # o
      BY <2>1, <2>3, <2>4, <2>6 DEF TypeOK
    <3>2. states[i] # None => heap'[states[i]] = heap[states[i]]
      BY <2>1, <2>3, <3>1 DEF TypeOK
    <3> QED
      BY <1>0, <3>1, <3>2 DEF UsedBy
  <2> QED
    BY <2>5, <2>6
<1>5. ASSUME NEW c \in Channels, NEW u \in Units, Finish(c, u) PROVE A
  <2> DEFINE o == lease[c].state
             s == ExpiredHeap[o]
             w == Settled(s, u, stage[c] = "working")
  <2>1. Open(c)
    BY <1>5 DEF Finish, Open
  <2>2. /\ day' = ExpiredDay /\ states' = ExpiredStates
        /\ heap' = [ExpiredHeap EXCEPT ![o] = w] /\ o \in Objects
    BY <1>5, <2>1, ExpiredFacts DEF Finish, Open, TypeOK, Lease
  <2>3. s \in StateObject /\ u \in Nat /\ MaxUsed \in Nat
    BY <2>2, ExpiredFacts, BoundAssumption
  <2>4. w.used >= s.used
    <3> HIDE DEF s
    <3>1. Released(s).used = s.used /\ Released(s) \in [day : Nat, used : 0..MaxUsed,
                                        active : Int, completed_at : Nat \cup {Never}]
      BY <2>3 DEF Released, StateObject
    <3>2. Charged(Released(s), u).used = Least(MaxUsed, s.used + Most(0, u))
      BY <3>1 DEF Charged
    <3>3. s.used \in 0..MaxUsed
      BY <2>3 DEF StateObject
    <3> QED
      BY <2>3, <3>1, <3>2, <3>3 DEF Settled, Least, Most
  <2> HIDE DEF w, o
  <2>5. SUFFICES ASSUME day' = day, NEW i \in Journals PROVE UsedBy(i)' >= UsedBy(i)
    BY <2>2, ExpiredFacts
  <2>6. ExpiredStates = states /\ ExpiredHeap = heap
    BY <1>2, <2>2, <2>5
  <2>7. states' = states /\ \A x \in Objects : heap'[x].used >= heap[x].used
    BY <1>0, <2>2, <2>4, <2>6 DEF TypeOK
  <2> QED
    BY <1>0, <2>7 DEF UsedBy, TypeOK
<1> QED
  BY <1>1, <1>3, <1>4, <1>5 DEF Next, StartWork, Tick, SetWallClock

\* Usage is forgiven only by a strictly later day, for every behaviour of the
\* wall clock.
THEOREM UsageForgiveness == Spec => UsageOnlyForgivenByANewDay
<1>1. IInv /\ [Next]_vars =>
        [/\ day' >= day
         /\ day' = day => \A j \in Journals : UsedBy(j)' >= UsedBy(j)]_vars
  BY UsageStep
<1> QED
  BY <1>1, Invariance, PTL DEF Spec, UsageOnlyForgivenByANewDay
=============================================================================
