--------------------------- MODULE CandidateProofs ---------------------------
(***************************************************************************)
(* Proofs about the candidate's PID1, for every number of sessions, routes *)
(* and sockets and for every lease, wait and budget.                       *)
(*                                                                         *)
(* The first part is about the ledger alone: each of its operations keeps  *)
(* LedgerOK.  The second part carries that through the controller with     *)
(* four facts of the composed state: a failed controller owns nothing      *)
(* (Over), a grant has a lease (GrantsUnderALease), the selector wakes    *)
(* before a lease ends (WakesInTime), and how far start-up has come        *)
(* (Progress).                                                             *)
(***************************************************************************)
EXTENDS Candidate, TLAPS

LedgerOK == LedgerTypeOK /\ PermitsConserved

\* While PID1 waits, the wait ends before any lease does.
WakesInTime ==
  pc = "select" => /\ now <= wake
                   /\ \A s \in OwnedSessions : wake <= owned[s].deadline

\* fail_stop leaves an empty, revoked ledger, no process and nothing to do.
Over ==
  failed => /\ pc = "idle" /\ revoked /\ OwnedSessions = {}
            /\ \A r \in Roles : procs[r] # "running"

\* PID1 is in the named activity, or in the selector on its behalf.
In(activity) == pc = activity \/ (pc = "select" /\ back = activity)

\* How far start-up has come: nothing runs before the cold interval, the cohort
\* starts when it is over, and its processes are registered.
Progress ==
  ~failed =>
    /\ phase = 0 => results = {} /\ cohort = 0 /\ \A r \in Roles : procs[r] = "none"
    /\ In("idle") \/ In("serve") => phase \in {0, SealPhase}
    /\ In("finite") \/ In("cold") => phase \notin {0, SealPhase} /\ cohort = 0
    /\ In("cold") => cold < 2
    /\ phase = SealPhase => cold = 2
    /\ (\E r \in Serving : procs[r] # "none") => phase = SealPhase
    /\ \A i \in 1..cohort : Order[i] \in children
    /\ In("serve") => phase = SealPhase /\ cohort < 2 /\ Order[cohort + 1] \in children

\* The part of TypeOK that the ledger and the owner do not concern.
ControlTypeOK ==
  /\ now \in 0..MaxTime
  /\ {failed, limits, orphan, eof} \subseteq BOOLEAN
  /\ disturbed \subseteq {"cgroup", "device"}
  /\ procs \in [Roles -> {"none", "running", "exited", "crashed"}]
  /\ children \subseteq Roles /\ results \subseteq Roles
  /\ pc \in {"idle", "finite", "cold", "serve", "select"}
  /\ back \in {"idle", "cold", "serve"}
  /\ wake \in Nat /\ until \in Nat
  /\ phase \in 0..SealPhase
  /\ cold \in 0..2 /\ cohort \in 0..2

OwnerOK == LedgerOK /\ owned \in [Sessions -> Owned \cup {None}] /\ GrantsUnderALease

IInv == OwnerOK /\ ControlTypeOK /\ WakesInTime /\ Over /\ Progress

------------------------------------------------------------------------------
(* The ledger *)

\* A session that is changed keeps its record's shape.
LEMMA RecordsDiffer ==
  ASSUME LedgerTypeOK, NEW s \in Sessions, sessions[s] # None
  PROVE  sessions[s] \in Record
BY DEF LedgerTypeOK

LEMMA SessionAcquireKeeps ==
  ASSUME LedgerOK, NEW s \in Sessions, session_acquire(s)
  PROVE  LedgerOK'
BY LedgerAssumption DEF LedgerOK, LedgerTypeOK, PermitsConserved, session_acquire, LiveSessions,
   Fresh, Record, Permit, EXPORTER

\* The change of one session's record, and of nothing else in sessions.
LEMMA Updated ==
  ASSUME LedgerTypeOK, NEW s \in Sessions, NEW rec \in Record,
         sessions' = [sessions EXCEPT ![s] = rec]
  PROVE  /\ sessions' \in [Sessions -> Record \cup {None}]
         /\ sessions'[s] = rec
         /\ \A t \in Sessions : t # s => sessions'[t] = sessions[t]
         /\ sessions'[s] # None
BY LedgerAssumption DEF LedgerTypeOK

\* What a change of one record has to respect, the slots apart.
LEMMA RecordChangeKeeps ==
  ASSUME LedgerOK, NEW s \in Sessions, NEW rec \in Record, sessions[s] # None,
         sessions' = [sessions EXCEPT ![s] = rec], revoked' = revoked,
         rec.work # None => rec.request,
         holder' = None \/ (holder' = holder /\ rec.generation = sessions[s].generation),
         slots' \in [Routes -> Sessions \cup {None}],
         \A q \in Routes, t \in Sessions :
           slots'[q] = t <=> sessions'[t] # None /\ sessions'[t].work = q
  PROVE  LedgerOK'
<1>1. LedgerTypeOK'
  BY Updated DEF LedgerOK, LedgerTypeOK
<1>2. \A t \in LiveSessions' : sessions'[t].work # None => sessions'[t].request
  BY Updated DEF LedgerOK, PermitsConserved, LiveSessions
<1>3. ASSUME holder' # None
      PROVE  /\ sessions'[holder'.session] # None
             /\ holder'.generation = sessions'[holder'.session].generation + 1
  <2>1. /\ holder' = holder /\ rec.generation = sessions[s].generation
        /\ holder.session \in Sessions
    BY <1>3 DEF LedgerOK, LedgerTypeOK, Permit
  <2>2. /\ sessions[holder.session] # None
        /\ holder.generation = sessions[holder.session].generation + 1
    BY <1>3, <2>1 DEF LedgerOK, PermitsConserved
  <2>3. CASE holder.session = s
    BY <2>1, <2>2, <2>3, Updated DEF LedgerOK
  <2>4. CASE holder.session # s
    BY <2>1, <2>2, <2>4, Updated DEF LedgerOK
  <2> QED
    BY <2>3, <2>4
<1>4. ~revoked'
  BY DEF LedgerOK, PermitsConserved, LiveSessions
<1> QED
  BY <1>1, <1>2, <1>3, <1>4 DEF LedgerOK, PermitsConserved

\* A change that leaves the session's request and work alone.
LEMMA SameWorkKeeps ==
  ASSUME LedgerOK, NEW s \in Sessions, NEW rec \in Record, sessions[s] # None,
         sessions' = [sessions EXCEPT ![s] = rec], UNCHANGED <<revoked, slots>>,
         rec.work = sessions[s].work, rec.request = sessions[s].request,
         holder' = None \/ (holder' = holder /\ rec.generation = sessions[s].generation)
  PROVE  LedgerOK'
<1>1. rec.work # None => rec.request
  BY DEF LedgerOK, PermitsConserved, LiveSessions
<1>2. slots' \in [Routes -> Sessions \cup {None}]
  BY DEF LedgerOK, LedgerTypeOK
<1>3. \A q \in Routes, t \in Sessions :
        slots'[q] = t <=> sessions'[t] # None /\ sessions'[t].work = q
  <2> TAKE q \in Routes, t \in Sessions
  <2>1. slots[q] = t <=> sessions[t] # None /\ sessions[t].work = q
    BY DEF LedgerOK, PermitsConserved
  <2>2. sessions'[s] = rec /\ sessions'[s] # None /\ (t # s => sessions'[t] = sessions[t])
    BY Updated DEF LedgerOK
  <2> QED
    BY <2>1, <2>2
<1> QED
  BY <1>1, <1>2, <1>3, RecordChangeKeeps

LEMMA MustReleaseKeeps ==
  ASSUME LedgerOK, NEW s \in Sessions, sessions[s] # None,
         sessions' = [sessions EXCEPT ![s].must_release_only = TRUE],
         UNCHANGED <<revoked, slots>>,
         holder' = holder \/ holder' = None
  PROVE  LedgerOK'
<1> DEFINE rec == [sessions[s] EXCEPT !.must_release_only = TRUE]
<1>1. /\ rec \in Record
      /\ rec.work = sessions[s].work /\ rec.request = sessions[s].request
      /\ rec.generation = sessions[s].generation
  BY RecordsDiffer DEF LedgerOK, Record
<1>2. sessions' = [sessions EXCEPT ![s] = rec]
  OBVIOUS
<1> HIDE DEF rec
<1> QED
  BY <1>1, <1>2, SameWorkKeeps

LEMMA CollectorAcquireKeeps ==
  ASSUME LedgerOK, NEW s \in Sessions, collector_acquire(s)
  PROVE  LedgerOK'
<1>1. CASE holder # None
  BY <1>1, MustReleaseKeeps DEF collector_acquire, Usable
<1>2. CASE holder = None
  <2>1. /\ holder' = [session |-> s, generation |-> sessions[s].generation + 1]
        /\ UNCHANGED <<revoked, sessions, slots>>
        /\ sessions[s] # None /\ sessions[s].generation < EXPORTER /\ ~revoked
    BY <1>2 DEF collector_acquire, Usable
  <2>2. sessions[s].generation \in 0..EXPORTER
    BY <2>1, RecordsDiffer DEF LedgerOK, Record
  <2>3. holder' \in Permit /\ holder' # None
    BY <2>1, <2>2, LedgerAssumption DEF Permit, EXPORTER
  <2>4. LedgerTypeOK'
    BY <2>1, <2>3 DEF LedgerOK, LedgerTypeOK
  <2>5. PermitsConserved'
    BY <2>1, <2>3 DEF LedgerOK, PermitsConserved, LiveSessions
  <2> QED
    BY <2>4, <2>5 DEF LedgerOK
<1> QED
  BY <1>1, <1>2

LEMMA CollectorConsumeKeeps ==
  ASSUME LedgerOK, NEW s \in Sessions, collector_finish(s) \/ collector_abort(s)
  PROVE  LedgerOK'
<1>1. CASE collector_abort(s)
  BY <1>1, MustReleaseKeeps DEF collector_abort
<1>2. CASE collector_finish(s)
  <2> DEFINE rec == [sessions[s] EXCEPT !.generation = holder.generation]
  <2>1. holder \in Permit /\ sessions[s] # None /\ sessions[s] \in Record
    BY <1>2, RecordsDiffer DEF collector_finish, HoldsCollector, LedgerOK, LedgerTypeOK
  <2>2. holder.generation \in 0..EXPORTER
    BY <2>1 DEF Permit, EXPORTER
  <2>3. rec \in Record /\ rec.work = sessions[s].work /\ rec.request = sessions[s].request
    BY <2>1, <2>2 DEF Record
  <2>4. /\ sessions' = [sessions EXCEPT ![s] = rec]
        /\ holder' = None /\ UNCHANGED <<revoked, slots>>
    BY <1>2 DEF collector_finish
  <2> HIDE DEF rec
  <2> QED
    BY <2>1, <2>3, <2>4, SameWorkKeeps
<1> QED
  BY <1>1, <1>2

LEMMA RequestAcquireKeeps ==
  ASSUME LedgerOK, NEW s \in Sessions, NEW r \in Routes, request_acquire(s, r)
  PROVE  LedgerOK'
<1>1. CASE sessions[s].request \/ slots[r] # None
  BY <1>1, MustReleaseKeeps DEF request_acquire, Usable
<1>2. CASE ~(sessions[s].request \/ slots[r] # None)
  <2> DEFINE rec == [[[sessions[s] EXCEPT !.request = TRUE] EXCEPT !.work = r] EXCEPT !.begun = FALSE]
  <2>1. sessions[s] # None /\ sessions[s] \in Record
    BY RecordsDiffer DEF request_acquire, Usable, LedgerOK
  <2>2. /\ rec \in Record /\ rec.work = r /\ rec.request
        /\ rec.generation = sessions[s].generation
    BY <2>1 DEF Record
  <2>3. /\ sessions' = [sessions EXCEPT ![s] = rec]
        /\ slots' = [slots EXCEPT ![r] = s]
        /\ UNCHANGED <<revoked, holder>>
    BY <1>2, <2>1 DEF request_acquire, LedgerOK, LedgerTypeOK, Record
  <2> HIDE DEF rec
  <2>4. slots' \in [Routes -> Sessions \cup {None}]
    BY <2>3 DEF LedgerOK, LedgerTypeOK
  <2>5. sessions[s].work = None
    BY <1>2, <2>1, LedgerAssumption DEF LedgerOK, PermitsConserved, LiveSessions, Record
  <2>6. \A q \in Routes, t \in Sessions :
          slots'[q] = t <=> sessions'[t] # None /\ sessions'[t].work = q
    BY <1>2, <2>1, <2>2, <2>3, <2>5, Updated, LedgerAssumption
       DEF LedgerOK, LedgerTypeOK, PermitsConserved
  <2> QED
    BY <2>1, <2>2, <2>3, <2>4, <2>6, RecordChangeKeeps
<1> QED
  BY <1>1, <1>2

LEMMA WorkBeginKeeps ==
  ASSUME LedgerOK, NEW s \in Sessions, work_begin(s)
  PROVE  LedgerOK'
<1> DEFINE rec == [sessions[s] EXCEPT !.begun = TRUE]
<1>1. /\ rec \in Record
      /\ rec.work = sessions[s].work /\ rec.request = sessions[s].request
      /\ rec.generation = sessions[s].generation
  BY RecordsDiffer DEF LedgerOK, Record, work_begin, Usable
<1>2. /\ sessions' = [sessions EXCEPT ![s] = rec] /\ sessions[s] # None
      /\ UNCHANGED <<revoked, holder, slots>>
  BY DEF work_begin, Usable
<1> HIDE DEF rec
<1> QED
  BY <1>1, <1>2, SameWorkKeeps

\* The end of a session's work frees its slot and no other.
LEMMA WorkEndKeeps ==
  ASSUME LedgerOK, NEW s \in Sessions, work_finish(s) \/ request_release(s)
  PROVE  LedgerOK'
<1>1. sessions[s] # None /\ sessions[s] \in Record
  BY RecordsDiffer DEF work_finish, request_release, Usable, LedgerOK
<1>2. PICK rec \in Record :
        /\ rec.work = None /\ rec.generation = sessions[s].generation
        /\ sessions' = [sessions EXCEPT ![s] = rec]
  <2>1. CASE work_finish(s)
    <3> DEFINE rec == [[sessions[s] EXCEPT !.work = None] EXCEPT !.begun = FALSE]
    <3>1. rec \in Record /\ rec.work = None /\ rec.generation = sessions[s].generation
      BY <1>1 DEF Record
    <3>2. sessions' = [sessions EXCEPT ![s] = rec]
      BY <2>1, <1>1 DEF work_finish, LedgerOK, LedgerTypeOK, Record
    <3> QED
      BY <3>1, <3>2
  <2>2. CASE request_release(s)
    <3> DEFINE rec == [[[sessions[s] EXCEPT !.request = FALSE] EXCEPT !.work = None]
                          EXCEPT !.begun = FALSE]
    <3>1. rec \in Record /\ rec.work = None /\ rec.generation = sessions[s].generation
      BY <1>1 DEF Record
    <3>2. sessions' = [sessions EXCEPT ![s] = rec]
      BY <2>2, <1>1 DEF request_release, LedgerOK, LedgerTypeOK, Record
    <3> QED
      BY <3>1, <3>2
  <2> QED
    BY <2>1, <2>2
<1>3. slots' = FreedSlots({s}) /\ UNCHANGED <<revoked, holder>>
  BY DEF work_finish, request_release
<1>4. slots' \in [Routes -> Sessions \cup {None}]
  BY <1>3 DEF LedgerOK, LedgerTypeOK, FreedSlots
<1>5. \A q \in Routes, t \in Sessions :
        slots'[q] = t <=> sessions'[t] # None /\ sessions'[t].work = q
  BY <1>1, <1>2, <1>3, Updated, LedgerAssumption
     DEF LedgerOK, LedgerTypeOK, PermitsConserved, FreedSlots
<1> QED
  BY <1>1, <1>2, <1>3, <1>4, <1>5, RecordChangeKeeps

LEMMA SessionReleaseKeeps ==
  ASSUME LedgerOK, NEW gone \in SUBSET LiveSessions, session_release(gone),
         \A s \in gone : ~HoldsCollector(s)
  PROVE  LedgerOK'
BY LedgerAssumption, RecordsDiffer DEF LedgerOK, LedgerTypeOK, PermitsConserved,
   session_release, FreedSlots, HoldsCollector, LiveSessions, Record, Permit, EXPORTER

LEMMA RevokeKeeps ==
  ASSUME global_revoke
  PROVE  LedgerOK'
BY LedgerAssumption DEF LedgerOK, LedgerTypeOK, PermitsConserved, global_revoke, LiveSessions

------------------------------------------------------------------------------
(* The session owner *)

LEMMA RevokeAllKeeps ==
  ASSUME RevokeAll
  PROVE  OwnerOK' /\ revoked' /\ OwnedSessions' = {}
<1>1. global_revoke /\ owned' = [s \in Sessions |-> None]
  BY DEF RevokeAll
<1>2. LedgerOK'
  BY <1>1, RevokeKeeps
<1>3. \A s \in Sessions : owned'[s] = None /\ sessions'[s] = None
  BY <1>1 DEF global_revoke
<1> QED
  BY <1>1, <1>2, <1>3 DEF OwnerOK, GrantsUnderALease, OwnedSessions, global_revoke

LEMMA DropKeeps ==
  ASSUME OwnerOK, NEW gone \in SUBSET LiveSessions, \A s \in gone : ~HoldsCollector(s), Drop(gone)
  PROVE  /\ OwnerOK' /\ revoked' = revoked
         /\ \A s \in Sessions : owned'[s] = IF s \in gone THEN None ELSE owned[s]
<1>1. /\ session_release(gone)
      /\ owned' = [s \in Sessions |-> IF s \in gone THEN None ELSE owned[s]]
  BY DEF Drop
<1>2. LedgerOK'
  BY <1>1, SessionReleaseKeeps DEF OwnerOK
<1>3. /\ \A s \in Sessions : sessions'[s] = IF s \in gone THEN None ELSE sessions[s]
      /\ revoked' = revoked
  BY <1>1 DEF session_release
<1>4. GrantsUnderALease'
  BY <1>1, <1>3 DEF OwnerOK, GrantsUnderALease
<1> QED
  BY <1>1, <1>2, <1>3, <1>4 DEF OwnerOK

\* What a call on the ledger alone does to the requests: it issues none, and it
\* leaves the generation of a session with a request alone.
LEMMA OnLedgerIssuesNothing ==
  ASSUME OwnerOK, NEW s \in Sessions, OnLedger(s)
  PROVE  /\ \A t \in Sessions : t # s => sessions'[t] = sessions[t]
         /\ sessions'[s] # None
         /\ sessions'[s].request => /\ sessions[s] # None /\ sessions[s].request
                                    /\ sessions'[s].generation = sessions[s].generation
<1> USE DEF OwnerOK, LedgerOK
<1>0. sessions \in [Sessions -> Record \cup {None}] /\ Fresh \in Record
  BY DEF LedgerTypeOK, Fresh, Record, EXPORTER
<1>1. CASE session_acquire(s)
  BY <1>0, <1>1, LedgerAssumption DEF session_acquire, Fresh
<1>2. CASE ~session_acquire(s)
  <2>1. sessions[s] # None /\ sessions[s] \in Record
    BY <1>2, RecordsDiffer DEF OnLedger, collector_acquire, collector_finish, collector_abort,
       work_begin, work_finish, request_release, Usable
  <2>2. CASE sessions' = sessions
    BY <2>1, <2>2
  <2>3. CASE sessions' = [sessions EXCEPT ![s].must_release_only = TRUE]
    BY <2>1, <2>3, LedgerAssumption DEF LedgerTypeOK, Record
  <2>4. CASE collector_finish(s)
    <3>1. /\ sessions' = [sessions EXCEPT ![s].generation = holder.generation]
          /\ holder \in Permit /\ holder.session = s
      BY <2>4 DEF collector_finish, HoldsCollector, LedgerTypeOK
    <3>2. ~sessions[s].request
      <4> SUFFICES ASSUME sessions[s].request PROVE FALSE
        OBVIOUS
      <4>1. sessions[s].generation = EXPORTER
        BY <2>1 DEF GrantsUnderALease
      <4>2. holder.generation = sessions[s].generation + 1
        BY <2>4, <3>1 DEF PermitsConserved, collector_finish, HoldsCollector
      <4> QED
        BY <3>1, <4>1, <4>2 DEF Permit, EXPORTER
    <3>3. sessions'[s] \in Record /\ sessions'[s].request = sessions[s].request
      BY <2>1, <3>1 DEF Permit, Record, EXPORTER, LedgerTypeOK
    <3> QED
      BY <3>1, <3>2, <3>3, LedgerAssumption DEF LedgerTypeOK
  <2>5. CASE work_begin(s)
    BY <2>1, <2>5, LedgerAssumption DEF work_begin, LedgerTypeOK, Record
  <2>6. CASE work_finish(s)
    BY <2>1, <2>6, LedgerAssumption DEF work_finish, LedgerTypeOK, Record
  <2>7. CASE request_release(s)
    <3> DEFINE rec == [sessions[s] EXCEPT !.request = FALSE, !.work = None, !.begun = FALSE]
    <3>1. sessions' = [sessions EXCEPT ![s] = rec]
      BY <2>7 DEF request_release
    <3>2. rec \in Record /\ ~rec.request
      BY <2>1 DEF Record
    <3> HIDE DEF rec
    <3> QED
      BY <3>1, <3>2, Updated
  <2> QED
    BY <1>2, <2>2, <2>3, <2>4, <2>5, <2>6, <2>7
       DEF OnLedger, collector_acquire, collector_abort
<1> QED
  BY <1>1, <1>2

LEMMA OnLedgerKeeps ==
  ASSUME OwnerOK, NEW s \in Sessions, OnLedger(s), UNCHANGED owned
  PROVE  OwnerOK'
<1>1. LedgerOK'
  BY SessionAcquireKeeps, CollectorAcquireKeeps, CollectorConsumeKeeps, WorkBeginKeeps, WorkEndKeeps
     DEF OwnerOK, OnLedger
<1>2. GrantsUnderALease'
  BY OnLedgerIssuesNothing DEF OwnerOK, GrantsUnderALease
<1> QED
  BY <1>1, <1>2 DEF OwnerOK

\* A request is issued to a session with an appraised lease only.
LEMMA OwnerRequestKeeps ==
  ASSUME OwnerOK, NEW s \in Sessions, NEW r \in Routes, owner_request_acquire(s, r)
  PROVE  OwnerOK'
<1>1. /\ request_acquire(s, r) /\ UNCHANGED owned
      /\ owned[s] # None /\ owned[s].authorized
      /\ sessions[s] # None /\ sessions[s].generation = EXPORTER
  BY DEF owner_request_acquire, InTime, request_acquire, Usable
<1>2. LedgerOK'
  BY <1>1, RequestAcquireKeeps DEF OwnerOK
<1>3. sessions[s] \in Record /\ sessions \in [Sessions -> Record \cup {None}]
  BY <1>1, RecordsDiffer DEF OwnerOK, LedgerOK, LedgerTypeOK
<1>4. /\ \A t \in Sessions : t # s => sessions'[t] = sessions[t]
      /\ sessions'[s] # None /\ sessions'[s].generation = EXPORTER
  <2>1. CASE sessions' = [sessions EXCEPT ![s].must_release_only = TRUE]
    BY <1>1, <1>3, <2>1, LedgerAssumption DEF Record
  <2>2. CASE sessions' = [sessions EXCEPT ![s].request = TRUE, ![s].work = r, ![s].begun = FALSE]
    <3> DEFINE rec == [sessions[s] EXCEPT !.request = TRUE, !.work = r, !.begun = FALSE]
    <3>1. sessions' = [sessions EXCEPT ![s] = rec]
      BY <2>2
    <3>2. rec \in Record /\ rec.generation = EXPORTER
      BY <1>1, <1>3 DEF Record
    <3> HIDE DEF rec
    <3> QED
      BY <3>1, <3>2, Updated DEF OwnerOK, LedgerOK
  <2> QED
    BY <1>1, <2>1, <2>2 DEF request_acquire
<1>5. GrantsUnderALease'
  BY <1>1, <1>4 DEF OwnerOK, GrantsUnderALease
<1> QED
  BY <1>1, <1>2, <1>5 DEF OwnerOK

\* The handlers that change what is owned of one session.
LEMMA OwnedChangeKeeps ==
  ASSUME OwnerOK, NEW s \in Sessions, NEW o \in Owned, sessions[s] # None,
         owned' = [owned EXCEPT ![s] = o], UNCHANGED ledger,
         sessions[s].request => o.authorized
  PROVE  OwnerOK'
<1>1. o # None
  BY CandidateAssumption
<1>2. LedgerOK'
  BY DEF OwnerOK, LedgerOK, LedgerTypeOK, PermitsConserved, LiveSessions, ledger
<1>3. /\ owned'[s] = o /\ \A t \in Sessions : t # s => owned'[t] = owned[t]
      /\ owned' \in [Sessions -> Owned \cup {None}]
      /\ sessions' = sessions
  BY DEF OwnerOK, ledger
<1>4. GrantsUnderALease'
  BY <1>1, <1>3 DEF OwnerOK, GrantsUnderALease
<1> QED
  BY <1>2, <1>3, <1>4 DEF OwnerOK

LEMMA ReleaseKeeps ==
  ASSUME OwnerOK, NEW s \in Sessions, RevokeAll \/ (~Unreleasable(s) /\ Drop({s}))
  PROVE  OwnerOK'
<1>1. CASE RevokeAll
  BY <1>1, RevokeAllKeeps
<1>2. CASE ~Unreleasable(s) /\ Drop({s})
  <2>1. {s} \in SUBSET LiveSessions /\ \A t \in {s} : ~HoldsCollector(t)
    BY <1>2 DEF Unreleasable, LiveSessions
  <2> QED
    BY <1>2, <2>1, DropKeeps
<1> QED
  BY <1>1, <1>2

LEMMA AdoptedKeeps ==
  ASSUME OwnerOK, NEW s \in Sessions, NEW k \in Sockets, NEW d \in Nat,
         NEW authorized \in BOOLEAN, Adopted(s, k, d, authorized)
  PROVE  OwnerOK'
<1>1. CASE RevokeAll \/ (~Unreleasable(s) /\ Drop({s}))
  BY <1>1, ReleaseKeeps
<1>2. CASE /\ owned' = [owned EXCEPT ![s] = [deadline |-> d, authorized |-> authorized,
                                             sockets |-> {k}]]
           /\ UNCHANGED ledger
  <2>1. [deadline |-> d, authorized |-> authorized, sockets |-> {k}] \in Owned
    BY DEF Owned
  <2>2. sessions[s] # None /\ ~sessions[s].request
    BY DEF Adopted, OwnerOK, GrantsUnderALease, LedgerOK, LedgerTypeOK, Record
  <2> QED
    BY <1>2, <2>1, <2>2, OwnedChangeKeeps
<1> QED
  BY <1>1, <1>2 DEF Adopted

LEMMA OwnedHandlersKeep ==
  ASSUME OwnerOK, now \in Nat, NEW s \in Sessions,
         authorize(s) \/ \E k \in Sockets : attach(s, k) \/ detach(s, k)
  PROVE  OwnerOK'
<1>1. CASE RevokeAll
  BY <1>1, RevokeAllKeeps
<1>2. CASE ~RevokeAll
  <2>1. /\ owned[s] # None /\ owned[s] \in Owned /\ sessions[s] # None
        /\ owned \in [Sessions -> Owned \cup {None}]
        /\ UNCHANGED ledger
    BY <1>2 DEF authorize, attach, detach, InTime, OwnerOK, GrantsUnderALease
  <2>2. CASE authorize(s)
    <3>1. PICK d \in now + 1 .. now + Lease :
            owned' = [owned EXCEPT ![s].deadline = d, ![s].authorized = TRUE]
      BY <2>2 DEF authorize
    <3> DEFINE o == [[owned[s] EXCEPT !.deadline = d] EXCEPT !.authorized = TRUE]
    <3>2. d \in Nat
      BY CandidateAssumption
    <3>3. o \in Owned /\ o.authorized
      BY <2>1, <3>2 DEF Owned
    <3>4. owned' = [owned EXCEPT ![s] = o]
      BY <2>1, <3>1 DEF Owned
    <3> QED
      BY <2>1, <3>3, <3>4, OwnedChangeKeeps
  <2>3. ASSUME NEW k \in Sockets, attach(s, k) \/ detach(s, k)
        PROVE  OwnerOK'
    <3>1. PICK m \in SUBSET Sockets : owned' = [owned EXCEPT ![s].sockets = m]
      BY <1>2, <2>1, <2>3 DEF attach, detach, Owned
    <3> DEFINE o == [owned[s] EXCEPT !.sockets = m]
    <3>2. o \in Owned /\ o.authorized = owned[s].authorized
      BY <2>1, <3>1 DEF Owned
    <3>3. sessions[s].request => o.authorized
      BY <2>1, <3>2 DEF OwnerOK, GrantsUnderALease
    <3>4. owned' = [owned EXCEPT ![s] = o]
      BY <3>1
    <3> QED
      BY <2>1, <3>2, <3>3, <3>4, OwnedChangeKeeps
  <2> QED
    BY <2>2, <2>3
<1> QED
  BY <1>1, <1>2

LEMMA HandlerKeeps ==
  ASSUME OwnerOK, now \in Nat, NEW s \in Sessions, Handler(s)
  PROVE  OwnerOK' /\ ~revoked
<1>1. OwnerOK'
  <2>1. CASE OnLedger(s) /\ UNCHANGED owned
    BY <2>1, OnLedgerKeeps
  <2>2. ASSUME NEW k \in Sockets, begin_handshake(s, k) \/ adopt(s, k)
        PROVE  OwnerOK'
    <3>1. CASE begin_handshake(s, k)
      <4>1. now + Handshake \in Nat
        BY CandidateAssumption
      <4> QED
        BY <3>1, <4>1, AdoptedKeeps DEF begin_handshake
    <3>2. CASE adopt(s, k)
      <4>1. PICK d \in now + 1 .. now + Lease : Adopted(s, k, d, TRUE)
        BY <3>2 DEF adopt
      <4>2. d \in Nat
        BY CandidateAssumption
      <4> QED
        BY <4>1, <4>2, AdoptedKeeps
    <3> QED
      BY <2>2, <3>1, <3>2
  <2>3. ASSUME NEW k \in Sockets, attach(s, k) \/ detach(s, k)
        PROVE  OwnerOK'
    BY <2>3, OwnedHandlersKeep
  <2>4. CASE authorize(s)
    BY <2>4, OwnedHandlersKeep
  <2>5. ASSUME NEW r \in Routes, owner_request_acquire(s, r)
        PROVE  OwnerOK'
    BY <2>5, OwnerRequestKeeps
  <2>6. CASE TooLate(s) \/ (owned[s] # None /\ Release(s))
    BY <2>6, ReleaseKeeps DEF TooLate, Release
  <2> QED
    BY <2>1, <2>2, <2>3, <2>4, <2>5, <2>6 DEF Handler
<1>2. ~revoked
  <2> SUFFICES ASSUME revoked PROVE FALSE
    OBVIOUS
  <2>1. sessions[s] = None /\ owned[s] = None
    BY DEF OwnerOK, LedgerOK, PermitsConserved, LiveSessions, GrantsUnderALease
  <2> QED
    BY <2>1 DEF Handler, OnLedger, session_acquire, collector_acquire, collector_finish,
       collector_abort, work_begin, work_finish, request_release, Usable, begin_handshake, adopt,
       Adopted, attach, detach, authorize, InTime, owner_request_acquire, TooLate, Overdue,
       OwnedSessions
<1> QED
  BY <1>1, <1>2

------------------------------------------------------------------------------
(* The controller *)

LEMMA OwnerUnchanged ==
  ASSUME OwnerOK, UNCHANGED <<ledger, owned>>
  PROVE  OwnerOK' /\ OwnedSessions' = OwnedSessions /\ revoked' = revoked
BY DEF OwnerOK, LedgerOK, LedgerTypeOK, PermitsConserved, LiveSessions, GrantsUnderALease,
   OwnedSessions, ledger

LEMMA StopKeeps ==
  ASSUME IInv, Stop
  PROVE  IInv'
<1>1. OwnerOK' /\ revoked' /\ OwnedSessions' = {}
  BY RevokeAllKeeps DEF Stop
<1>2. ControlTypeOK'
  BY DEF IInv, ControlTypeOK, Stop, NoLocals
<1>3. failed' /\ pc' = "idle" /\ \A r \in Roles : procs'[r] # "running"
  BY DEF Stop, IInv, ControlTypeOK
<1> QED
  BY <1>1, <1>2, <1>3 DEF IInv, Over, WakesInTime, Progress

\* _reap takes only clean cold workers, so the cohort stays registered.
LEMMA ReapKeepsTheCohort ==
  ASSUME ControlTypeOK, Reap
  PROVE  /\ procs' \in [Roles -> {"none", "running", "exited", "crashed"}]
         /\ children' \subseteq Roles /\ results' \subseteq Roles
         /\ \A r \in Serving : procs'[r] = procs[r] /\ (r \in children => r \in children')
         /\ (\A r \in Roles : procs[r] = "none") =>
              results' = results /\ \A r \in Roles : procs'[r] = "none"
         /\ (\A r \in Roles : procs[r] # "running") => \A r \in Roles : procs'[r] # "running"
BY DEF ControlTypeOK, Reap, BadExit, Ended, Roles, Serving, ColdRoles

\* The wait ends no later than the first lease.
LEMMA SelectIsBounded ==
  ASSUME IInv, Expirable, Drop(Overdue), wake' \in Earliest
  PROVE  /\ OwnerOK' /\ revoked' = revoked
         /\ OwnedSessions' \subseteq OwnedSessions
         /\ wake' \in Nat /\ now <= wake'
         /\ \A s \in OwnedSessions' : wake' <= owned'[s].deadline
<1>1. now \in Nat /\ owned \in [Sessions -> Owned \cup {None}]
  BY CandidateAssumption DEF IInv, ControlTypeOK, OwnerOK
<1>2. Overdue \in SUBSET LiveSessions /\ \A s \in Overdue : ~HoldsCollector(s)
  BY DEF Expirable, Unreleasable, Overdue, OwnedSessions, LiveSessions
<1>3. /\ OwnerOK' /\ revoked' = revoked
      /\ \A s \in Sessions : owned'[s] = IF s \in Overdue THEN None ELSE owned[s]
  BY <1>2, DropKeeps DEF IInv
<1>4. \A s \in OwnedSessions : owned[s].deadline \in Nat
  BY <1>1 DEF OwnedSessions, Owned
<1>5. \A t \in Timeouts : t \in Nat /\ now <= t
  BY <1>1, <1>4, CandidateAssumption DEF Timeouts, Overdue
<1>6. \A s \in OwnedSessions' : s \in OwnedSessions \ Overdue /\ owned'[s] = owned[s]
  BY <1>3 DEF OwnedSessions
<1>7. wake' \in Timeouts /\ \A s \in OwnedSessions \ Overdue : wake' <= owned[s].deadline
  BY DEF Earliest, Timeouts
<1> QED
  BY <1>3, <1>5, <1>6, <1>7

LEMMA StepBeginKeeps ==
  ASSUME IInv, NEW from \in {"idle", "cold", "serve"}, pc = from, ~failed, StepBegin(from)
  PROVE  IInv'
<1>1. CASE Stop
  BY <1>1, StopKeeps
<1>2. CASE ~Stop
  <2>1. /\ Reap /\ Expirable /\ Drop(Overdue)
        /\ pc' = "select" /\ back' = from /\ wake' \in Earliest
        /\ UNCHANGED <<now, failed, limits, disturbed, orphan, until, eof, phase, cold, cohort>>
    BY <1>2 DEF StepBegin
  <2>2. /\ OwnerOK' /\ wake' \in Nat /\ now <= wake'
        /\ \A s \in OwnedSessions' : wake' <= owned'[s].deadline
    BY <2>1, SelectIsBounded
  <2>3. ControlTypeOK'
    BY <2>1, <2>2, ReapKeepsTheCohort DEF IInv, ControlTypeOK
  <2>4. Progress'
    BY <2>1, ReapKeepsTheCohort DEF IInv, ControlTypeOK, Progress, In, Order, Serving
  <2> QED
    BY <2>1, <2>2, <2>3, <2>4 DEF IInv, WakesInTime, Over
<1> QED
  BY <1>1, <1>2

LEMMA SelectReturnsKeeps ==
  ASSUME IInv, SelectReturns
  PROVE  IInv'
<1>1. CASE Stop
  BY <1>1, StopKeeps
<1>2. CASE ~Stop
  <2>1. /\ pc = "select" /\ Reap /\ Expirable /\ Drop(Overdue)
        /\ pc' = back /\ back' = "idle" /\ wake' = 0
        /\ UNCHANGED <<now, failed, limits, disturbed, orphan, until, eof, phase, cold, cohort>>
    BY <1>2 DEF SelectReturns
  <2>2. OwnerOK'
    <3>1. Overdue \in SUBSET LiveSessions /\ \A s \in Overdue : ~HoldsCollector(s)
      BY <2>1 DEF Expirable, Unreleasable, Overdue, OwnedSessions, LiveSessions
    <3> QED
      BY <2>1, <3>1, DropKeeps DEF IInv
  <2>3. ControlTypeOK'
    BY <2>1, ReapKeepsTheCohort DEF IInv, ControlTypeOK
  <2>4. Progress'
    BY <2>1, ReapKeepsTheCohort DEF IInv, ControlTypeOK, Progress, In, Order, Serving
  <2>5. ~failed' /\ pc' # "select"
    BY <2>1 DEF IInv, Over, ControlTypeOK
  <2> QED
    BY <2>2, <2>3, <2>4, <2>5 DEF IInv, WakesInTime, Over
<1> QED
  BY <1>1, <1>2

LEMMA InstallLimitsKeeps ==
  ASSUME IInv, InstallLimits
  PROVE  IInv'
<1>1. CASE Stop
  BY <1>1, StopKeeps
<1>2. CASE ~Stop
  <2>1. /\ ~failed /\ pc = "idle" /\ limits' = TRUE
        /\ UNCHANGED <<ledger, owned, now, failed, disturbed, procs, orphan, children, results,
                       pc, back, wake, until, eof, phase, cold, cohort>>
    BY <1>2 DEF InstallLimits, process, running
  <2>2. OwnerOK'
    BY <2>1, OwnerUnchanged DEF IInv
  <2>3. ControlTypeOK'
    BY <2>1, CandidateAssumption DEF IInv, ControlTypeOK, Over, Progress, In
  <2>4. Progress'
    BY <2>1, CandidateAssumption DEF IInv, ControlTypeOK, Over, Progress, In
  <2>5. ~failed' /\ pc' # "select"
    BY <2>1 DEF IInv, Over
  <2> QED
    BY <2>2, <2>3, <2>4, <2>5 DEF IInv, WakesInTime, Over
<1> QED
  BY <1>1, <1>2

LEMMA FiniteRunKeeps ==
  ASSUME IInv, FiniteRun
  PROVE  IInv'
<1>1. CASE Stop
  BY <1>1, StopKeeps
<1>2. CASE ~Stop
  <2>1. /\ ~failed /\ pc = "idle" /\ phase = 0 /\ phase' = 1 /\ pc' = "finite"
        /\ UNCHANGED <<ledger, owned, now, failed, limits, disturbed, procs, orphan, children,
                       results, back, wake, until, eof, cold, cohort>>
    BY <1>2 DEF FiniteRun, process
  <2>2. OwnerOK'
    BY <2>1, OwnerUnchanged DEF IInv
  <2>3. ControlTypeOK'
    BY <2>1, CandidateAssumption DEF IInv, ControlTypeOK, Over, Progress, In
  <2>4. Progress'
    BY <2>1, CandidateAssumption DEF IInv, ControlTypeOK, Over, Progress, In, Serving, Roles
  <2>5. ~failed' /\ pc' # "select"
    BY <2>1 DEF IInv, Over
  <2> QED
    BY <2>2, <2>3, <2>4, <2>5 DEF IInv, WakesInTime, Over
<1> QED
  BY <1>1, <1>2

LEMMA ColdRunKeeps ==
  ASSUME IInv, ColdRun
  PROVE  IInv'
<1>1. CASE Stop
  BY <1>1, StopKeeps
<1>2. CASE ~Stop
  <2>1. /\ pc = "finite" /\ phase < 3 /\ phase' = phase + 1 /\ cold = phase - 1
        /\ procs' = [procs EXCEPT ![ColdOrder[phase]] = "running"]
        /\ children' = children \cup {ColdOrder[phase]}
        /\ until' = now + Budget /\ pc' = "cold" /\ eof' = FALSE
        /\ UNCHANGED <<ledger, owned, now, failed, limits, disturbed, orphan, results, back, wake,
                       cold, cohort>>
    BY <1>2 DEF ColdRun, Commanded, Launch
  <2>2. OwnerOK'
    BY <2>1, OwnerUnchanged DEF IInv
  <2>3. ControlTypeOK'
    <3>1. phase \in {1, 2} /\ ~failed
      BY <2>1 DEF IInv, ControlTypeOK, Over, Progress, In
    <3>2. ColdOrder[phase] \in Roles
      BY <3>1 DEF ColdOrder, Roles, ColdRoles
    <3>3. phase' \in 0..SealPhase /\ until' \in Nat
      BY <2>1, <3>1, CandidateAssumption DEF IInv, ControlTypeOK
    <3> QED
      BY <2>1, <3>2, <3>3 DEF IInv, ControlTypeOK
  <2>4. Progress'
    BY <2>1, CandidateAssumption DEF IInv, ControlTypeOK, Over, Progress, In,
       Order, ColdOrder, Roles, Serving, ColdRoles
  <2>5. ~failed' /\ pc' # "select"
    BY <2>1 DEF IInv, Over
  <2> QED
    BY <2>2, <2>3, <2>4, <2>5 DEF IInv, WakesInTime, Over
<1> QED
  BY <1>1, <1>2

LEMMA DirectControlKeeps ==
  ASSUME IInv, DirectControl
  PROVE  IInv'
<1>1. CASE Stop
  BY <1>1, StopKeeps
<1>2. CASE ~Stop
  <2>1. /\ pc = "finite" /\ phase \in 3..SealPhase - 2 /\ phase' = phase + 1
        /\ UNCHANGED <<ledger, owned, now, failed, limits, disturbed, procs, orphan, children,
                       results, pc, back, wake, until, eof, cold, cohort>>
    BY <1>2 DEF DirectControl, Commanded, process
  <2>2. OwnerOK'
    BY <2>1, OwnerUnchanged DEF IInv
  <2>3. ControlTypeOK'
    BY <2>1, CandidateAssumption DEF IInv, ControlTypeOK, Over, Progress, In
  <2>4. Progress'
    BY <2>1, CandidateAssumption DEF IInv, ControlTypeOK, Over, Progress, In
  <2>5. ~failed' /\ pc' # "select"
    BY <2>1 DEF IInv, Over
  <2> QED
    BY <2>2, <2>3, <2>4, <2>5 DEF IInv, WakesInTime, Over
<1> QED
  BY <1>1, <1>2

LEMMA SealKeeps ==
  ASSUME IInv, Seal
  PROVE  IInv'
<1>1. CASE Stop
  BY <1>1, StopKeeps
<1>2. CASE ~Stop
  <2>1. /\ pc = "finite" /\ phase = SealPhase - 1 /\ phase' = SealPhase /\ pc' = "idle"
        /\ cold = 2
        /\ UNCHANGED <<ledger, owned, now, failed, limits, disturbed, procs, orphan, children,
                       results, back, wake, until, eof, cold, cohort>>
    BY <1>2 DEF Seal, process
  <2>2. OwnerOK'
    BY <2>1, OwnerUnchanged DEF IInv
  <2>3. ControlTypeOK'
    BY <2>1, CandidateAssumption DEF IInv, ControlTypeOK, Over, Progress, In
  <2>4. Progress'
    BY <2>1, CandidateAssumption DEF IInv, ControlTypeOK, Over, Progress, In
  <2>5. ~failed' /\ pc' # "select"
    BY <2>1 DEF IInv, Over
  <2> QED
    BY <2>2, <2>3, <2>4, <2>5 DEF IInv, WakesInTime, Over
<1> QED
  BY <1>1, <1>2

LEMMA ColdAcceptKeeps ==
  ASSUME IInv, ColdAccept
  PROVE  IInv'
<1>1. CASE Stop
  BY <1>1, StopKeeps
<1>2. CASE ~Stop
  <2>1. /\ pc = "cold" /\ Reap /\ children' = {} /\ cold' = cold + 1 /\ pc' = "finite"
        /\ back' = "idle" /\ wake' = 0 /\ until' = 0 /\ eof' = FALSE
        /\ UNCHANGED <<ledger, owned, now, failed, limits, disturbed, orphan, phase, cohort>>
    BY <1>2 DEF ColdAccept, NoLocals
  <2>2. OwnerOK'
    BY <2>1, OwnerUnchanged DEF IInv
  <2>3. ControlTypeOK'
    <3>1. cold' \in 0..2
      BY <2>1 DEF IInv, ControlTypeOK, Over, Progress, In
    <3> QED
      BY <2>1, <3>1, ReapKeepsTheCohort DEF IInv, ControlTypeOK
  <2>4. Progress'
    BY <2>1, ReapKeepsTheCohort, CandidateAssumption DEF IInv, ControlTypeOK, Over, Progress, In,
       Order, ColdOrder, Roles, Serving, ColdRoles
  <2>5. ~failed' /\ pc' # "select"
    BY <2>1 DEF IInv, Over
  <2> QED
    BY <2>2, <2>3, <2>4, <2>5 DEF IInv, WakesInTime, Over
<1> QED
  BY <1>1, <1>2

LEMMA StartServingKeeps ==
  ASSUME IInv, StartServing
  PROVE  IInv'
<1>1. CASE Stop
  BY <1>1, StopKeeps
<1>2. CASE ~Stop
  <2>1. /\ ~failed /\ pc = "idle" /\ MayServe
        /\ procs' = [procs EXCEPT ![Order[cohort + 1]] = "running"]
        /\ children' = children \cup {Order[cohort + 1]}
        /\ until' = now + Budget /\ pc' = "serve"
        /\ UNCHANGED <<ledger, owned, now, failed, limits, disturbed, orphan, results, back, wake,
                       eof, phase, cold, cohort>>
    BY <1>2 DEF StartServing, Launch
  <2>2. OwnerOK'
    BY <2>1, OwnerUnchanged DEF IInv
  <2>3. ControlTypeOK'
    BY <2>1, CandidateAssumption DEF IInv, ControlTypeOK, Over, Progress, In,
       MayServe, Order, ColdOrder, Roles, Serving, ColdRoles
  <2>4. Progress'
    BY <2>1, CandidateAssumption DEF IInv, ControlTypeOK, Over, Progress, In,
       MayServe, Order, ColdOrder, Roles, Serving, ColdRoles
  <2>5. ~failed' /\ pc' # "select"
    BY <2>1 DEF IInv, Over
  <2> QED
    BY <2>2, <2>3, <2>4, <2>5 DEF IInv, WakesInTime, Over
<1> QED
  BY <1>1, <1>2

LEMMA ServingReadyKeeps ==
  ASSUME IInv, ServingReady
  PROVE  IInv'
<1>1. CASE Stop
  BY <1>1, StopKeeps
<1>2. CASE ~Stop
  <2>1. /\ pc = "serve" /\ cohort' = cohort + 1 /\ pc' = "idle"
        /\ back' = "idle" /\ wake' = 0 /\ until' = 0 /\ eof' = FALSE
        /\ UNCHANGED <<ledger, owned, now, failed, limits, disturbed, procs, orphan, children,
                       results, phase, cold>>
    BY <1>2 DEF ServingReady, NoLocals, process
  <2>2. OwnerOK'
    BY <2>1, OwnerUnchanged DEF IInv
  <2>3. ControlTypeOK'
    <3>1. cohort' \in 0..2
      BY <2>1 DEF IInv, ControlTypeOK, Over, Progress, In
    <3> QED
      BY <2>1, <3>1 DEF IInv, ControlTypeOK
  <2>4. Progress'
    BY <2>1, CandidateAssumption DEF IInv, ControlTypeOK, Over, Progress, In,
       Order, ColdOrder, Roles, Serving, ColdRoles
  <2>5. ~failed' /\ pc' # "select"
    BY <2>1 DEF IInv, Over
  <2> QED
    BY <2>2, <2>3, <2>4, <2>5 DEF IInv, WakesInTime, Over
<1> QED
  BY <1>1, <1>2

LEMMA TickKeeps ==
  ASSUME IInv, Tick
  PROVE  IInv'
<1>1. /\ ~failed /\ now < MaxTime /\ (pc = "select" => now < wake) /\ now' = now + 1
      /\ UNCHANGED <<ledger, owned, failed, limits, disturbed, procs, orphan, children, results,
                     pc, back, wake, until, eof, phase, cold, cohort>>
  BY DEF Tick, process, running
<1>2. OwnerOK' /\ OwnedSessions' = OwnedSessions
  BY <1>1, OwnerUnchanged DEF IInv
<1>3. ControlTypeOK'
  BY <1>1, CandidateAssumption DEF IInv, ControlTypeOK
<1>4. WakesInTime'
  BY <1>1, <1>2, CandidateAssumption DEF IInv, ControlTypeOK, WakesInTime
<1>5. Progress'
  BY <1>1 DEF IInv, Progress, In
<1> QED
  BY <1>1, <1>2, <1>3, <1>4, <1>5 DEF IInv, Over

\* What children, adopted processes and devices do: they end, and that is all.
LEMMA EnvironmentKeeps ==
  ASSUME IInv, PipeEnds \/ OrphanEnds \/ Disturb \/ \E r \in Roles : ChildEnds(r)
  PROVE  IInv'
<1>1. /\ UNCHANGED <<ledger, owned, now, failed, limits, children, results, pc, back, wake, until,
                     phase, cold, cohort>>
      /\ eof' \in BOOLEAN /\ orphan' \in BOOLEAN /\ disturbed' \subseteq {"cgroup", "device"}
  BY DEF IInv, ControlTypeOK, PipeEnds, OrphanEnds, Disturb, ChildEnds, process, running
<1>2. /\ procs' \in [Roles -> {"none", "running", "exited", "crashed"}]
      /\ \A r \in Roles : /\ procs[r] = "none" <=> procs'[r] = "none"
                          /\ procs[r] # "running" => procs'[r] # "running"
  BY DEF IInv, ControlTypeOK, PipeEnds, OrphanEnds, Disturb, ChildEnds, process
<1>3. OwnerOK' /\ OwnedSessions' = OwnedSessions /\ revoked' = revoked
  BY <1>1, OwnerUnchanged DEF IInv
<1>4. ControlTypeOK'
  BY <1>1, <1>2 DEF IInv, ControlTypeOK
<1>5. WakesInTime' /\ Over'
  BY <1>1, <1>2, <1>3 DEF IInv, WakesInTime, Over
<1>6. Progress'
  BY <1>1, <1>2 DEF IInv, Progress, In, Roles
<1> QED
  BY <1>3, <1>4, <1>5, <1>6 DEF IInv

LEMMA HandlerKeepsIInv ==
  ASSUME IInv, NEW s \in Sessions, Handler(s)
  PROVE  IInv'
<1>1. /\ pc = "idle"
      /\ UNCHANGED <<now, failed, limits, disturbed, procs, orphan, children, results, pc, back,
                     wake, until, eof, phase, cold, cohort>>
  BY DEF Handler, Rest, process, running
<1>2. now \in Nat
  BY CandidateAssumption DEF IInv, ControlTypeOK
<1>3. OwnerOK' /\ ~revoked
  BY <1>2, HandlerKeeps DEF IInv
<1>4. ~failed
  BY <1>3 DEF IInv, Over
<1>5. ControlTypeOK' /\ Progress'
  BY <1>1 DEF IInv, ControlTypeOK, Progress, In
<1> QED
  BY <1>1, <1>3, <1>4, <1>5 DEF IInv, WakesInTime, Over

LEMMA StutterKeeps ==
  ASSUME IInv, UNCHANGED vars
  PROVE  IInv'
<1>1. UNCHANGED <<ledger, owned, now, failed, limits, disturbed, procs, orphan, children, results,
                  pc, back, wake, until, eof, phase, cold, cohort>>
  BY DEF vars, process, running
<1>2. OwnerOK' /\ OwnedSessions' = OwnedSessions /\ revoked' = revoked
  BY <1>1, OwnerUnchanged DEF IInv
<1> QED
  BY <1>1, <1>2 DEF IInv, ControlTypeOK, WakesInTime, Over, Progress, In

LEMMA NextKeeps ==
  ASSUME IInv, [Next]_vars
  PROVE  IInv'
<1>1. CASE Step \/ ColdWait \/ ServingWait
  <2>1. CASE Stop
    BY <2>1, StopKeeps
  <2>2. CASE ~Stop
    <3>1. ~failed
      BY <1>1, <2>2 DEF IInv, Over, Step, ColdWait, ServingWait
    <3> QED
      BY <1>1, <2>2, <3>1, StepBeginKeeps DEF Step, ColdWait, ServingWait
  <2> QED
    BY <2>1, <2>2
<1>2. CASE SelectReturns
  BY <1>2, SelectReturnsKeeps
<1>3. CASE InstallLimits
  BY <1>3, InstallLimitsKeeps
<1>4. CASE FiniteRun \/ ColdRun \/ DirectControl \/ Seal \/ ColdAccept
  BY <1>4, FiniteRunKeeps, ColdRunKeeps, DirectControlKeeps, SealKeeps, ColdAcceptKeeps
<1>5. CASE StartServing \/ ServingReady
  BY <1>5, StartServingKeeps, ServingReadyKeeps
<1>6. CASE CheckServing
  BY <1>6, StopKeeps DEF CheckServing
<1>7. CASE Environment
  BY <1>7, TickKeeps, EnvironmentKeeps DEF Environment
<1>8. ASSUME NEW s \in Sessions, Handler(s)
      PROVE  IInv'
  BY <1>8, HandlerKeepsIInv
<1>9. CASE UNCHANGED vars
  BY <1>9, StutterKeeps
<1> QED
  BY <1>1, <1>2, <1>3, <1>4, <1>5, <1>6, <1>7, <1>8, <1>9 DEF Next, Controller

LEMMA InitHolds ==
  ASSUME Init
  PROVE  IInv
<1>1. LedgerOK
  BY LedgerAssumption DEF Init, LedgerInit, LedgerOK, LedgerTypeOK, PermitsConserved, LiveSessions
<1>2. OwnerOK
  BY <1>1 DEF Init, LedgerInit, OwnerOK, GrantsUnderALease
<1>3. ControlTypeOK
  <2>1. MaxTime \in Nat /\ SealPhase \in Nat
    BY CandidateAssumption
  <2>2. /\ now \in 0..MaxTime /\ wake \in Nat /\ until \in Nat
        /\ phase \in 0..SealPhase /\ cold \in 0..2 /\ cohort \in 0..2
    BY <2>1 DEF Init
  <2> QED
    BY <2>2 DEF Init, ControlTypeOK
<1>4. WakesInTime /\ Over /\ Progress
  BY CandidateAssumption DEF Init, WakesInTime, Over, Progress, In, Serving, Roles
<1> QED
  BY <1>2, <1>3, <1>4 DEF IInv

\* The inductive invariant of PID1, its sessions and its ledger.
THEOREM Inductive == Spec => []IInv
BY InitHolds, NextKeeps, PTL DEF Spec

\* Type correctness of PID1's state.
THEOREM TypeCorrect == Spec => []TypeOK
<1>1. IInv => TypeOK
  BY DEF IInv, OwnerOK, LedgerOK, ControlTypeOK, TypeOK
<1> QED
  BY <1>1, Inductive, PTL

\* The ledger keeps the permits of ServingResourceReducerV3 consistent whatever
\* the order of calls, expiries, releases and revocations is.
THEOREM PermitsAreConserved == Spec => []PermitsConserved
<1>1. IInv => PermitsConserved
  BY DEF IInv, OwnerOK, LedgerOK
<1> QED
  BY <1>1, Inductive, PTL

\* CandidateSessionOwner.request_acquire is the only way to a request, and the
\* lease under which it was given has not been taken back.
THEOREM RequestsHaveALease == Spec => []GrantsUnderALease
<1>1. IInv => GrantsUnderALease
  BY DEF IInv, OwnerOK
<1> QED
  BY <1>1, Inductive, PTL

\* The selector's timeout in CandidateSessionOwner.wait is short enough for every
\* lease and every maximal wait.
THEOREM LeasesEndOnTime == Spec => []NobodyOverstays
<1>1. IInv => NobodyOverstays
  <2> SUFFICES ASSUME IInv, pc = "select", NEW s \in OwnedSessions
               PROVE  now <= owned[s].deadline
    BY DEF NobodyOverstays
  <2>1. now \in Int /\ wake \in Int /\ owned[s].deadline \in Int
    BY CandidateAssumption DEF IInv, ControlTypeOK, OwnerOK, OwnedSessions, Owned
  <2> QED
    BY <2>1 DEF IInv, WakesInTime
<1> QED
  BY <1>1, Inductive, PTL

\* fail_stop is final: nothing is usable afterwards, and no handler, child or
\* event changes that.
THEOREM FailStopIsFinal == Spec => []StoppedLeavesNothing
<1>1. IInv => StoppedLeavesNothing
  BY DEF IInv, Over, OwnerOK, LedgerOK, PermitsConserved, StoppedLeavesNothing
<1> QED
  BY <1>1, Inductive, PTL

\* No serving process exists before the trace is sealed over both cold runs.
THEOREM ServingFollowsTheSeal == Spec => []ServingAfterTheSeal
<1>1. IInv => ServingAfterTheSeal
  BY DEF IInv, Progress, ServingAfterTheSeal
<1> QED
  BY <1>1, Inductive, PTL
=============================================================================
