---------------------------- MODULE ServingLedger ----------------------------
(***************************************************************************)
(* ServingResourceReducerV3 (conf_proc_spp_boot_v3_resource.py): PID1's    *)
(* ledger of serving sessions and of the permits they hold, the single     *)
(* collector permit and one work slot per route.                           *)
(*                                                                         *)
(* Tokens are random and never repeat, so a call with a stale token meets  *)
(* no record and is refused; a refusal changes nothing and has no action.  *)
(* The request and the buffer permit are issued and returned together and  *)
(* are one field.                                                          *)
(***************************************************************************)
EXTENDS Integers, FiniteSets

CONSTANTS
  Sessions,    \* session tokens
  Routes,      \* RouteV3
  MaxSessions, \* MAX_LIVE_SESSIONS_V3
  None         \* Python's None

VARIABLES
  revoked,  \* revoked
  sessions, \* sessions: the record of a live token
  holder,   \* collector_permit_holder
  slots     \* route_slot_holders

ledger == <<revoked, sessions, holder, slots>>

EXPORTER == 2 \* the last CollectorGenerationV3

Record == [generation : 0..EXPORTER, must_release_only : BOOLEAN, request : BOOLEAN,
           work : Routes \cup {None}, begun : BOOLEAN]

Permit == [session : Sessions, generation : 1..EXPORTER]

ASSUME LedgerAssumption ==
  /\ MaxSessions \in Nat /\ IsFiniteSet(Sessions)
  /\ None \notin Sessions \cup Routes \cup Record \cup Permit

LedgerTypeOK ==
  /\ revoked \in BOOLEAN
  /\ sessions \in [Sessions -> Record \cup {None}]
  /\ holder \in Permit \cup {None}
  /\ slots \in [Routes -> Sessions \cup {None}]

Fresh == [generation |-> 0, must_release_only |-> FALSE, request |-> FALSE,
          work |-> None, begun |-> FALSE]

LiveSessions == {s \in Sessions : sessions[s] # None}

LedgerInit ==
  /\ revoked = FALSE
  /\ sessions = [s \in Sessions |-> None]
  /\ holder = None
  /\ slots = [r \in Routes |-> None]

\* The session may use the ledger for more than its release.
Usable(s) == ~revoked /\ sessions[s] # None /\ ~sessions[s].must_release_only

HoldsCollector(s) == holder # None /\ holder.session = s

\* Mutant: a revoked ledger still admits sessions.
session_acquire_Reopens(s) ==
  /\ sessions[s] = None
  /\ Cardinality(LiveSessions) < MaxSessions
  /\ sessions' = [sessions EXCEPT ![s] = Fresh]
  /\ UNCHANGED <<revoked, holder, slots>>

session_acquire(s) ==
  /\ ~revoked
  /\ sessions[s] = None
  /\ Cardinality(LiveSessions) < MaxSessions
  /\ sessions' = [sessions EXCEPT ![s] = Fresh]
  /\ UNCHANGED <<revoked, holder, slots>>

\* A saturated acquisition leaves the session nothing but its release.
collector_acquire(s) ==
  /\ Usable(s)
  /\ sessions[s].generation < EXPORTER
  /\ \/ /\ holder # None
        /\ sessions' = [sessions EXCEPT ![s].must_release_only = TRUE]
        /\ UNCHANGED holder
     \/ /\ holder = None
        /\ holder' = [session |-> s, generation |-> sessions[s].generation + 1]
        /\ UNCHANGED sessions
  /\ UNCHANGED <<revoked, slots>>

\* The holder may be in must_release_only: only the permit is asked for.
collector_finish(s) ==
  /\ ~revoked /\ sessions[s] # None /\ HoldsCollector(s)
  /\ holder' = None
  /\ sessions' = [sessions EXCEPT ![s].generation = holder.generation]
  /\ UNCHANGED <<revoked, slots>>

collector_abort(s) ==
  /\ ~revoked /\ sessions[s] # None /\ HoldsCollector(s)
  /\ holder' = None
  /\ sessions' = [sessions EXCEPT ![s].must_release_only = TRUE]
  /\ UNCHANGED <<revoked, slots>>

\* Mutant: a duplicate request overwrites the one in progress.
request_acquire_Overwrites(s, r) ==
  /\ Usable(s)
  /\ sessions[s].generation = EXPORTER
  /\ \/ /\ slots[r] # None
        /\ sessions' = [sessions EXCEPT ![s].must_release_only = TRUE]
        /\ UNCHANGED slots
     \/ /\ slots[r] = None
        /\ sessions' = [sessions EXCEPT ![s].request = TRUE, ![s].work = r, ![s].begun = FALSE]
        /\ slots' = [slots EXCEPT ![r] = s]
  /\ UNCHANGED <<revoked, holder>>

request_acquire(s, r) ==
  /\ Usable(s)
  /\ sessions[s].generation = EXPORTER
  /\ \/ /\ sessions[s].request \/ slots[r] # None
        /\ sessions' = [sessions EXCEPT ![s].must_release_only = TRUE]
        /\ UNCHANGED slots
     \/ /\ ~sessions[s].request /\ slots[r] = None
        /\ sessions' = [sessions EXCEPT ![s].request = TRUE, ![s].work = r, ![s].begun = FALSE]
        /\ slots' = [slots EXCEPT ![r] = s]
  /\ UNCHANGED <<revoked, holder>>

\* _release_route_slot for every session of a set.
FreedSlots(gone) ==
  [r \in Routes |->
     IF slots[r] \in gone /\ sessions[slots[r]].work = r THEN None ELSE slots[r]]

work_begin(s) ==
  /\ Usable(s)
  /\ sessions[s].work # None /\ ~sessions[s].begun
  /\ sessions' = [sessions EXCEPT ![s].begun = TRUE]
  /\ UNCHANGED <<revoked, holder, slots>>

work_finish(s) ==
  /\ Usable(s)
  /\ sessions[s].work # None
  /\ slots' = FreedSlots({s})
  /\ sessions' = [sessions EXCEPT ![s].work = None, ![s].begun = FALSE]
  /\ UNCHANGED <<revoked, holder>>

request_release(s) ==
  /\ Usable(s)
  /\ sessions[s].request
  /\ slots' = FreedSlots({s})
  /\ sessions' = [sessions EXCEPT ![s].request = FALSE, ![s].work = None, ![s].begun = FALSE]
  /\ UNCHANGED <<revoked, holder>>

\* session_release of each of a set of live sessions, none of which holds the
\* collector permit.
session_release(gone) ==
  /\ sessions' = [s \in Sessions |-> IF s \in gone THEN None ELSE sessions[s]]
  /\ slots' = FreedSlots(gone)
  /\ UNCHANGED <<revoked, holder>>

global_revoke ==
  /\ revoked' = TRUE
  /\ sessions' = [s \in Sessions |-> None]
  /\ holder' = None
  /\ slots' = [r \in Routes |-> None]

-----------------------------------------------------------------------------
\* Every permit has exactly one owner: a route's slot is held by the session
\* that works on the route and by no other, work is done for a request, the
\* collector permit belongs to a live session and is for its next generation,
\* and a revoked ledger holds nothing.  A slot that outlived its session would
\* block the route until the appliance is restarted.
PermitsConserved ==
  /\ \A r \in Routes, s \in Sessions :
       slots[r] = s <=> sessions[s] # None /\ sessions[s].work = r
  /\ \A s \in LiveSessions : sessions[s].work # None => sessions[s].request
  /\ holder # None =>
       /\ sessions[holder.session] # None
       /\ holder.generation = sessions[holder.session].generation + 1
  /\ revoked => LiveSessions = {} /\ holder = None
=============================================================================
