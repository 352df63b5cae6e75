---------------------------- MODULE StatusProofs ----------------------------
(***************************************************************************)
(* The gateway's cache of NVIDIA revocation-status proofs                  *)
(* (ratls_status_proofs.py): ProofCache, the StatusWorker thread that      *)
(* refreshes it, and the four snapshots a connection thread takes while it *)
(* admits a channel (ratls_gateway.GatewayHandler.handle).                 *)
(*                                                                         *)
(* A signed response is a record; decoding and signature checks            *)
(* (verify_response up to its time checks) select the members of Responses *)
(* and are not modelled.  The responder and the network may return any of  *)
(* them in any order, old ones again and contradicting ones included.      *)
(***************************************************************************)
EXTENDS Integers, FiniteSets

CONSTANTS
  Subjects,         \* certificates whose status must be proved
  Responses,        \* correctly signed responses that exist
  Inventories,      \* GPU inventories (identities) the collector may report
  Admissions,       \* connection threads admitting a channel
  Tolerance,        \* future_tolerance_seconds
  MaxAge,           \* max_signed_age_seconds
  MinRemaining,     \* admission_min_remaining_seconds
  AdmissionTime,    \* the gateway's admission timeout
  RefreshDelay,     \* REFRESH_SECONDS
  RetryDelay,       \* first retry delay (30 s)
  RetryCap,         \* longest retry delay (300 s)
  MaxFailures,      \* saturation of `failures' (5)
  MaxTime,          \* bound: last instant of the wall clock
  None

\* The admission timeout (60 s) is below the minimum remaining validity (130 s).
ASSUME TimeAssumption ==
  /\ {Tolerance, MaxAge, AdmissionTime, RefreshDelay, RetryDelay, RetryCap, MaxTime} \subseteq Nat
  /\ MinRemaining \in Nat
  /\ AdmissionTime < MinRemaining
  /\ MaxFailures \in Nat \ {0}

VARIABLES
  now,        \* the wall clock
  identity,   \* ProofCache._identity
  proofs,     \* ProofCache._proofs: subject -> Proof or None
  worker,     \* StatusWorker: [pc, todo, subject, success, failures, wait]
  stopped,    \* StatusWorker._stop
  admission,  \* each admission: [step, age, bundle, sent]
  accepted    \* history: responses that passed verify_response

vars == <<now, identity, proofs, worker, stopped, admission, accepted>>

Least(a, b) == IF a <= b THEN a ELSE b

Deadline(r) == Least(r.next_update, r.this_update + MaxAge)

Proof == [subject : Subjects, status : {"good", "revoked", "unknown", "conflict"},
          this_update : Nat, next_update : Nat]

ASSUME ResponseAssumption ==
  Responses \subseteq [subject : Subjects, status : {"good", "revoked", "unknown"},
                       this_update : Nat, next_update : Nat]

ASSUME NoneAssumption == None \notin Inventories \cup Proof

NoBundle == [s \in Subjects |-> None]

Init ==
  /\ now \in 0..MaxTime
  /\ identity = None
  /\ proofs = NoBundle
  /\ worker = [pc |-> "refresh", todo |-> {}, subject |-> None, success |-> TRUE, failures |-> 0, wait |-> 0]
  /\ stopped = FALSE
  /\ admission = [a \in Admissions |-> [step |-> "none", age |-> 0, bundle |-> NoBundle, sent |-> 0]]
  /\ accepted = {}

-----------------------------------------------------------------------------
(* ProofCache *)

\* The time checks at the end of verify_response.
Verified(r) ==
  /\ r.this_update <= now + Tolerance
  /\ r.next_update > r.this_update
  /\ Deadline(r) > now

\* Mutant: a second response for the same instant simply replaces the first.
Merged_Replace(p, r) ==
  IF p = None \/ r.this_update >= p.this_update THEN r ELSE p

\* Mutant: the latest response fetched wins.
Merged_LastFetched(p, r) == r

\* accept(): a newer response replaces the proof, an equally old one that
\* contradicts it makes the subject's status a conflict, an older one changes
\* nothing.
Merged(p, r) ==
  IF p = None THEN r
  ELSE IF r.this_update > p.this_update THEN r
  ELSE IF r.this_update = p.this_update /\ <<r.status, r.next_update>> # <<p.status, p.next_update>>
       THEN [p EXCEPT !.status = "conflict"]
       ELSE p

\* Mutant: a proof may be used until it expires.
Usable_UntilExpiry(p) ==
  p # None /\ p.status = "good" /\ Deadline(p) > now

Usable(p) ==
  /\ p # None
  /\ p.status = "good"
  /\ p.this_update <= now + Tolerance
  /\ Deadline(p) - now >= MinRemaining

\* snapshot() returns a bundle.
Ready == identity # None /\ \A s \in Subjects : Usable(proofs[s])

-----------------------------------------------------------------------------
(* StatusWorker *)

\* refresh() is entered; without an inventory the collector is asked first.
\* The collector, or a changed inventory, may fail it.
Refresh ==
  /\ worker.pc = "refresh"
  /\ ~stopped
  /\ \/ /\ identity # None
        /\ worker' = [worker EXCEPT !.pc = "fetch", !.todo = Subjects, !.success = TRUE]
        /\ UNCHANGED identity
     \/ /\ identity = None
        /\ \E i \in Inventories : identity' = i
        /\ worker' = [worker EXCEPT !.pc = "fetch", !.todo = Subjects, !.success = TRUE]
     \/ /\ identity = None
        /\ worker' = [worker EXCEPT !.pc = "pause", !.success = FALSE]
        /\ UNCHANGED identity
  /\ UNCHANGED <<now, proofs, stopped, admission, accepted>>

\* One iteration of refresh()'s loop: _stop is asked, then the request is sent ...
StartFetch(s) ==
  /\ worker.pc = "fetch" /\ ~stopped
  /\ s \in worker.todo
  /\ worker' = [worker EXCEPT !.pc = "fetching", !.todo = @ \ {s}, !.subject = s]
  /\ UNCHANGED <<now, identity, proofs, stopped, admission, accepted>>

\* ... and the response is verified and merged, even if stop() came meanwhile ...
Fetch(r) ==
  /\ worker.pc = "fetching"
  /\ r.subject = worker.subject
  /\ Verified(r)
  /\ proofs' = [proofs EXCEPT ![r.subject] = Merged(@, r)]
  /\ accepted' = accepted \cup {r}
  /\ worker' = [worker EXCEPT !.pc = "fetch", !.subject = None]
  /\ UNCHANGED <<now, identity, stopped, admission>>

\* ... or the fetch or its verification failed.
FetchFails ==
  /\ worker.pc = "fetching"
  /\ worker' = [worker EXCEPT !.pc = "fetch", !.subject = None, !.success = FALSE]
  /\ UNCHANGED <<now, identity, proofs, stopped, admission, accepted>>

\* stop() seen between two subjects: refresh() returns False.
FetchStops ==
  /\ worker.pc = "fetch" /\ stopped /\ worker.todo # {}
  /\ worker' = [worker EXCEPT !.pc = "pause", !.success = FALSE]
  /\ UNCHANGED <<now, identity, proofs, stopped, admission, accepted>>

FetchDone ==
  /\ worker.pc = "fetch" /\ worker.todo = {}
  /\ worker' = [worker EXCEPT !.pc = "pause"]
  /\ UNCHANGED <<now, identity, proofs, stopped, admission, accepted>>

\* Mutant: the failure count does not saturate.
Failures_Unbounded(w) == IF w.success THEN 0 ELSE w.failures + 1

\* _run's schedule: exponential backoff while refreshes fail.
Failures(w) == IF w.success THEN 0 ELSE Least(w.failures + 1, MaxFailures)

Pause(w) == IF w.success THEN RefreshDelay ELSE Least(RetryDelay * 2 ^ (Failures(w) - 1), RetryCap)

Schedule ==
  /\ worker.pc = "pause"
  /\ worker' = [worker EXCEPT !.pc = "sleep", !.failures = Failures(worker), !.wait = Pause(worker)]
  /\ UNCHANGED <<now, identity, proofs, stopped, admission, accepted>>

\* _stop.wait ends: the delay is over, or stop() was called.
Wake ==
  /\ worker.pc = "sleep"
  /\ stopped \/ worker.wait = 0
  /\ worker' = [worker EXCEPT !.pc = "refresh", !.wait = 0]
  /\ UNCHANGED <<now, identity, proofs, stopped, admission, accepted>>

Exit ==
  /\ worker.pc = "refresh" /\ stopped
  /\ worker' = [worker EXCEPT !.pc = "ended"]
  /\ UNCHANGED <<now, identity, proofs, stopped, admission, accepted>>

Stop ==
  /\ ~stopped
  /\ stopped' = TRUE
  /\ UNCHANGED <<now, identity, proofs, worker, admission, accepted>>

-----------------------------------------------------------------------------
(* GatewayHandler.handle: every admission asks the cache before it collects *)
(* evidence, when it builds the certificate (the bundle goes into it), and  *)
(* before and after it sends the exporter proof.                            *)

Order == [none |-> "first", first |-> "certified", certified |-> "proved",
          proved |-> "sent", sent |-> "admitted"]

InProgress(a) == admission[a].step \in DOMAIN Order \ {"none"}

\* The steps that take a snapshot.  From the second on the identity in the
\* evidence must be the cache's.
Snapshot(a) ==
  /\ admission[a].step \in {"none", "first", "certified", "sent"}
  /\ Ready
  /\ admission' = [admission EXCEPT ![a].step = Order[@],
                                    ![a].bundle = IF admission[a].step = "first" THEN proofs ELSE @]
  /\ UNCHANGED <<now, identity, proofs, worker, stopped, accepted>>

\* The exporter proof is sent unless the admission deadline shut the socket.
SendProof(a) ==
  /\ admission[a].step = "proved"
  /\ admission[a].age <= AdmissionTime
  /\ admission' = [admission EXCEPT ![a].step = "sent", ![a].sent = now]
  /\ UNCHANGED <<now, identity, proofs, worker, stopped, accepted>>

\* StatusUnavailable (a snapshot failed, the inventory in the evidence differs
\* from the cache's), or any other failure of the admission.
Reject(a) ==
  /\ InProgress(a) \/ admission[a].step = "none"
  /\ admission' = [admission EXCEPT ![a].step = "rejected", ![a].bundle = NoBundle]
  /\ UNCHANGED <<now, identity, proofs, worker, stopped, accepted>>

Tick ==
  /\ now < MaxTime
  /\ now' = now + 1
  /\ worker' = [worker EXCEPT !.wait = IF @ > 0 THEN @ - 1 ELSE 0]
  /\ admission' = [a \in Admissions |->
       IF InProgress(a) /\ admission[a].age <= AdmissionTime
       THEN [admission[a] EXCEPT !.age = @ + 1] ELSE admission[a]]
  /\ UNCHANGED <<identity, proofs, stopped, accepted>>

Next ==
  \/ Refresh
  \/ \E r \in Responses : Fetch(r)
  \/ \E s \in Subjects : StartFetch(s)
  \/ FetchFails \/ FetchStops \/ FetchDone \/ Schedule \/ Wake \/ Exit \/ Stop
  \/ \E a \in Admissions : Snapshot(a) \/ SendProof(a) \/ Reject(a)
  \/ Tick

Spec == Init /\ [][Next]_vars

-----------------------------------------------------------------------------
Admission == [step : DOMAIN Order \cup {"admitted", "rejected"}, age : Nat,
              bundle : [Subjects -> Proof \cup {None}], sent : Nat]

TypeOK ==
  /\ now \in Nat
  /\ identity \in Inventories \cup {None}
  /\ proofs \in [Subjects -> Proof \cup {None}]
  /\ worker \in [pc : {"refresh", "fetch", "fetching", "pause", "sleep", "ended"},
                 todo : SUBSET Subjects, subject : Subjects \cup {None}, success : BOOLEAN, failures : 0..MaxFailures, wait : Nat]
  /\ stopped \in BOOLEAN
  /\ admission \in [Admissions -> Admission]
  /\ accepted \subseteq Responses

\* A subject's cached proof says "good" only if every accepted response that is
\* as new as it says so too, with the same validity: replays of old answers
\* cannot hide a revocation, and two contradicting answers for one instant
\* (ProofCache.accept) never count as good.
NewestAcceptedDecides ==
  \A s \in Subjects :
    proofs[s] # None /\ proofs[s].status = "good" =>
      \A r \in accepted :
        r.subject = s /\ r.this_update >= proofs[s].this_update =>
          /\ r.this_update = proofs[s].this_update
          /\ r.status = "good"
          /\ r.next_update = proofs[s].next_update

\* The cache never goes back to an older answer, and never loses one.
NoRollback ==
  [][\A s \in Subjects : proofs[s] # None =>
       /\ proofs'[s] # None
       /\ proofs'[s].this_update >= proofs[s].this_update]_vars

\* The proofs inside the certificate, fetched before the handshake, are still
\* valid when the exporter proof is sent: the minimum remaining validity of
\* ProofCache.snapshot covers the longest admission.
CertifiedProofsStillValid ==
  \A a \in Admissions :
    admission[a].step \in {"sent", "admitted"} =>
      \A s \in Subjects : /\ admission[a].bundle[s] # None
                          /\ admission[a].bundle[s].status = "good"
                          /\ Deadline(admission[a].bundle[s]) > admission[a].sent

\* A channel becomes admitted only on answers nothing accepted speaks against: every
\* subject has a good answer that still holds, and every bad answer ever accepted for it
\* is older.  A revocation that arrives while the admission is between its steps
\* (collector calls, handshake, sending) stops it, and no old answer fetched again after
\* it, or equally old one, lets it go on (handle's snapshots, ProofCache.accept).
BadNewsStopsAdmission ==
  [][\A a \in Admissions :
       admission[a].step # "admitted" /\ admission'[a].step = "admitted" =>
         \A s \in Subjects : \E q \in accepted :
           /\ q.subject = s /\ q.status = "good" /\ Deadline(q) > now
           /\ \A r \in accepted :
                r.subject = s /\ r.status # "good" => r.this_update < q.this_update]_vars
=============================================================================
