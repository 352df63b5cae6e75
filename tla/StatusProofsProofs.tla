------------------------- MODULE StatusProofsProofs -------------------------
(***************************************************************************)
(* Proofs about StatusProofs for every set of subjects, of signed          *)
(* responses and of admissions, and for every choice of the times that     *)
(* keeps the admission timeout below the minimum remaining validity.       *)
(***************************************************************************)
EXTENDS StatusProofs, TLAPS

\* What the proofs need of the types.
CacheTypeOK ==
  /\ now \in Nat
  /\ proofs \in [Subjects -> Proof \cup {None}]
  /\ accepted \subseteq Responses
  /\ admission \in [Admissions -> Admission]

\* Every accepted response is outweighed by its subject's cached proof: the
\* proof is newer, or as old and either the same or a conflict.
Outweighed(r, p) ==
  /\ p # None
  /\ p.this_update >= r.this_update
  /\ p.this_update = r.this_update =>
       p.status = "conflict" \/ (p.status = r.status /\ p.next_update = r.next_update)

AcceptedOutweighed == \A r \in accepted : Outweighed(r, proofs[r.subject])

\* A certificate's proofs outlive its admission as long as the admission
\* deadline has not passed.
BundleOutlives ==
  \A a \in Admissions :
    admission[a].step \in {"certified", "proved"} /\ admission[a].age <= AdmissionTime =>
      \A s \in Subjects :
        /\ admission[a].bundle[s] # None
        /\ admission[a].bundle[s].status = "good"
        /\ Deadline(admission[a].bundle[s]) + admission[a].age >= MinRemaining + now

IInv == CacheTypeOK /\ AcceptedOutweighed /\ BundleOutlives /\ CertifiedProofsStillValid

-----------------------------------------------------------------------------
\* The validity of a proof ends at an integer.
LEMMA DeadlineType ==
  ASSUME NEW p \in Proof
  PROVE  Deadline(p) \in Nat
BY TimeAssumption DEF Deadline, Least, Proof

\* Responses are proofs, and none of them is a conflict.
LEMMA ResponseIsProof ==
  ASSUME NEW r \in Responses
  PROVE  /\ r \in Proof
         /\ r # None
         /\ r.subject \in Subjects
         /\ r.this_update \in Nat
         /\ r.status # "conflict"
BY ResponseAssumption, NoneAssumption DEF Proof

\* ProofCache.accept yields a proof.
LEMMA MergedType ==
  ASSUME NEW p \in Proof \cup {None}, NEW r \in Responses
  PROVE  /\ Merged(p, r) \in Proof
         /\ Merged(p, r) # None
<1>1. r \in Proof
  BY ResponseIsProof
<1>2. Merged(p, r) \in Proof
  BY <1>1 DEF Merged, Proof
<1> QED
  BY <1>2, NoneAssumption

\* ProofCache.accept outweighs the response it merges and every response that
\* was outweighed before; it never goes back.
LEMMA MergedOutweighs ==
  ASSUME NEW p \in Proof \cup {None}, NEW r \in Responses
  PROVE  /\ Outweighed(r, Merged(p, r))
         /\ \A q \in Responses : Outweighed(q, p) => Outweighed(q, Merged(p, r))
         /\ p # None => Merged(p, r).this_update >= p.this_update
<1>1. Merged(p, r) # None
  BY MergedType
<1>2. r \in Proof /\ r # None
  BY ResponseIsProof
<1>3. CASE p = None
  BY <1>1, <1>2, <1>3 DEF Merged, Outweighed, Proof
<1>4. CASE p # None /\ r.this_update > p.this_update
  <2>1. Merged(p, r) = r
    BY <1>4 DEF Merged
  <2>2. p \in Proof
    BY <1>4
  <2>3. \A q \in Responses : q.this_update \in Nat
    BY ResponseIsProof
  <2> QED
    BY <1>1, <1>2, <1>4, <2>1, <2>2, <2>3 DEF Outweighed, Proof
<1>5. CASE p # None /\ ~(r.this_update > p.this_update)
  <2>1. p \in Proof
    BY <1>5
  <2>2. CASE r.this_update = p.this_update /\ <<r.status, r.next_update>> # <<p.status, p.next_update>>
    <3>1. Merged(p, r) = [p EXCEPT !.status = "conflict"]
      BY <1>5, <2>2 DEF Merged
    <3>2. /\ Merged(p, r).this_update = p.this_update
          /\ Merged(p, r).status = "conflict"
      BY <3>1, <2>1 DEF Proof
    <3> QED
      BY <1>1, <1>2, <1>5, <2>1, <2>2, <3>2 DEF Outweighed, Proof
  <2>3. CASE ~(r.this_update = p.this_update /\ <<r.status, r.next_update>> # <<p.status, p.next_update>>)
    <3>1. Merged(p, r) = p
      BY <1>5, <2>3 DEF Merged
    <3> QED
      BY <1>1, <1>2, <1>5, <2>1, <2>3, <3>1 DEF Outweighed, Proof
  <2> QED
    BY <2>2, <2>3
<1> QED
  BY <1>3, <1>4, <1>5

-----------------------------------------------------------------------------
\* The initial cache is empty and no admission has begun.
LEMMA InitIInv == Init => IInv
<1> SUFFICES ASSUME Init PROVE IInv
  OBVIOUS
<1>1. now \in Nat
  BY TimeAssumption DEF Init
<1>2. NoBundle \in [Subjects -> Proof \cup {None}]
  BY DEF NoBundle
<1>3. admission \in [Admissions -> Admission]
  BY <1>2 DEF Init, Admission, Order
<1>4. CacheTypeOK
  BY <1>1, <1>2, <1>3 DEF Init, CacheTypeOK
<1>5. AcceptedOutweighed
  BY DEF Init, AcceptedOutweighed
<1>6. \A a \in Admissions : admission[a].step = "none"
  BY DEF Init
<1>7. BundleOutlives /\ CertifiedProofsStillValid
  BY <1>6 DEF BundleOutlives, CertifiedProofsStillValid
<1> QED
  BY <1>4, <1>5, <1>7 DEF IInv

\* The actions of the worker that touch neither the cache nor an admission.
LEMMA QuietPreserves ==
  ASSUME IInv, UNCHANGED <<now, proofs, admission, accepted>>
  PROVE  IInv'
BY DEF IInv, CacheTypeOK, AcceptedOutweighed, Outweighed, BundleOutlives,
       CertifiedProofsStillValid, Deadline, Least

\* refresh() merges one verified response.
LEMMA FetchPreserves ==
  ASSUME IInv, NEW r \in Responses, Fetch(r)
  PROVE  IInv'
<1> DEFINE p == proofs[r.subject]
<1>1. r.subject \in Subjects
  BY ResponseIsProof
<1>2. p \in Proof \cup {None}
  BY <1>1 DEF IInv, CacheTypeOK
<1>3. proofs' = [proofs EXCEPT ![r.subject] = Merged(p, r)]
  BY DEF Fetch
<1>4. Merged(p, r) \in Proof
  BY <1>2, MergedType
<1>5. CacheTypeOK'
  BY <1>1, <1>3, <1>4 DEF IInv, CacheTypeOK, Fetch
<1>6. AcceptedOutweighed'
  <2> SUFFICES ASSUME NEW q \in accepted'
               PROVE  Outweighed(q, proofs'[q.subject])
    BY DEF AcceptedOutweighed
  <2>1. q \in Responses
    BY DEF Fetch, IInv, CacheTypeOK
  <2>2. q.subject \in Subjects
    BY <2>1, ResponseIsProof
  <2>3. CASE q = r
    <3>1. proofs'[q.subject] = Merged(p, r)
      BY <1>1, <1>3, <2>3 DEF IInv, CacheTypeOK
    <3>2. Outweighed(r, Merged(p, r))
      BY <1>2, MergedOutweighs
    <3> QED
      BY <2>3, <3>1, <3>2
  <2>4. CASE q # r
    <3>1. Outweighed(q, proofs[q.subject])
      BY <2>4 DEF Fetch, IInv, AcceptedOutweighed
    <3>2. CASE q.subject = r.subject
      <4>1. proofs'[q.subject] = Merged(p, r)
        BY <1>1, <1>3, <3>2 DEF IInv, CacheTypeOK
      <4>2. Outweighed(q, p)
        BY <3>1, <3>2
      <4>3. Outweighed(q, Merged(p, r))
        BY <1>2, <2>1, <4>2, MergedOutweighs
      <4> QED
        BY <4>1, <4>3
    <3>3. CASE q.subject # r.subject
      <4>1. proofs'[q.subject] = proofs[q.subject]
        BY <1>3, <2>2, <3>3 DEF IInv, CacheTypeOK
      <4> QED
        BY <3>1, <4>1
    <3> QED
      BY <3>2, <3>3
  <2> QED
    BY <2>3, <2>4
<1>7. BundleOutlives' /\ CertifiedProofsStillValid'
  BY DEF Fetch, IInv, BundleOutlives, CertifiedProofsStillValid, Deadline, Least
<1> QED
  BY <1>5, <1>6, <1>7 DEF IInv

\* A snapshot succeeded; the second one fills the certificate's bundle.
LEMMA SnapshotPreserves ==
  ASSUME IInv, NEW b \in Admissions, Snapshot(b)
  PROVE  IInv'
<1> USE DEF IInv
<1>1. admission[b] \in Admission
  BY DEF CacheTypeOK
<1>2. /\ Order[admission[b].step] \in {"first", "certified", "proved", "admitted"}
      /\ Order[admission[b].step] = "certified" <=> admission[b].step = "first"
      /\ Order[admission[b].step] = "proved" <=> admission[b].step = "certified"
      /\ Order[admission[b].step] = "admitted" <=> admission[b].step = "sent"
  BY DEF Snapshot, Order
<1>3. admission'[b] = [step |-> Order[admission[b].step], age |-> admission[b].age,
                       bundle |-> IF admission[b].step = "first" THEN proofs ELSE admission[b].bundle,
                       sent |-> admission[b].sent]
  BY <1>1 DEF Snapshot, CacheTypeOK, Admission
<1>4. \A a \in Admissions : a # b => admission'[a] = admission[a]
  BY DEF Snapshot, CacheTypeOK
<1>5. admission'[b] \in Admission
  BY <1>1, <1>2, <1>3 DEF CacheTypeOK, Admission, Order
<1>6. CacheTypeOK'
  <2>1. admission' \in [Admissions -> Admission]
    BY <1>5 DEF Snapshot, CacheTypeOK
  <2> QED
    BY <2>1 DEF Snapshot, CacheTypeOK
<1>7. AcceptedOutweighed'
  BY DEF Snapshot, AcceptedOutweighed
<1>8. ASSUME NEW s \in Subjects
      PROVE  /\ proofs[s] # None
             /\ proofs[s].status = "good"
             /\ Deadline(proofs[s]) - now >= MinRemaining
             /\ Deadline(proofs[s]) \in Nat
  <2>1. Usable(proofs[s])
    BY DEF Snapshot, Ready
  <2>2. proofs[s] \in Proof
    BY <2>1 DEF Usable, CacheTypeOK
  <2>3. Deadline(proofs[s]) \in Nat
    BY <2>2, DeadlineType
  <2> QED
    BY <2>1, <2>3 DEF Usable
<1>9. BundleOutlives'
  <2> SUFFICES ASSUME NEW a \in Admissions,
                      admission'[a].step \in {"certified", "proved"},
                      admission'[a].age <= AdmissionTime,
                      NEW s \in Subjects
               PROVE  /\ admission'[a].bundle[s] # None
                      /\ admission'[a].bundle[s].status = "good"
                      /\ Deadline(admission'[a].bundle[s]) + admission'[a].age >= MinRemaining + now
    BY DEF BundleOutlives, Deadline, Least, Snapshot
  <2>1. CASE a # b
    BY <1>4, <2>1 DEF BundleOutlives
  <2>2. CASE a = b /\ admission[b].step = "first"
    <3>1. admission'[a].bundle = proofs /\ admission'[a].age = admission[b].age
      BY <1>3, <2>2
    <3>2. admission[b].age \in Nat /\ now \in Nat /\ MinRemaining \in Nat
      BY <1>1, TimeAssumption DEF Admission, CacheTypeOK
    <3> QED
      BY <1>8, <3>1, <3>2
  <2>3. CASE a = b /\ admission[b].step # "first"
    <3>1. admission[b].step = "certified" /\ admission'[a].bundle = admission[b].bundle
          /\ admission'[a].age = admission[b].age
      BY <1>2, <1>3, <2>3
    <3> QED
      BY <2>3, <3>1 DEF BundleOutlives
  <2> QED
    BY <2>1, <2>2, <2>3
<1>10. CertifiedProofsStillValid'
  <2> SUFFICES ASSUME NEW a \in Admissions,
                      admission'[a].step \in {"sent", "admitted"}
               PROVE  /\ admission[a].step \in {"sent", "admitted"}
                      /\ admission'[a].bundle = admission[a].bundle
                      /\ admission'[a].sent = admission[a].sent
    BY DEF CertifiedProofsStillValid, Deadline, Least
  <2> QED
    BY <1>2, <1>3, <1>4
<1> QED
  BY <1>6, <1>7, <1>9, <1>10

\* The exporter proof is sent before the admission deadline.
LEMMA SendProofPreserves ==
  ASSUME IInv, NEW b \in Admissions, SendProof(b)
  PROVE  IInv'
<1> USE DEF IInv
<1>1. admission[b] \in Admission /\ now \in Nat
  BY DEF CacheTypeOK
<1>2. admission'[b] = [step |-> "sent", age |-> admission[b].age,
                       bundle |-> admission[b].bundle, sent |-> now]
  BY <1>1 DEF SendProof, CacheTypeOK, Admission
<1>3. \A a \in Admissions : a # b => admission'[a] = admission[a]
  BY DEF SendProof, CacheTypeOK
<1>4. CacheTypeOK'
  <2>1. admission'[b] \in Admission
    BY <1>1, <1>2 DEF Admission, Order
  <2> QED
    BY <2>1 DEF SendProof, CacheTypeOK
<1>5. AcceptedOutweighed'
  BY DEF SendProof, AcceptedOutweighed
<1>6. BundleOutlives'
  <2>1. now' = now
    BY DEF SendProof
  <2>2. ASSUME NEW a \in Admissions, admission'[a].step \in {"certified", "proved"},
               admission'[a].age <= AdmissionTime, NEW t \in Subjects
        PROVE  /\ admission'[a].bundle[t] # None
               /\ admission'[a].bundle[t].status = "good"
               /\ Deadline(admission'[a].bundle[t]) + admission'[a].age >= MinRemaining + now'
    <3>1. admission'[a] = admission[a]
      BY <1>2, <1>3, <2>2
    <3> QED
      BY <2>1, <2>2, <3>1 DEF BundleOutlives
  <2> QED
    BY <2>2 DEF BundleOutlives, Deadline, Least
<1>7. CertifiedProofsStillValid'
  <2> SUFFICES ASSUME NEW a \in Admissions,
                      admission'[a].step \in {"sent", "admitted"},
                      NEW s \in Subjects
               PROVE  /\ admission'[a].bundle[s] # None
                      /\ admission'[a].bundle[s].status = "good"
                      /\ Deadline(admission'[a].bundle[s]) > admission'[a].sent
    BY DEF CertifiedProofsStillValid, Deadline, Least
  <2>1. CASE a # b
    BY <1>3, <2>1 DEF CertifiedProofsStillValid
  <2>2. CASE a = b
    <3>1. /\ admission[b].bundle[s] # None
          /\ admission[b].bundle[s].status = "good"
          /\ Deadline(admission[b].bundle[s]) + admission[b].age >= MinRemaining + now
      BY DEF SendProof, BundleOutlives
    <3>2. admission[b].bundle[s] \in Proof
      BY <1>1, <3>1 DEF Admission
    <3>3. Deadline(admission[b].bundle[s]) \in Nat /\ admission[b].age \in Nat
      BY <1>1, <3>2, DeadlineType DEF Admission
    <3>4. Deadline(admission[b].bundle[s]) > now
      BY <1>1, <3>1, <3>3, TimeAssumption DEF SendProof
    <3> QED
      BY <1>2, <2>2, <3>1, <3>4
  <2> QED
    BY <2>1, <2>2
<1> QED
  BY <1>4, <1>5, <1>6, <1>7

\* An admission ends without a bundle.
LEMMA RejectPreserves ==
  ASSUME IInv, NEW b \in Admissions, Reject(b)
  PROVE  IInv'
<1> USE DEF IInv
<1>1. admission[b] \in Admission
  BY DEF CacheTypeOK
<1>2. admission'[b] = [step |-> "rejected", age |-> admission[b].age,
                       bundle |-> NoBundle, sent |-> admission[b].sent]
  BY <1>1 DEF Reject, CacheTypeOK, Admission
<1>3. \A a \in Admissions : a # b => admission'[a] = admission[a]
  BY DEF Reject, CacheTypeOK
<1>4. CacheTypeOK'
  <2>1. admission'[b] \in Admission
    BY <1>1, <1>2 DEF Admission, NoBundle
  <2> QED
    BY <2>1 DEF Reject, CacheTypeOK
<1>5. AcceptedOutweighed'
  BY DEF Reject, AcceptedOutweighed
<1>6. \A a \in Admissions :
        admission'[a].step # "rejected" => admission'[a] = admission[a]
  BY <1>2, <1>3
<1>7. BundleOutlives'
  <2>1. now' = now
    BY DEF Reject
  <2>2. ASSUME NEW a \in Admissions, admission'[a].step \in {"certified", "proved"},
               admission'[a].age <= AdmissionTime, NEW t \in Subjects
        PROVE  /\ admission'[a].bundle[t] # None
               /\ admission'[a].bundle[t].status = "good"
               /\ Deadline(admission'[a].bundle[t]) + admission'[a].age >= MinRemaining + now'
    <3>1. admission'[a] = admission[a]
      BY <1>6, <2>2
    <3> QED
      BY <2>1, <2>2, <3>1 DEF BundleOutlives
  <2> QED
    BY <2>2 DEF BundleOutlives, Deadline, Least
<1>8. CertifiedProofsStillValid'
  <2> SUFFICES ASSUME NEW a \in Admissions,
                      admission'[a].step \in {"sent", "admitted"}
               PROVE  admission'[a] = admission[a]
    BY DEF CertifiedProofsStillValid, Deadline, Least
  <2> QED
    BY <1>6
<1> QED
  BY <1>4, <1>5, <1>7, <1>8

\* Time passes: an admission under way ages as fast as its proofs.
LEMMA TickPreserves ==
  ASSUME IInv, Tick
  PROVE  IInv'
<1> USE DEF IInv
<1>1. now \in Nat /\ now' = now + 1 /\ UNCHANGED <<proofs, accepted>>
  BY DEF Tick, CacheTypeOK
<1>2. ASSUME NEW a \in Admissions
      PROVE  /\ admission'[a] \in Admission
             /\ admission'[a].step = admission[a].step
             /\ admission'[a].bundle = admission[a].bundle
             /\ admission'[a].sent = admission[a].sent
             /\ admission'[a].step \in {"certified", "proved"} /\ admission'[a].age <= AdmissionTime
                  => admission'[a].age = admission[a].age + 1
  <2>1. admission[a] \in Admission
    BY DEF CacheTypeOK
  <2>2. CASE InProgress(a) /\ admission[a].age <= AdmissionTime
    <3>1. admission'[a] = [step |-> admission[a].step, age |-> admission[a].age + 1,
                           bundle |-> admission[a].bundle, sent |-> admission[a].sent]
      BY <2>1, <2>2 DEF Tick, Admission
    <3> QED
      BY <2>1, <3>1 DEF Admission
  <2>3. CASE ~InProgress(a) \/ ~(admission[a].age <= AdmissionTime)
    <3>1. admission'[a] = admission[a]
      BY <2>3 DEF Tick
    <3>2. admission[a].step \in {"certified", "proved"} => InProgress(a)
      BY DEF InProgress, Order
    <3> QED
      BY <2>1, <2>3, <3>1, <3>2
  <2> QED
    BY <2>2, <2>3
<1>3. CacheTypeOK'
  <2>1. admission' = [a \in Admissions |-> admission'[a]]
    BY DEF Tick
  <2>2. admission' \in [Admissions -> Admission]
    BY <1>2, <2>1
  <2> QED
    BY <1>1, <2>2 DEF CacheTypeOK
<1>4. AcceptedOutweighed'
  BY <1>1 DEF AcceptedOutweighed
<1>5. BundleOutlives'
  <2> SUFFICES ASSUME NEW a \in Admissions,
                      admission'[a].step \in {"certified", "proved"},
                      admission'[a].age <= AdmissionTime,
                      NEW s \in Subjects
               PROVE  /\ admission'[a].bundle[s] # None
                      /\ admission'[a].bundle[s].status = "good"
                      /\ Deadline(admission'[a].bundle[s]) + admission'[a].age >= MinRemaining + now'
    BY DEF BundleOutlives, Deadline, Least
  <2>1. admission[a].age \in Nat /\ admission[a] \in Admission
    BY DEF CacheTypeOK, Admission
  <2>2. admission'[a].age = admission[a].age + 1
    BY <1>2
  <2>3. /\ admission[a].bundle[s] # None
        /\ admission[a].bundle[s].status = "good"
        /\ Deadline(admission[a].bundle[s]) + admission[a].age >= MinRemaining + now
    BY <1>2, <2>1, <2>2, TimeAssumption DEF BundleOutlives
  <2>4. Deadline(admission[a].bundle[s]) \in Nat
    BY <2>1, <2>3, DeadlineType DEF Admission
  <2> QED
    BY <1>1, <1>2, <2>1, <2>2, <2>3, <2>4, TimeAssumption
<1>6. CertifiedProofsStillValid'
  BY <1>2 DEF CertifiedProofsStillValid, Deadline, Least
<1> QED
  BY <1>3, <1>4, <1>5, <1>6

\* Every step preserves the inductive invariant.
LEMMA NextIInv == IInv /\ [Next]_vars => IInv'
<1> SUFFICES ASSUME IInv, [Next]_vars PROVE IInv'
  OBVIOUS
<1>1. ASSUME NEW r \in Responses, Fetch(r) PROVE IInv'
  BY <1>1, FetchPreserves
<1>2. ASSUME NEW s \in Subjects, StartFetch(s) PROVE IInv'
  BY <1>2, QuietPreserves DEF StartFetch
<1>3. ASSUME NEW a \in Admissions, Snapshot(a) \/ SendProof(a) \/ Reject(a) PROVE IInv'
  BY <1>3, SnapshotPreserves, SendProofPreserves, RejectPreserves
<1>4. CASE Tick
  BY <1>4, TickPreserves
<1>5. CASE Refresh \/ FetchFails \/ FetchStops \/ FetchDone \/ Schedule \/ Wake \/ Exit \/ Stop
  BY <1>5, QuietPreserves DEF Refresh, FetchFails, FetchStops, FetchDone, Schedule, Wake, Exit, Stop
<1>6. CASE UNCHANGED vars
  BY <1>6, QuietPreserves DEF vars
<1> QED
  BY <1>1, <1>2, <1>3, <1>4, <1>5, <1>6 DEF Next

\* The inductive invariant holds in every reachable state.
THEOREM CacheInvariance == Spec => []IInv
BY InitIInv, NextIInv, PTL DEF Spec

-----------------------------------------------------------------------------
\* The invariant decides what a good cached proof means.
LEMMA OutweighedDecides == IInv => NewestAcceptedDecides
<1> SUFFICES ASSUME IInv,
                    NEW s \in Subjects, proofs[s] # None, proofs[s].status = "good",
                    NEW r \in accepted, r.subject = s, r.this_update >= proofs[s].this_update
             PROVE  /\ r.this_update = proofs[s].this_update
                    /\ r.status = "good"
                    /\ r.next_update = proofs[s].next_update
  BY DEF NewestAcceptedDecides
<1>1. r \in Responses /\ r.this_update \in Nat
  BY ResponseIsProof DEF IInv, CacheTypeOK
<1>2. proofs[s].this_update \in Nat
  BY DEF IInv, CacheTypeOK, Proof
<1>3. Outweighed(r, proofs[s])
  BY DEF IInv, AcceptedOutweighed
<1> QED
  BY <1>1, <1>2, <1>3 DEF Outweighed

\* ProofCache.accept: whatever order the responder's answers arrive in, however
\* often old ones are replayed, a cached "good" is backed by the newest answer.
THEOREM NewestDecides == Spec => []NewestAcceptedDecides
BY CacheInvariance, OutweighedDecides, PTL

\* The proofs in a certificate are valid when the exporter proof is sent, for
\* every admission timeout below the minimum remaining validity of a snapshot.
THEOREM CertificatesOutliveAdmission == Spec => []CertifiedProofsStillValid
<1>1. IInv => CertifiedProofsStillValid
  BY DEF IInv
<1> QED
  BY CacheInvariance, <1>1, PTL

\* One step never replaces a cached proof by an older one.
LEMMA StepNoRollback ==
  ASSUME IInv, [Next]_vars, NEW s \in Subjects, proofs[s] # None
  PROVE  /\ proofs'[s] # None
         /\ proofs'[s].this_update >= proofs[s].this_update
<1>1. proofs[s] \in Proof
  BY DEF IInv, CacheTypeOK
<1>2. proofs[s].this_update \in Nat
  BY <1>1 DEF Proof
<1>3. ASSUME NEW r \in Responses, Fetch(r)
      PROVE  /\ proofs'[s] # None
             /\ proofs'[s].this_update >= proofs[s].this_update
  <2>1. proofs' = [proofs EXCEPT ![r.subject] = Merged(proofs[r.subject], r)]
    BY <1>3 DEF Fetch
  <2>2. CASE s = r.subject
    <3>1. proofs'[s] = Merged(proofs[s], r)
      BY <2>1, <2>2 DEF IInv, CacheTypeOK
    <3>2. /\ Merged(proofs[s], r) # None
          /\ Merged(proofs[s], r).this_update >= proofs[s].this_update
      BY <1>1, MergedType, MergedOutweighs
    <3> QED
      BY <3>1, <3>2
  <2>3. CASE s # r.subject
    <3>1. proofs'[s] = proofs[s]
      BY <2>1, <2>3 DEF IInv, CacheTypeOK
    <3> QED
      BY <1>2, <3>1
  <2> QED
    BY <2>2, <2>3
<1>4. CASE UNCHANGED proofs
  BY <1>2, <1>4
<1> QED
  BY <1>3, <1>4 DEF Next, vars, Refresh, StartFetch, FetchFails, FetchStops, FetchDone, Schedule, Wake, Exit,
                    Stop, Snapshot, SendProof, Reject, Tick

\* The cache never rolls back (ProofCache.accept).
THEOREM CacheNeverRollsBack == Spec => NoRollback
<1>1. IInv /\ [Next]_vars =>
        [\A s \in Subjects : proofs[s] # None =>
           /\ proofs'[s] # None
           /\ proofs'[s].this_update >= proofs[s].this_update]_vars
  BY StepNoRollback
<1> QED
  BY CacheInvariance, <1>1, PTL DEF Spec, NoRollback

\* The only step that admits a channel takes a snapshot of a good cache.
LEMMA StepAdmits ==
  ASSUME IInv, [Next]_vars, NEW a \in Admissions, NEW s \in Subjects,
         admission[a].step # "admitted", admission'[a].step = "admitted"
  PROVE  Usable(proofs[s])
<1>1. admission[a] \in Admission /\ admission \in [Admissions -> Admission]
  BY DEF IInv, CacheTypeOK
<1>2. ASSUME NEW b \in Admissions, Snapshot(b) PROVE Ready
  BY <1>2 DEF Snapshot
<1>3. ASSUME NEW b \in Admissions, SendProof(b) PROVE FALSE
  <2>1. CASE b = a
    BY <1>1, <1>3, <2>1 DEF SendProof, Admission
  <2>2. CASE b # a
    BY <1>1, <1>3, <2>2 DEF SendProof
  <2> QED
    BY <2>1, <2>2
<1>4. ASSUME NEW b \in Admissions, Reject(b) PROVE FALSE
  <2>1. CASE b = a
    BY <1>1, <1>4, <2>1 DEF Reject, Admission
  <2>2. CASE b # a
    BY <1>1, <1>4, <2>2 DEF Reject
  <2> QED
    BY <2>1, <2>2
<1>5. ~Tick
  BY <1>1 DEF Tick, Admission
<1>6. ~UNCHANGED admission
  OBVIOUS
<1>7. Ready
  BY <1>2, <1>3, <1>4, <1>5, <1>6 DEF Next, vars, Refresh, Fetch, StartFetch, FetchFails, FetchStops, FetchDone,
                                      Schedule, Wake, Exit, Stop
<1> QED
  BY <1>7 DEF Ready

\* A cached proof is of its subject, and it is an accepted response unless it is a
\* conflict, which no response is.
CachedAccepted ==
  \A s \in Subjects : proofs[s] # None =>
    /\ proofs[s].subject = s
    /\ proofs[s].status # "conflict" => proofs[s] \in accepted

\* ProofCache.accept caches the response, keeps the proof or marks it.
LEMMA MergedIsOneOfThem ==
  ASSUME NEW p \in Proof \cup {None}, NEW r \in Responses
  PROVE  \/ Merged(p, r) = r
         \/ p # None /\ Merged(p, r) = p
         \/ p \in Proof /\ Merged(p, r).subject = p.subject /\ Merged(p, r).status = "conflict"
<1>1. CASE p = None
  BY <1>1 DEF Merged
<1>2. CASE p \in Proof /\ p # None
  <2>1. [p EXCEPT !.status = "conflict"].subject = p.subject
    BY <1>2 DEF Proof
  <2>2. [p EXCEPT !.status = "conflict"].status = "conflict"
    BY <1>2 DEF Proof
  <2> QED
    BY <1>2, <2>1, <2>2 DEF Merged
<1> QED
  BY <1>1, <1>2

THEOREM CacheHoldsAccepted == Spec => []CachedAccepted
<1>1. Init => CachedAccepted
  BY DEF Init, NoBundle, CachedAccepted
<1>2. IInv /\ CachedAccepted /\ [Next]_vars => CachedAccepted'
  <2> SUFFICES ASSUME IInv, CachedAccepted, [Next]_vars, NEW s \in Subjects, proofs'[s] # None
               PROVE  /\ proofs'[s].subject = s
                      /\ proofs'[s].status # "conflict" => proofs'[s] \in accepted'
    BY DEF CachedAccepted
  <2>1. proofs[s] \in Proof \cup {None}
    BY DEF IInv, CacheTypeOK
  <2>2. CASE UNCHANGED <<proofs, accepted>>
    BY <2>2 DEF CachedAccepted
  <2>3. ASSUME NEW r \in Responses, Fetch(r)
        PROVE  /\ proofs'[s].subject = s
               /\ proofs'[s].status # "conflict" => proofs'[s] \in accepted'
    <3>1. /\ proofs' = [proofs EXCEPT ![r.subject] = Merged(proofs[r.subject], r)]
          /\ accepted' = accepted \cup {r}
      BY <2>3 DEF Fetch
    <3>2. CASE r.subject # s
      <4>1. proofs'[s] = proofs[s]
        BY <3>1, <3>2 DEF IInv, CacheTypeOK
      <4> QED
        BY <3>1, <4>1 DEF CachedAccepted
    <3>3. CASE r.subject = s
      <4>1. proofs'[s] = Merged(proofs[s], r)
        BY <3>1, <3>3 DEF IInv, CacheTypeOK
      <4>2. \/ proofs'[s] = r
            \/ proofs[s] # None /\ proofs'[s] = proofs[s]
            \/ /\ proofs[s] \in Proof
               /\ proofs'[s].subject = proofs[s].subject /\ proofs'[s].status = "conflict"
        BY <2>1, <4>1, MergedIsOneOfThem
      <4> QED
        BY <3>1, <3>3, <4>2, NoneAssumption DEF CachedAccepted
    <3> QED
      BY <3>2, <3>3
  <2> QED
    BY <2>2, <2>3 DEF Next, vars, Refresh, StartFetch, FetchFails, FetchStops, FetchDone,
                      Schedule, Wake, Exit, Stop, Snapshot, SendProof, Reject, Tick
<1> QED
  BY CacheInvariance, <1>1, <1>2, PTL DEF Spec

\* What the step that admits a channel relies on: the good answer in the cache was
\* accepted, and it outweighs every bad one.
LEMMA StepIsUnrefuted ==
  ASSUME IInv, CachedAccepted, [Next]_vars, NEW a \in Admissions, NEW s \in Subjects,
         admission[a].step # "admitted", admission'[a].step = "admitted"
  PROVE  \E q \in accepted :
           /\ q.subject = s /\ q.status = "good" /\ Deadline(q) > now
           /\ \A r \in accepted :
                r.subject = s /\ r.status # "good" => r.this_update < q.this_update
<1>1. Usable(proofs[s])
  BY StepAdmits
<1>2. proofs[s] # None /\ proofs[s].status = "good" /\ Deadline(proofs[s]) - now >= MinRemaining
  BY <1>1 DEF Usable
<1>3. proofs[s] \in Proof /\ now \in Nat
  BY <1>2 DEF IInv, CacheTypeOK
<1>4. proofs[s] \in accepted /\ proofs[s].subject = s
  BY <1>2 DEF CachedAccepted
<1>5. Deadline(proofs[s]) > now
  BY <1>2, <1>3, DeadlineType, TimeAssumption
<1>6. ASSUME NEW r \in accepted, r.subject = s, r.status # "good"
      PROVE  r.this_update < proofs[s].this_update
  <2>1. r.this_update \in Nat /\ proofs[s].this_update \in Nat
    BY <1>3, ResponseIsProof DEF IInv, CacheTypeOK, Proof
  <2>2. Outweighed(r, proofs[s])
    BY <1>6 DEF IInv, AcceptedOutweighed
  <2> QED
    BY <1>2, <1>6, <2>1, <2>2 DEF Outweighed
<1> QED
  BY <1>2, <1>4, <1>5, <1>6

\* A channel is admitted only on answers that nothing accepted before speaks against,
\* whatever arrives, again or out of order, while the admission is under way: the last
\* snapshot of GatewayHandler.handle follows the proof.
THEOREM AdmissionNeedsGoodStatus == Spec => BadNewsStopsAdmission
<1>1. IInv /\ CachedAccepted /\ [Next]_vars =>
        [\A a \in Admissions :
           admission[a].step # "admitted" /\ admission'[a].step = "admitted" =>
             \A s \in Subjects : \E q \in accepted :
               /\ q.subject = s /\ q.status = "good" /\ Deadline(q) > now
               /\ \A r \in accepted :
                    r.subject = s /\ r.status # "good" => r.this_update < q.this_update]_vars
  BY StepIsUnrefuted
<1> QED
  BY CacheInvariance, CacheHoldsAccepted, <1>1, PTL DEF Spec, BadNewsStopsAdmission
=============================================================================
