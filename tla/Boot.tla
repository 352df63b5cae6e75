-------------------------------- MODULE Boot --------------------------------
(* The boot of the appliance, from the measurement of the reducers to what a   *)
(* client is told of it.  A behaviour is one of the chain of reducers, or of   *)
(* one of the seven parts around it: part says which.  A part has variables of *)
(* its own, which are None in the behaviours of the others.                    *)
EXTENDS BootChain

CONSTANTS None, Torn,
          Threads, MaxCaps, MaxOps, NRoles,
          Objects, Addresses, MaxCounter, MaxFaults,
          Bindings, MaxBoots, MaxMishaps,
          Channels, MaxClock, MaxAsked, MaxEvents, Window,
          Controller, Gateway, Responses, Chunks, Talk, Buffer, PacketTime, OverallTime, MaxTime, MaxReplays,
          Guests, About, Policy, Products, MaxLevel, MaxPuts,
          Asks, MaxTcb, MaxIncidents

VARIABLES part,
          engine, reg, tampered, writable, cap, wr, launch, oplock, pc, stk, cur, tgt, exc, ops,
          obj, changed, generation, records, tombstones, highWater, minted, claiming, callbacks,
          faults, rejected, claims, harmed,
          boot, pcr15, pcr16, see, fd3, pid1, authority, mishaps,
          tpm, broker, bus, client, answers, past, quotes, events,
          chan, wire, sent, delivered, now, replays,
          level, nonce, bundle, signed, ver, released, stable, puts,
          tcb, cache, kds, cc, work, incidents

admission == <<engine, reg, tampered, writable, cap, wr, launch, oplock, pc, stk, cur, tgt, exc, ops>>
registry == <<obj, changed, generation, records, tombstones, highWater, minted, claiming,
              callbacks, faults, rejected, claims, harmed>>
resume == <<boot, pcr15, pcr16, see, fd3, pid1, authority, mishaps>>
quote == <<tpm, broker, bus, client, answers, past, quotes, events>>
channel == <<chan, wire, sent, delivered, now, replays>>
release == <<level, nonce, bundle, signed, ver, released, stable, puts>>
worker == <<tcb, cache, kds, cc, work, incidents>>
all == <<part, vars, admission, registry, resume, quote, channel, release, worker>>

\* Nil is no thread, and capabilities are told by number.
ASSUME ThreadsAssumption == 0 \notin Threads
ASSUME CapsAssumption == MaxCaps \in Nat

\* The registry tells its bindings by number, and 0 is none of them.
ASSUME ObjectsAssumption == Objects \subseteq Nat \ {0}

\* Messages of the channel, how far one is out, acknowledgements and frames.
Words == DOMAIN Chunks
Positions == [msg : Words, index : Nat]
Acks == [seq : Nat, msg : Words, so_far : Nat]
Frames == [kind : {"plain", "chunk", "ack"}, msg : Words, seq : Nat, index : Nat, count : Nat,
           acks : {0} \cup Acks, said : Nat]

\* None is none of these and no number, and the times are numbers.
ASSUME NoneAssumption == /\ None \notin Nat /\ None \notin Words
                         /\ None \notin Positions /\ None \notin Frames
ASSUME TimeAssumption == Window \in Nat /\ PacketTime \in Nat

\* The channel has two ends; only a collector response may take more than one chunk.
ASSUME EndsAssumption == Controller # Gateway
ASSUME TalkAssumption == /\ \A e \in {Controller, Gateway} : Talk[e] \in Seq(Words)
                         /\ \A m \in Words : Chunks[m] \in Nat \ {0}
                         /\ \A m \in Words \ Responses : Chunks[m] = 1

\* No pinned intermediate is the forger's, and whether AMD made a chip is a matter of
\* the chip.
ASSUME ProductsAssumption == \A g \in Guests : Products[About[g].product] # "forger"
ASSUME ChipsAssumption == \A g, h \in Guests :
                             About[g].chip = About[h].chip => About[g].genuine = About[h].genuine

-----------------------------------------------------------------------------
\* The serving authority, and the threads of PID 1.
A == INSTANCE ServingAdmission WITH eng <- engine, changed <- tampered

\* The registry of bindings.
G == INSTANCE BootRegistry

\* The hand-over from stage 1 to stage 2.
R == INSTANCE ResumeAnchor WITH events <- mishaps, MaxEvents <- MaxMishaps

\* The attestation broker.
Q == INSTANCE QuoteBroker WITH wire <- bus

\* The channel between the controller and the gateway.
M == INSTANCE MessageChannel

\* The off-guest verifier.
K == INSTANCE KeyRelease WITH tcb <- level, quotes <- signed, MaxTcb <- MaxLevel

\* The evidence worker.
W == INSTANCE EvidenceWorker WITH events <- incidents, MaxEvents <- MaxIncidents

-----------------------------------------------------------------------------
\* The variables of a part that is not the one.
NoAdmission ==
  /\ engine = None /\ reg = None /\ tampered = None /\ writable = None /\ cap = None /\ wr = None
  /\ launch = None /\ oplock = None /\ pc = None /\ stk = None /\ cur = None /\ tgt = None
  /\ exc = None /\ ops = None
NoRegistry ==
  /\ obj = None /\ changed = None /\ generation = None /\ records = None /\ tombstones = None
  /\ highWater = None /\ minted = None /\ claiming = None /\ callbacks = None /\ faults = None
  /\ rejected = None /\ claims = None /\ harmed = None
NoResume ==
  /\ boot = None /\ pcr15 = None /\ pcr16 = None /\ see = None /\ fd3 = None /\ pid1 = None
  /\ authority = None /\ mishaps = None
NoQuote ==
  /\ tpm = None /\ broker = None /\ bus = None /\ client = None /\ answers = None /\ past = None
  /\ quotes = None /\ events = None
NoChannel ==
  /\ chan = None /\ wire = None /\ sent = None /\ delivered = None /\ now = None /\ replays = None
NoRelease ==
  /\ level = None /\ nonce = None /\ bundle = None /\ signed = None /\ ver = None
  /\ released = None /\ stable = None /\ puts = None
NoWorker ==
  /\ tcb = None /\ cache = None /\ kds = None /\ cc = None /\ work = None /\ incidents = None

Reducers == CHOOSE v \in [Engines -> Versions] : TRUE

Parts == {"chain", "admission", "registry", "resume", "quote", "channel", "release", "worker"}

AllInit ==
  /\ Init /\ part \in Parts
  /\ part # "chain" => eng = [e \in Engines |-> NewEngine(Reducers[e])]
  /\ IF part = "admission" THEN A!Init ELSE NoAdmission
  /\ IF part = "registry" THEN G!Init ELSE NoRegistry
  /\ IF part = "resume" THEN R!Init ELSE NoResume
  /\ IF part = "quote" THEN Q!Init ELSE NoQuote
  /\ IF part = "channel" THEN M!Init ELSE NoChannel
  /\ IF part = "release" THEN K!Init ELSE NoRelease
  /\ IF part = "worker" THEN W!Init ELSE NoWorker

\* Every part stands still but p.
Rest(p) ==
  /\ part = p /\ UNCHANGED part
  /\ IF p = "chain" THEN TRUE ELSE UNCHANGED vars
  /\ IF p = "admission" THEN TRUE ELSE UNCHANGED admission
  /\ IF p = "registry" THEN TRUE ELSE UNCHANGED registry
  /\ IF p = "resume" THEN TRUE ELSE UNCHANGED resume
  /\ IF p = "quote" THEN TRUE ELSE UNCHANGED quote
  /\ IF p = "channel" THEN TRUE ELSE UNCHANGED channel
  /\ IF p = "release" THEN TRUE ELSE UNCHANGED release
  /\ IF p = "worker" THEN TRUE ELSE UNCHANGED worker

AllNext ==
  \/ Rest("chain") /\ Next
  \/ Rest("admission") /\ A!Next
  \/ Rest("registry") /\ G!Next
  \/ Rest("resume") /\ R!Next
  \/ Rest("quote") /\ Q!Next
  \/ Rest("channel") /\ M!Next
  \/ Rest("release") /\ K!Next
  \/ Rest("worker") /\ W!Next

\* The threads of PID 1 are scheduled: a call that can go on does, unless it is in a
\* transport or a callback.
AllSpec == /\ AllInit /\ [][AllNext]_all
           /\ \A t \in Threads : WF_all(Rest("admission") /\ A!Runs(t))

-----------------------------------------------------------------------------
\* A wrapper's cleanup runs once and leaves no session, racing admissions publish one
\* wrapper, and a binding the registry has rejected serves nobody
\* (ServingAuthorityWrapperV3, admit_serving_authority).
AuthorityIsOne ==
  part = "admission" => A!CleanupIsFinal /\ A!OneAuthority /\ A!DeadBindingServesNobody

\* An engine that has failed does not go on serving, where nobody tampers with the
\* binding: the wrapper it published is cleaned up, also by an admission that raced with
\* the failure, unless an operation or a close callback never returns, since the cleanup
\* waits for it; then the wrapper takes no new operation any more
\* (report_controller_terminal_v3, admit_serving_authority, _run_cleanup_v3, advance).
FailureEndsServing ==
  LET published(phase) == part = "admission" /\ \E w \in A!Caps : cap[w].pub /\ wr[w].phase = phase
      hangs == part = "admission" /\ \E t \in Threads : A!Outside(t)
  IN (part = "admission" /\ engine.st = "failed" /\ engine.auth # A!Nil /\ ~writable)
       ~> (published("complete") \/ [](published("cleaning") /\ hangs))

\* A binding rejected once stays rejected, is claimed by one engine ever, and what
\* happens to it does not touch the next one at its address (_IssuedBindingRegistryV3).
BindingsAreTrue ==
  part = "registry" => G!RejectionIsFinal /\ G!ClaimedOnce /\ G!NoCollateralRejection

\* What PID 1 is told of the TPM is true of one boot and one instant: a resumption
\* happens once and from the world stage 1 measured, an answer of the broker holds
\* PCRs that were there together, and the quotes an owner accepts are of one boot
\* (resume_stage2; the broker's handle; appraise_quote_conjunction).
MeasurementsHoldTogether ==
  /\ part = "resume" => R!OneResumption
  /\ part = "quote" => Q!ReadOfOneInstant /\ Q!OneSitting

\* The evidence a worker sends is whole and about the certificate's own firmware and
\* key, and a key is released only to the guest that was appraised
\* (main of ratls_collector.py; appraise_bundle, release_to_guest).
AttestedIsWhatRuns ==
  /\ part = "worker" => W!EvidenceIsWhole
  /\ part = "release" => K!ReleasedToTheAttested

\* Messages arrive whole and in the order they were sent, each once, or the channel
\* closes (CandidateMessageChannel).
DeliveredInOrder == part = "channel" => M!DeliveredInOrder
=============================================================================
