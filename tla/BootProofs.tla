----------------------------- MODULE BootProofs -----------------------------
(***************************************************************************)
(* Proofs about the parts of Boot: the registry of bindings, for any number *)
(* of bindings, addresses, transitions and interventions of the             *)
(* environment, and the parts around it.                                    *)
(*                                                                         *)
(* A behaviour of Boot is one of a single part, so an invariant of the      *)
(* whole is, for each part, an invariant of that part's own steps.          *)
(***************************************************************************)
EXTENDS Boot, TLAPS

(* A step of the whole is one of the part the behaviour is of.             *)
LEMMA StepsOfParts ==
    ASSUME [AllNext]_all
    PROVE  /\ part' = part
           /\ part = "admission" => [A!Next]_admission
           /\ part = "registry" => [G!Next]_registry
           /\ part = "resume" => [R!Next]_resume
           /\ part = "quote" => [Q!Next]_quote
           /\ part = "channel" => [M!Next]_channel
           /\ part = "release" => [K!Next]_release
           /\ part = "worker" => [W!Next]_worker
<1>1. CASE UNCHANGED all
  BY <1>1 DEF all
<1>2. CASE AllNext
  BY <1>2 DEF AllNext, Rest
<1> QED BY <1>1, <1>2

-----------------------------------------------------------------------------
(* The registry.  The addresses of live bindings are apart, so whatever is  *)
(* done at the address of one leaves the entries of every other alone.      *)
(* What remains is an argument about one live binding and the three entries *)
(* at its own address: a rejection leaves a tombstone or finds no           *)
(* high-water record, a claim leaves a high-water record that says so, and  *)
(* none of these goes while the binding lives.                              *)

Table(t) == t = [a \in Addresses |-> t[a]]

Shape ==
    /\ obj \in [Objects -> [st : {"none", "live", "dead"}, addr : Addresses \cup {0}]]
    /\ \A o \in Objects : obj[o].st = "live" => obj[o].addr \in Addresses
    /\ Table(records) /\ Table(tombstones) /\ Table(highWater)
    /\ claims \in [Objects -> Nat]

\* id() answers no address twice at a time.
Apart == \A o, p \in Objects :
    obj[o].st = "live" /\ obj[p].st = "live" /\ obj[o].addr = obj[p].addr => o = p

\* A binding that is not made yet has left no trace.
Unborn == \A o \in Objects : obj[o].st = "none" =>
    /\ claims[o] = 0 /\ o \notin rejected /\ o \notin changed
    /\ \A a \in Addresses : highWater[a].obj # o

\* A rejected binding has its tombstone, or was never registered.
FinalOf(o) == obj[o].st = "live" /\ o \in rejected =>
    tombstones[obj[o].addr].obj = o \/ highWater[obj[o].addr].obj # o

\* The high-water record of a claimed binding says that it is claimed.
SpentOf(o) ==
    /\ claims[o] <= 1
    /\ claims[o] = 1 /\ obj[o].st = "live" =>
          highWater[obj[o].addr].obj = o /\ highWater[obj[o].addr].claimed

\* The entries of a binding nobody touched are the ones it was given last.
UntouchedOf(o) ==
    obj[o].st = "live" /\ o \notin harmed /\ o \notin rejected =>
      /\ records[obj[o].addr] = highWater[obj[o].addr]
      /\ highWater[obj[o].addr].obj = o /\ highWater[obj[o].addr].sealed
      /\ tombstones[obj[o].addr].obj # o /\ o \notin changed

Own(o) == FinalOf(o) /\ SpentOf(o) /\ UntouchedOf(o)

RegistryInv == Shape /\ Apart /\ Unborn /\ \A o \in Objects : Own(o)

-----------------------------------------------------------------------------
(* Steps at the address of one live binding.                               *)

\* Nothing but the entries at the address of o changes in a table.
OnlyAt(o, t, u) == Table(u) /\ \A a \in Addresses : a # obj[o].addr => u[a] = t[a]

Nearby(o) ==
    /\ UNCHANGED <<obj, changed, harmed>>
    /\ OnlyAt(o, records, records') /\ OnlyAt(o, tombstones, tombstones')
    /\ OnlyAt(o, highWater, highWater')
    /\ highWater'[obj[o].addr].obj \in {o, highWater[obj[o].addr].obj}
    /\ rejected \subseteq rejected' /\ rejected' \subseteq rejected \cup {o}
    /\ claims' \in [Objects -> Nat]
    /\ \A p \in Objects : p # o => claims'[p] = claims[p]

(* A step at one binding's address that keeps what is said of that binding *)
(* keeps the invariant: the others have other addresses.                   *)
LEMMA NearbyStep ==
    ASSUME RegistryInv, NEW o \in Objects, obj[o].st = "live", Nearby(o), Own(o)'
    PROVE  RegistryInv'
<1>1. Shape'
  BY DEF RegistryInv, Shape, Nearby, OnlyAt, Table
<1>2. Apart'
  BY DEF RegistryInv, Apart, Nearby
<1>3. Unborn'
  <2> SUFFICES ASSUME NEW p \in Objects, obj[p].st = "none"
               PROVE  /\ claims'[p] = 0 /\ p \notin rejected' /\ p \notin changed'
                      /\ \A a \in Addresses : highWater'[a].obj # p
    BY DEF Unborn, Nearby
  <2>1. p # o
    OBVIOUS
  <2>2. claims'[p] = 0 /\ p \notin rejected' /\ p \notin changed'
    BY <2>1 DEF RegistryInv, Unborn, Nearby
  <2>3. ASSUME NEW a \in Addresses PROVE highWater'[a].obj # p
    <3>1. highWater[a].obj # p
      BY DEF RegistryInv, Unborn
    <3>2. CASE a # obj[o].addr
      BY <3>1, <3>2 DEF Nearby, OnlyAt
    <3>3. CASE a = obj[o].addr
      BY <3>1, <3>3, <2>1 DEF Nearby
    <3> QED BY <3>2, <3>3
  <2> QED BY <2>2, <2>3
<1>4. ASSUME NEW p \in Objects, p # o PROVE Own(p)'
  <2>1. Own(p)
    BY DEF RegistryInv
  <2>2. CASE obj[p].st = "live"
    <3>1. obj[p].addr \in Addresses /\ obj[p].addr # obj[o].addr
      BY <1>4, <2>2 DEF RegistryInv, Shape, Apart
    <3>2. /\ records'[obj[p].addr] = records[obj[p].addr]
          /\ tombstones'[obj[p].addr] = tombstones[obj[p].addr]
          /\ highWater'[obj[p].addr] = highWater[obj[p].addr]
      BY <3>1 DEF Nearby, OnlyAt
    <3>3. obj' = obj /\ changed' = changed /\ harmed' = harmed /\ claims'[p] = claims[p]
          /\ (p \in rejected' <=> p \in rejected)
      BY <1>4 DEF Nearby
    <3> QED BY <2>1, <3>2, <3>3 DEF Own, FinalOf, SpentOf, UntouchedOf
  <2>3. CASE obj[p].st # "live"
    <3>1. obj' = obj /\ claims'[p] = claims[p]
      BY <1>4 DEF Nearby
    <3> QED BY <2>1, <2>3, <3>1 DEF Own, FinalOf, SpentOf, UntouchedOf
  <2> QED BY <2>2, <2>3
<1> QED BY <1>1, <1>2, <1>3, <1>4 DEF RegistryInv

(* What is accepted is the high-water record, and no tombstone shadows it. *)
LEMMA AcceptedIsNewest ==
    ASSUME RegistryInv, NEW o \in Objects, obj[o].st = "live",
           NEW r, G!Sealed(r), G!RefersTo(r, o), G!MatchesHighWater(r, o), ~G!Shadowed(r, o)
    PROVE  /\ r = highWater[obj[o].addr] /\ r.obj = o /\ r.sealed
           /\ tombstones[obj[o].addr].obj # o
<1>1. tombstones[obj[o].addr] # G!Nil => ~(tombstones[obj[o].addr].obj = o)
  BY DEF G!Shadowed, G!TombstoneLive, G!RefersTo, G!Live, G!Addr
<1>2. G!Nil.obj = 0 /\ o # 0
  BY ObjectsAssumption DEF G!Nil
<1>3. tombstones[obj[o].addr].obj # o
  BY <1>1, <1>2
<1>4. r = highWater[obj[o].addr]
  BY DEF G!MatchesHighWater, G!HighWater, G!Addr
<1> QED BY <1>3, <1>4 DEF G!Sealed, G!RefersTo

(* An entry the registry turns down is left with a tombstone, unless the   *)
(* binding was never registered.                                           *)
LEMMA InvalidateEntombs ==
    ASSUME RegistryInv, NEW o \in Objects, obj[o].st = "live", UNCHANGED obj, G!Invalidate(o)
    PROVE  /\ OnlyAt(o, records, records') /\ OnlyAt(o, tombstones, tombstones')
           /\ highWater' = highWater
           /\ tombstones'[obj[o].addr].obj = o \/ highWater[obj[o].addr].obj # o
<1> DEFINE a == obj[o].addr
<1>0. /\ a \in Addresses /\ Table(records) /\ Table(tombstones) /\ o # 0 /\ G!Nil.obj = 0
      /\ G!Live(o)
  BY ObjectsAssumption DEF RegistryInv, Shape, G!Nil, G!Live
<1>1. ASSUME NEW e, G!Entomb(o, e)
      PROVE  OnlyAt(o, tombstones, tombstones') /\ tombstones'[a].obj = o
  <2>1. PICK g : tombstones' = [tombstones EXCEPT ![a] = [obj |-> o, gen |-> g]]
    BY <1>1 DEF G!Entomb, G!Addr
  <2> QED BY <2>1, <1>0 DEF OnlyAt, Table
<1>2. G!TombstoneLive(o) => tombstones[a].obj = o
  BY DEF G!TombstoneLive, G!RefersTo, G!Addr
<1>3. G!HighWater(o) = G!Nil => highWater[a].obj # o
  BY <1>0 DEF G!HighWater, G!RefersTo, G!Addr
<1>4. CASE G!ForUse(o) = G!Nil
  <2>1. records' = records /\ highWater' = highWater
    BY <1>4 DEF G!Invalidate
  <2>2. OnlyAt(o, records, records')
    BY <2>1, <1>0 DEF OnlyAt
  <2>3. CASE G!HighWater(o) # G!Nil /\ ~G!TombstoneLive(o)
    BY <1>1, <1>4, <2>1, <2>2, <2>3 DEF G!Invalidate
  <2>4. CASE ~(G!HighWater(o) # G!Nil /\ ~G!TombstoneLive(o))
    <3>1. tombstones' = tombstones
      BY <1>4, <2>4 DEF G!Invalidate
    <3> QED BY <1>0, <1>2, <1>3, <2>1, <2>2, <2>4, <3>1 DEF OnlyAt
  <2> QED BY <2>3, <2>4
<1>5. CASE G!ForUse(o) # G!Nil
  <2>1. records' = [records EXCEPT ![a] = G!Nil] /\ highWater' = highWater
    BY <1>5 DEF G!Invalidate, G!Addr
  <2>2. OnlyAt(o, records, records')
    BY <2>1, <1>0 DEF OnlyAt, Table
  <2>3. \/ tombstones' = tombstones /\ G!TombstoneLive(o)
        \/ \E e : G!Entomb(o, e)
    BY <1>5 DEF G!Invalidate
  <2>4. CASE tombstones' = tombstones /\ G!TombstoneLive(o)
    BY <1>0, <1>2, <2>1, <2>2, <2>4 DEF OnlyAt
  <2>5. CASE \E e : G!Entomb(o, e)
    BY <1>1, <2>1, <2>2, <2>5
  <2> QED BY <2>3, <2>4, <2>5
<1> QED BY <1>4, <1>5

-----------------------------------------------------------------------------
(* One lemma per action.                                                   *)

(* A rejection, by a lookup or by a claim in its second critical section.  *)
LEMMA RejectInv ==
    ASSUME RegistryInv, NEW o \in Objects, obj[o].st = "live", G!Invalidate(o),
           rejected' = rejected \cup {o}, UNCHANGED <<G!world, claims>>
    PROVE  RegistryInv'
<1>1. obj' = obj /\ changed' = changed /\ harmed' = harmed /\ claims' = claims
  BY DEF G!world
<1>2. /\ OnlyAt(o, records, records') /\ OnlyAt(o, tombstones, tombstones')
      /\ highWater' = highWater
      /\ tombstones'[obj[o].addr].obj = o \/ highWater[obj[o].addr].obj # o
  BY <1>1, InvalidateEntombs
<1>3. Nearby(o)
  BY <1>1, <1>2 DEF Nearby, OnlyAt, RegistryInv, Shape
<1>4. Own(o)'
  <2>1. FinalOf(o)'
    BY <1>1, <1>2 DEF FinalOf
  <2>2. SpentOf(o)'
    BY <1>1, <1>2 DEF SpentOf, RegistryInv, Own
  <2>3. UntouchedOf(o)'
    BY <1>1 DEF UntouchedOf
  <2> QED BY <2>1, <2>2, <2>3 DEF Own
<1> QED BY <1>3, <1>4, NearbyStep

(* An answer: the newest record goes (back) into the table.                *)
LEMMA AnswerInv ==
    ASSUME RegistryInv, NEW o \in Objects, obj[o].st = "live",
           NEW r, r = highWater[obj[o].addr], r.obj = o,
           records' = [records EXCEPT ![G!Addr(o)] = r],
           UNCHANGED <<G!world, tombstones, highWater, rejected, claims>>
    PROVE  RegistryInv'
<1>1. /\ obj' = obj /\ changed' = changed /\ harmed' = harmed /\ claims' = claims
      /\ rejected' = rejected /\ tombstones' = tombstones /\ highWater' = highWater
  BY DEF G!world
<1>2. obj[o].addr \in Addresses /\ Table(records) /\ Table(tombstones) /\ Table(highWater)
      /\ claims \in [Objects -> Nat]
  BY DEF RegistryInv, Shape
<1>3. OnlyAt(o, records, records') /\ records'[obj[o].addr] = r
  BY <1>2 DEF OnlyAt, Table, G!Addr
<1>4. Nearby(o)
  BY <1>1, <1>2, <1>3 DEF Nearby, OnlyAt
<1>5. Own(o)
  BY DEF RegistryInv
<1>6. Own(o)'
  <2>1. FinalOf(o)' /\ SpentOf(o)'
    BY <1>1, <1>5 DEF Own, FinalOf, SpentOf
  <2>2. UntouchedOf(o)'
    BY <1>1, <1>3, <1>5 DEF Own, UntouchedOf
  <2> QED BY <2>1, <2>2 DEF Own
<1> QED BY <1>4, <1>6, NearbyStep

(* A transition from the newest record of a binding, to one that is claimed *)
(* if that was, and is a first claim if it counts as one.                   *)
LEMMA TransitionInv ==
    ASSUME RegistryInv, NEW o \in Objects, obj[o].st = "live",
           NEW r, r = highWater[obj[o].addr], r.obj = o,
           tombstones[obj[o].addr].obj # o,
           NEW claimed, r.claimed => claimed, G!Transition(o, r, claimed),
           \/ claims' = claims
           \/ ~r.claimed /\ claimed /\ claims' = [claims EXCEPT ![o] = @ + 1],
           UNCHANGED <<G!world, tombstones, rejected>>
    PROVE  RegistryInv'
<1>1. /\ obj' = obj /\ changed' = changed /\ harmed' = harmed
      /\ rejected' = rejected /\ tombstones' = tombstones
  BY DEF G!world
<1>2. obj[o].addr \in Addresses /\ Table(records) /\ Table(tombstones) /\ Table(highWater)
      /\ claims \in [Objects -> Nat]
  BY DEF RegistryInv, Shape
<1>3. PICK n : /\ n = G!Record(o, r.gen, r.cnt + 1, claimed)
               /\ records' = [records EXCEPT ![obj[o].addr] = n]
               /\ highWater' = [highWater EXCEPT ![obj[o].addr] = n]
  BY DEF G!Transition, G!Addr
<1>4. n.obj = o /\ n.claimed = claimed /\ n.sealed = TRUE
  BY <1>3 DEF G!Record
<1>5. /\ OnlyAt(o, records, records') /\ records'[obj[o].addr] = n
      /\ OnlyAt(o, highWater, highWater') /\ highWater'[obj[o].addr] = n
  BY <1>2, <1>3 DEF OnlyAt, Table
<1>6. Own(o)
  BY DEF RegistryInv
<1>7. claims' \in [Objects -> Nat] /\ \A p \in Objects : p # o => claims'[p] = claims[p]
  BY <1>2
<1>8. Nearby(o)
  BY <1>1, <1>2, <1>4, <1>5, <1>7 DEF Nearby, OnlyAt
<1>9. Own(o)'
  <2>1. FinalOf(o)'
    BY <1>1, <1>6 DEF Own, FinalOf
  <2>2. SpentOf(o)'
    <3>1. CASE claims' = claims
      BY <1>1, <1>4, <1>5, <1>6, <3>1 DEF Own, SpentOf
    <3>2. CASE ~r.claimed /\ claimed /\ claims' = [claims EXCEPT ![o] = @ + 1]
      <4>1. claims[o] = 0
        BY <1>2, <1>6, <3>2 DEF Own, SpentOf
      <4>2. claims'[o] = 1
        BY <1>2, <3>2, <4>1
      <4>3. highWater'[obj[o].addr].obj = o /\ highWater'[obj[o].addr].claimed
        BY <1>4, <1>5, <3>2
      <4> QED BY <1>1, <4>2, <4>3 DEF SpentOf
    <3> QED BY <3>1, <3>2
  <2>3. UntouchedOf(o)'
    BY <1>1, <1>4, <1>5, <1>6 DEF Own, UntouchedOf
  <2> QED BY <2>1, <2>2, <2>3 DEF Own
<1> QED BY <1>8, <1>9, NearbyStep

LEMMA LookupInv ==
    ASSUME RegistryInv, NEW o \in Objects, G!Lookup(o) PROVE RegistryInv'
<1>0. obj[o].st = "live"
  BY DEF G!Lookup, G!Live
<1>1. CASE G!Accepts(o)
  <2>1. PICK r : r = G!ForUse(o)
    OBVIOUS
  <2>2. G!Sealed(r) /\ G!RefersTo(r, o) /\ G!MatchesHighWater(r, o) /\ ~G!Shadowed(r, o)
    BY <1>1, <2>1 DEF G!Accepts
  <2>3. r = highWater[obj[o].addr] /\ r.obj = o
    BY <1>0, <2>2, AcceptedIsNewest
  <2>4. /\ records' = [records EXCEPT ![G!Addr(o)] = r]
        /\ UNCHANGED <<G!world, tombstones, highWater, rejected, claims>>
    BY <1>1, <2>1 DEF G!Lookup
  <2> QED BY <1>0, <2>3, <2>4, AnswerInv
<1>2. CASE ~G!Accepts(o)
  BY <1>0, <1>2, RejectInv DEF G!Lookup
<1> QED BY <1>1, <1>2

LEMMA BeginClaimInv ==
    ASSUME RegistryInv, NEW o \in Objects, G!BeginClaim(o) PROVE RegistryInv'
<1>0. obj[o].st = "live" /\ G!Accepts(o)
  BY DEF G!BeginClaim, G!Live
<1>1. PICK r : r = G!ForUse(o)
  OBVIOUS
<1>2. G!Sealed(r) /\ G!RefersTo(r, o) /\ G!MatchesHighWater(r, o) /\ ~G!Shadowed(r, o)
  BY <1>0, <1>1 DEF G!Accepts
<1>3. r = highWater[obj[o].addr] /\ r.obj = o
  BY <1>0, <1>2, AcceptedIsNewest
<1>4. /\ records' = [records EXCEPT ![G!Addr(o)] = r]
      /\ UNCHANGED <<G!world, tombstones, highWater, rejected, claims>>
  BY <1>1 DEF G!BeginClaim
<1> QED BY <1>0, <1>3, <1>4, AnswerInv

LEMMA EndClaimInv ==
    ASSUME RegistryInv, NEW c, G!EndClaim(c) PROVE RegistryInv'
<1>1. PICK o \in Objects : o = c.obj /\ obj[o].st = "live"
  BY DEF G!EndClaim, G!Live
<1>2. PICK r : r = G!ForUse(o)
  OBVIOUS
<1>3. CASE ~G!GenerationMatches(r, o, c.gen)
  <2>1. G!Invalidate(o) /\ rejected' = rejected \cup {o} /\ UNCHANGED <<G!world, claims>>
    BY <1>1, <1>2, <1>3 DEF G!EndClaim
  <2> QED BY <1>1, <2>1, RejectInv
<1>4. CASE G!GenerationMatches(r, o, c.gen)
  <2>1. G!Sealed(r) /\ G!RefersTo(r, o) /\ G!MatchesHighWater(r, o) /\ ~G!Shadowed(r, o)
    BY <1>4 DEF G!GenerationMatches
  <2>2. r = highWater[obj[o].addr] /\ r.obj = o /\ tombstones[obj[o].addr].obj # o
    BY <1>1, <2>1, AcceptedIsNewest
  <2>3. CASE ~G!Claimable(r)
    <3>1. /\ records' = [records EXCEPT ![G!Addr(o)] = r]
          /\ UNCHANGED <<G!world, tombstones, highWater, rejected, claims>>
      BY <1>1, <1>2, <1>4, <2>3 DEF G!EndClaim
    <3> QED BY <1>1, <2>2, <3>1, AnswerInv
  <2>4. CASE G!Claimable(r)
    <3>1. G!Transition(o, r, TRUE) /\ claims' = [claims EXCEPT ![o] = @ + 1]
          /\ UNCHANGED <<G!world, tombstones, rejected>>
      BY <1>1, <1>2, <1>4, <2>4 DEF G!EndClaim
    <3>2. ~r.claimed
      BY <2>4 DEF G!Claimable
    <3> QED BY <1>1, <2>2, <3>1, <3>2, TransitionInv
  <2> QED BY <2>3, <2>4
<1> QED BY <1>3, <1>4

LEMMA AdmissionInv ==
    ASSUME RegistryInv, NEW o \in Objects, G!Admission(o) PROVE RegistryInv'
<1>0. obj[o].st = "live" /\ G!Accepts(o)
  BY DEF G!Admission, G!Live
<1>1. PICK r : r = G!ForUse(o)
  OBVIOUS
<1>2. G!Sealed(r) /\ G!RefersTo(r, o) /\ G!MatchesHighWater(r, o) /\ ~G!Shadowed(r, o)
  BY <1>0, <1>1 DEF G!Accepts
<1>3. r = highWater[obj[o].addr] /\ r.obj = o /\ tombstones[obj[o].addr].obj # o
  BY <1>0, <1>2, AcceptedIsNewest
<1>4. G!Transition(o, r, r.claimed) /\ UNCHANGED <<G!world, tombstones, rejected, claims>>
  BY <1>1 DEF G!Admission
<1> QED BY <1>0, <1>3, <1>4, TransitionInv

\* A binding is made at an address no live one has; the invariant holds of it
\* from the start, whether it is registered or turned down.
LEMMA BindInv ==
    ASSUME RegistryInv, NEW o \in Objects, NEW a \in Addresses, G!Bind(o, a) PROVE RegistryInv'
<1>1. /\ obj[o].st = "none" /\ \A p \in Objects : obj[p].st = "live" => obj[p].addr # a
      /\ obj' = [obj EXCEPT ![o] = [st |-> "live", addr |-> a]]
      /\ changed' = changed /\ claims' = claims /\ harmed' = harmed
  BY DEF G!Bind, G!Addr
<1>2. /\ Shape /\ Apart /\ Unborn /\ \A p \in Objects : Own(p)
      /\ claims[o] = 0 /\ o \notin rejected /\ o \notin changed
      /\ \A b \in Addresses : highWater[b].obj # o
  BY <1>1 DEF RegistryInv, Unborn
<1>3. /\ obj'[o].st = "live" /\ obj'[o].addr = a
      /\ \A p \in Objects : p # o => obj'[p] = obj[p]
      /\ obj' \in [Objects -> [st : {"none", "live", "dead"}, addr : Addresses \cup {0}]]
  BY <1>1, <1>2 DEF Shape
<1>4. /\ \/ UNCHANGED <<records, tombstones, highWater>> /\ rejected' = rejected \cup {o}
         \/ \E r : /\ r.obj = o /\ r.sealed
                   /\ records' = [records EXCEPT ![a] = r]
                   /\ highWater' = [highWater EXCEPT ![a] = r]
                   /\ tombstones' = [tombstones EXCEPT ![a] = G!Nil]
                   /\ rejected' = rejected
  <2>1. PICK r : r = G!Record(o, generation + 1, 0, FALSE)
    OBVIOUS
  <2>2. r.obj = o /\ r.sealed
    BY <2>1 DEF G!Record
  <2> QED BY <2>1, <2>2 DEF G!Bind, G!table
<1>5. /\ Table(records)' /\ Table(tombstones)' /\ Table(highWater)'
      /\ \A b \in Addresses : b # a => /\ records'[b] = records[b]
                                       /\ tombstones'[b] = tombstones[b]
                                       /\ highWater'[b] = highWater[b]
      /\ highWater'[a].obj \in {o, highWater[a].obj}
      /\ rejected' \in {rejected, rejected \cup {o}}
  <2>1. Table(records) /\ Table(tombstones) /\ Table(highWater)
    BY <1>2 DEF Shape
  <2> QED BY <1>4, <2>1 DEF Table
<1>6. Shape'
  BY <1>1, <1>2, <1>3, <1>5 DEF Shape
<1>7. Apart'
  BY <1>1, <1>2, <1>3 DEF Apart
<1>8. Unborn'
  BY <1>1, <1>2, <1>3, <1>5 DEF Unborn
<1>9. Own(o)'
  <2>1. SpentOf(o)'
    BY <1>1, <1>2 DEF SpentOf
  <2>2. CASE UNCHANGED <<records, tombstones, highWater>> /\ rejected' = rejected \cup {o}
    BY <1>2, <1>3, <2>1, <2>2 DEF Own, FinalOf, UntouchedOf
  <2>3. ASSUME NEW r, r.obj = o, r.sealed, records' = [records EXCEPT ![a] = r],
               highWater' = [highWater EXCEPT ![a] = r],
               tombstones' = [tombstones EXCEPT ![a] = G!Nil], rejected' = rejected
        PROVE  Own(o)'
    <3>1. Table(records) /\ Table(tombstones) /\ Table(highWater)
      BY <1>2 DEF Shape
    <3>2. records'[a] = r /\ highWater'[a] = r /\ tombstones'[a] = G!Nil
      BY <2>3, <3>1 DEF Table
    <3>3. G!Nil.obj # o
      BY ObjectsAssumption DEF G!Nil
    <3> QED BY <1>1, <1>2, <1>3, <2>1, <2>3, <3>2, <3>3 DEF Own, FinalOf, UntouchedOf
  <2> QED BY <1>4, <2>2, <2>3
<1>10. ASSUME NEW p \in Objects, p # o PROVE Own(p)'
  <2>1. Own(p) /\ obj'[p] = obj[p] /\ (p \in rejected' <=> p \in rejected)
    BY <1>2, <1>3, <1>5, <1>10
  <2>2. CASE obj[p].st = "live"
    <3>1. obj[p].addr \in Addresses /\ obj[p].addr # a
      BY <1>1, <1>2, <2>2 DEF Shape
    <3> QED BY <1>1, <1>5, <2>1, <3>1 DEF Own, FinalOf, SpentOf, UntouchedOf
  <2>3. CASE obj[p].st # "live"
    BY <1>1, <2>1, <2>3 DEF Own, FinalOf, SpentOf, UntouchedOf
  <2> QED BY <2>2, <2>3
<1> QED BY <1>6, <1>7, <1>8, <1>9, <1>10 DEF RegistryInv

LEMMA CollectInv ==
    ASSUME RegistryInv, NEW o \in Objects, G!Collect(o) PROVE RegistryInv'
<1>1. /\ obj[o].st = "live" /\ obj' = [obj EXCEPT ![o].st = "dead"]
      /\ UNCHANGED <<changed, records, tombstones, highWater, rejected, claims, harmed>>
  BY DEF G!Collect, G!Live, G!table
<1>2. /\ obj'[o].st = "dead" /\ \A p \in Objects : p # o => obj'[p] = obj[p]
      /\ obj' \in [Objects -> [st : {"none", "live", "dead"}, addr : Addresses \cup {0}]]
  BY <1>1 DEF RegistryInv, Shape
<1>3. Shape'
  BY <1>1, <1>2 DEF RegistryInv, Shape, Table
<1>4. Apart'
  BY <1>2 DEF RegistryInv, Apart
<1>5. Unborn'
  BY <1>1, <1>2 DEF RegistryInv, Unborn
<1>6. ASSUME NEW p \in Objects PROVE Own(p)'
  <2>1. Own(p)
    BY DEF RegistryInv
  <2> QED BY <1>1, <1>2, <2>1 DEF Own, FinalOf, SpentOf, UntouchedOf
<1> QED BY <1>3, <1>4, <1>5, <1>6 DEF RegistryInv

(* A callback that runs late takes away entries of the dead only.          *)
LEMMA RunCallbackInv ==
    ASSUME RegistryInv, NEW c, G!RunCallback(c) PROVE RegistryInv'
<1> DEFINE a == G!Addr(c.obj)
           Thins(t, u) == /\ Table(u)
                          /\ \A b \in Addresses : \/ u[b] = t[b]
                                                  \/ u[b] = G!Nil /\ ~G!Live(t[b].obj)
<1>1. obj' = obj /\ UNCHANGED <<changed, rejected, claims, harmed>>
  BY DEF G!RunCallback
<1>2. ASSUME NEW t, NEW u, Table(t), u = IF G!Retires(t[a], c) THEN [t EXCEPT ![a] = G!Nil] ELSE t
      PROVE  Thins(t, u)
  BY <1>2 DEF G!Retires, G!Dead, Table
<1>3. Thins(records, records') /\ Thins(tombstones, tombstones') /\ Thins(highWater, highWater')
  <2>1. Table(records) /\ Table(tombstones) /\ Table(highWater)
    BY DEF RegistryInv, Shape
  <2> HIDE DEF Thins
  <2> QED BY <1>2, <2>1 DEF G!RunCallback
<1>4. Shape' /\ Apart'
  BY <1>1, <1>3 DEF RegistryInv, Shape, Apart
<1>5. Unborn'
  <2>1. \A o \in Objects : G!Nil.obj # o
    BY ObjectsAssumption DEF G!Nil
  <2> QED BY <1>1, <1>3, <2>1 DEF RegistryInv, Unborn
<1>6. ASSUME NEW p \in Objects PROVE Own(p)'
  <2>1. Own(p)
    BY DEF RegistryInv
  <2>2. CASE obj[p].st = "live"
    <3>1. PICK b \in Addresses : b = obj[p].addr
      BY <2>2 DEF RegistryInv, Shape
    <3>2. G!Nil.obj # p /\ G!Live(p)
      BY <2>2, ObjectsAssumption DEF G!Nil, G!Live
    <3>3. highWater[b].obj = p => highWater'[b] = highWater[b]
      BY <1>3, <3>2
    <3>4. highWater[b].obj # p => highWater'[b].obj # p
      BY <1>3, <3>2
    <3>5. tombstones[b].obj = p => tombstones'[b].obj = p
      BY <1>3, <3>2
    <3>6. tombstones[b].obj # p => tombstones'[b].obj # p
      BY <1>3, <3>2
    <3>7. records[b].obj = p => records'[b] = records[b]
      BY <1>3, <3>2
    <3>8. FinalOf(p)'
      BY <1>1, <2>1, <3>1, <3>4, <3>5 DEF Own, FinalOf
    <3>9. SpentOf(p)'
      BY <1>1, <2>1, <3>1, <3>3 DEF Own, SpentOf
    <3>10. UntouchedOf(p)'
      BY <1>1, <2>1, <3>1, <3>3, <3>6, <3>7 DEF Own, UntouchedOf
    <3> QED BY <3>8, <3>9, <3>10 DEF Own
  <2>3. CASE obj[p].st # "live"
    BY <1>1, <2>1, <2>3 DEF Own, FinalOf, SpentOf, UntouchedOf
  <2> QED BY <2>2, <2>3
<1> QED BY <1>4, <1>5, <1>6 DEF RegistryInv

LEMMA ChangeBytesInv ==
    ASSUME RegistryInv, NEW o \in Objects, G!ChangeBytes(o) PROVE RegistryInv'
<1>1. /\ obj[o].st = "live" /\ harmed' = harmed \cup {o}
      /\ UNCHANGED <<obj, records, tombstones, highWater, rejected, claims>>
      /\ \A p \in Objects : p # o => (p \in changed' <=> p \in changed)
  BY DEF G!ChangeBytes, G!Fault, G!Live
<1>2. Shape' /\ Apart'
  BY <1>1 DEF RegistryInv, Shape, Apart, Table
<1>3. Unborn'
  BY <1>1 DEF RegistryInv, Unborn
<1>4. ASSUME NEW p \in Objects PROVE Own(p)'
  <2>1. Own(p)
    BY DEF RegistryInv
  <2> QED BY <1>1, <2>1 DEF Own, FinalOf, SpentOf, UntouchedOf
<1> QED BY <1>2, <1>3, <1>4 DEF RegistryInv

LEMMA ReplaceRecordInv ==
    ASSUME RegistryInv, NEW a \in Addresses, G!ReplaceRecord(a) PROVE RegistryInv'
<1>1. /\ harmed' = harmed \cup {o \in Objects : obj[o].st = "live" /\ obj[o].addr = a}
      /\ UNCHANGED <<obj, changed, tombstones, highWater, rejected, claims>>
  BY DEF G!ReplaceRecord, G!Fault, G!At
<1>2. PICK r : records' = [records EXCEPT ![a] = r]
  BY DEF G!ReplaceRecord
<1>3. Table(records)' /\ \A b \in Addresses : b # a => records'[b] = records[b]
  BY <1>2 DEF RegistryInv, Shape, Table
<1>4. Shape' /\ Apart'
  BY <1>1, <1>3 DEF RegistryInv, Shape, Apart, Table
<1>5. Unborn'
  BY <1>1 DEF RegistryInv, Unborn
<1>6. ASSUME NEW p \in Objects PROVE Own(p)'
  <2>1. Own(p)
    BY DEF RegistryInv
  <2>2. FinalOf(p)' /\ SpentOf(p)'
    BY <1>1, <2>1 DEF Own, FinalOf, SpentOf
  <2>3. UntouchedOf(p)'
    <3>1. obj[p].st = "live" => obj[p].addr \in Addresses
      BY DEF RegistryInv, Shape
    <3> QED BY <1>1, <1>3, <2>1, <3>1 DEF Own, UntouchedOf
  <2> QED BY <2>2, <2>3 DEF Own
<1> QED BY <1>4, <1>5, <1>6 DEF RegistryInv

LEMMA RegistryNext ==
    ASSUME RegistryInv, [G!Next]_registry PROVE RegistryInv'
<1>1. CASE G!Next
  <2>1. ASSUME NEW o \in Objects,
               (\E a \in Addresses : G!Bind(o, a)) \/ G!Lookup(o) \/ G!BeginClaim(o)
                 \/ G!Admission(o) \/ G!Collect(o) \/ G!ChangeBytes(o)
        PROVE  RegistryInv'
    BY <2>1, BindInv, LookupInv, BeginClaimInv, AdmissionInv, CollectInv, ChangeBytesInv
  <2>2. ASSUME NEW c, G!EndClaim(c) \/ G!RunCallback(c) PROVE RegistryInv'
    BY <2>2, EndClaimInv, RunCallbackInv
  <2>3. ASSUME NEW a \in Addresses, G!ReplaceRecord(a) PROVE RegistryInv'
    BY <2>3, ReplaceRecordInv
  <2> QED BY <1>1, <2>1, <2>2, <2>3 DEF G!Next
<1>2. CASE UNCHANGED registry
  <2>1. UNCHANGED <<obj, changed, records, tombstones, highWater, rejected, claims, harmed>>
    BY <1>2 DEF registry
  <2> QED BY <2>1 DEF RegistryInv, Shape, Table, Apart, Unborn, Own, FinalOf, SpentOf, UntouchedOf
<1> QED BY <1>1, <1>2

LEMMA RegistryInit == G!Init => RegistryInv
<1> SUFFICES ASSUME G!Init PROVE RegistryInv
  OBVIOUS
<1>1. /\ \A o \in Objects : obj[o].st = "none" /\ claims[o] = 0 /\ o # 0
      /\ \A a \in Addresses : highWater[a].obj = 0
  BY ObjectsAssumption DEF G!Init, G!Nil
<1>2. Shape
  BY DEF G!Init, Shape, Table
<1>3. Apart /\ Unborn
  BY <1>1 DEF G!Init, Apart, Unborn
<1>4. ASSUME NEW o \in Objects PROVE Own(o)
  BY <1>1 DEF Own, FinalOf, SpentOf, UntouchedOf
<1> QED BY <1>2, <1>3, <1>4 DEF RegistryInv

(* A binding the registry has turned down is not accepted again while it    *)
(* lives: neither the replay of an older record, nor the bytes put back,    *)
(* nor a late callback undoes it (boot_v3.py, 877-998).                     *)
LEMMA RejectionStands == RegistryInv => G!RejectionIsFinal
<1> SUFFICES ASSUME RegistryInv, NEW o \in rejected, G!Live(o), G!Accepts(o) PROVE FALSE
  BY DEF G!RejectionIsFinal
<1>1. o \in Objects /\ obj[o].st = "live"
  BY DEF G!Live
<1>2. PICK r : r = G!ForUse(o)
  OBVIOUS
<1>3. G!Sealed(r) /\ G!RefersTo(r, o) /\ G!MatchesHighWater(r, o) /\ ~G!Shadowed(r, o)
  BY <1>2 DEF G!Accepts
<1>4. highWater[obj[o].addr].obj = o /\ tombstones[obj[o].addr].obj # o
  BY <1>1, <1>3, AcceptedIsNewest
<1> QED BY <1>1, <1>4 DEF RegistryInv, Own, FinalOf

(* One engine claims a binding, ever, although a claim looks the record up  *)
(* in one critical section and takes it in another (boot_v3.py, 1292-1322). *)
LEMMA OneClaim == RegistryInv => G!ClaimedOnce
BY DEF RegistryInv, Own, SpentOf, G!ClaimedOnce

(* A binding nobody tampered with is accepted while it lives, whatever      *)
(* became of the one that had its address before and however late that      *)
(* one's callback runs (boot_v3.py, 827-861).                               *)
LEMMA NeighboursAreSafe == RegistryInv => G!NoCollateralRejection
<1> SUFFICES ASSUME RegistryInv, NEW o \in Objects, G!Live(o), o \notin harmed, o \notin rejected
             PROVE  G!Accepts(o)
  BY DEF G!NoCollateralRejection
<1>1. PICK r : r = highWater[obj[o].addr]
  OBVIOUS
<1>2. /\ records[obj[o].addr] = r /\ r.obj = o /\ r.sealed
      /\ tombstones[obj[o].addr].obj # o /\ o \notin changed
  BY <1>1 DEF RegistryInv, Own, UntouchedOf, G!Live
<1>3. r # G!Nil
  BY <1>2, ObjectsAssumption DEF G!Nil
<1>4. G!HighWater(o) = r /\ G!RefersTo(r, o) /\ G!Sealed(r)
  BY <1>1, <1>2, <1>3 DEF G!HighWater, G!RefersTo, G!Addr, G!Sealed
<1>5. G!ForUse(o) = r
  BY <1>2, <1>4 DEF G!ForUse, G!Addr
<1>6. ~G!Shadowed(r, o)
  BY <1>2 DEF G!Shadowed, G!TombstoneLive, G!RefersTo, G!Addr
<1> QED BY <1>2, <1>3, <1>4, <1>5, <1>6 DEF G!Accepts, G!MatchesHighWater, G!FingerprintFits

\* A behaviour of the registry keeps its invariant.
RegistryHolds == part = "registry" => RegistryInv

(* A binding the registry has turned down is not accepted again while it    *)
(* lives, one engine claims a binding ever, and a binding nobody touched is *)
(* accepted whatever became of its neighbours: for every set of bindings    *)
(* and addresses and any number of faults.                                  *)
THEOREM BindingsHold == AllSpec => []BindingsAreTrue
<1>1. AllInit => RegistryHolds
  BY RegistryInit DEF AllInit, RegistryHolds
<1>2. RegistryHolds /\ [AllNext]_all => RegistryHolds'
  BY StepsOfParts, RegistryNext DEF RegistryHolds
<1>3. RegistryHolds => BindingsAreTrue
  BY RejectionStands, OneClaim, NeighboursAreSafe DEF RegistryHolds, BindingsAreTrue
<1> QED BY <1>1, <1>2, <1>3, PTL DEF AllSpec
-----------------------------------------------------------------------------
(* The evidence worker.  Each stage of a request has what the stages before *)
(* it have fixed; what another request, the cache or the environment does   *)
(* in between cannot take it away.                                          *)

Of(op) == work.ask.op = op

WorkerInv ==
    /\ work = [pc |-> work.pc, ask |-> work.ask, gpu |-> work.gpu, qualify |-> work.qualify,
               level |-> work.level, vcek |-> work.vcek, quote |-> work.quote,
               fetched |-> work.fetched, sawCC |-> work.sawCC]
    /\ work.fetched \in {0, 1}
    /\ work.pc \in {"mode", "gpu", "report", "cache", "fetch"} => work.fetched = 0
    /\ work.pc \in {"mode", "gpu"} => Of("certificate") \/ Of("inventory")
    /\ work.pc \in {"report", "cache", "fetch", "store", "stored"} => Of("certificate")
    /\ work.pc \in {"gpu", "report", "cache", "fetch", "store", "stored"} => work.sawCC
    /\ work.pc \in {"report", "cache", "fetch", "store", "stored"} =>
          work.gpu = [nonce |-> work.ask.nonce]
    /\ work.pc \in {"cache", "fetch", "store", "stored"} =>
          work.qualify = W!QualifyingData(work.ask, work.gpu)
    /\ work.pc \in {"store", "stored"} => work.vcek = work.level
    /\ work.pc \in {"quote", "done"} /\ Of("certificate") =>
          /\ work.sawCC /\ work.vcek = work.level
          /\ work.gpu = [nonce |-> work.ask.nonce]
          /\ work.qualify = W!QualifyingData(work.ask, work.gpu)
    /\ work.pc \in {"quote", "done"} /\ Of("exporter") => work.qualify = <<work.ask.spki>>
    /\ work.pc = "done" /\ (Of("certificate") \/ Of("exporter")) => work.quote = work.qualify

LEMMA WorkerNext ==
    ASSUME WorkerInv, [W!Next]_worker PROVE WorkerInv'
<1>1. ASSUME NEW a \in Asks, W!Serve(a) PROVE WorkerInv'
  <2> DEFINE p == IF ~W!Accepts(a) THEN "failed" ELSE IF a.op = "exporter" THEN "quote" ELSE "mode"
             q == IF a.op = "exporter" THEN <<a.spki>> ELSE None
  <2>1. work' = [pc |-> p, ask |-> a, gpu |-> None, qualify |-> q, level |-> 0,
                 vcek |-> None, quote |-> None, fetched |-> 0, sawCC |-> FALSE]
    BY <1>1 DEF W!Serve, W!NoWork
  <2>2. \/ p = "failed"
        \/ p = "quote" /\ a.op = "exporter" /\ q = <<a.spki>>
        \/ p = "mode" /\ a.op \in {"certificate", "inventory"}
    BY DEF W!Accepts
  <2> HIDE DEF p, q
  <2>3. /\ work'.pc = p /\ work'.ask = a /\ work'.qualify = q /\ work'.fetched = 0
    BY <2>1
  <2> QED BY <2>1, <2>2, <2>3 DEF WorkerInv, Of
<1>2. CASE W!RequireProduction
  BY <1>2 DEF W!RequireProduction, WorkerInv, Of
<1>3. CASE W!GpuTlv
  <2>1. CASE work.ask.op = "inventory"
    BY <1>3, <2>1 DEF W!GpuTlv, W!Goto, WorkerInv, Of
  <2>2. CASE work.ask.op # "inventory"
    <3>1. work' = [work EXCEPT !.pc = "report", !.gpu = [nonce |-> work.ask.nonce]]
      BY <1>3, <2>2 DEF W!GpuTlv
    <3>2. work.pc = "gpu" /\ work.fetched = 0 /\ Of("certificate") /\ work.sawCC
      BY <1>3, <2>2 DEF W!GpuTlv, WorkerInv, Of
    <3>3. /\ work' = [pc |-> "report", ask |-> work.ask, gpu |-> [nonce |-> work.ask.nonce],
                      qualify |-> work.qualify, level |-> work.level, vcek |-> work.vcek,
                      quote |-> work.quote, fetched |-> work.fetched, sawCC |-> work.sawCC]
      BY <3>1 DEF WorkerInv
    <3> QED BY <3>2, <3>3 DEF WorkerInv, Of
  <2> QED BY <2>1, <2>2
<1>4. CASE W!ReadReport
  BY <1>4 DEF W!ReadReport, WorkerInv, Of
<1>5. CASE W!TryCache
  BY <1>5 DEF W!TryCache, W!Verifies, WorkerInv, Of
<1>6. CASE W!FetchVcek
  <2>1. /\ work'.pc \in {"store", "failed"} /\ work'.fetched = work.fetched + 1
        /\ work'.ask = work.ask /\ work'.gpu = work.gpu /\ work'.qualify = work.qualify
        /\ work'.sawCC = work.sawCC /\ work'.level = work.level
        /\ work'.pc = "store" => work'.vcek = work.level
        /\ work' = [pc |-> work'.pc, ask |-> work.ask, gpu |-> work.gpu,
                    qualify |-> work.qualify, level |-> work.level, vcek |-> work'.vcek,
                    quote |-> work.quote, fetched |-> work'.fetched, sawCC |-> work.sawCC]
    BY <1>6 DEF W!FetchVcek, WorkerInv
  <2> QED BY <1>6, <2>1 DEF W!FetchVcek, WorkerInv, Of
<1>7. CASE W!StoreVcek
  BY <1>7 DEF W!StoreVcek, W!Goto, WorkerInv, Of
<1>8. CASE W!Quote
  BY <1>8 DEF W!Quote, WorkerInv, Of
<1>9. CASE W!Exit
  BY <1>9 DEF W!Exit, W!NoWork, WorkerInv, Of
<1>10. CASE W!Kill
  BY <1>10 DEF W!Kill, W!Goto, WorkerInv, Of
<1>11. CASE work' = work
  BY <1>11 DEF WorkerInv, Of
<1>12. W!UpdateFirmware \/ W!Outage \/ W!ChangeMode \/ UNCHANGED worker => work' = work
  BY DEF W!UpdateFirmware, W!Outage, W!ChangeMode, worker
<1> QED BY <1>1, <1>2, <1>3, <1>4, <1>5, <1>6, <1>7, <1>8, <1>9, <1>10, <1>11, <1>12 DEF W!Next

LEMMA WorkerInit == W!Init => WorkerInv
  BY DEF W!Init, W!NoWork, WorkerInv, Of

LEMMA WorkerProperty == WorkerInv => W!EvidenceIsWhole
  BY DEF WorkerInv, Of, W!EvidenceIsWhole, W!QualifyingData
-----------------------------------------------------------------------------
(* The release of a key.  Every file of the bundle is some guest's, the     *)
(* files may be of different guests, and each stage of an appraisal that    *)
(* nobody wrote into stands for what the stages before it have read.        *)

\* What a guest's files look like, at whatever firmware level they were made.
HclaOf(g, l) == [report |-> [data |-> [ak |-> g], tcb |-> l, version |-> About[g].version,
                             vmpl |-> About[g].vmpl, debug |-> About[g].debug,
                             sig |-> <<About[g].chip, l>>],
                 runtime |-> [ak |-> g]]

\* The files that are not None are some guest's; every quote is over a nonce issued.
BundleInv ==
    /\ nonce \in Nat
    /\ bundle = [f \in K!BundleFiles |-> bundle[f]]
    /\ bundle["nonce"] \in 0 .. nonce
    /\ bundle["hcl"] # None => \E g \in Guests : \E l : bundle["hcl"] = HclaOf(g, l)
    /\ bundle["certs"] # None => \E g \in Guests : \E l : bundle["certs"] = K!Vcek(g, l)
    /\ bundle["quote"] # None => bundle["quote"] \in signed
    /\ \A q \in signed : \E g \in Guests : \E n \in 1 .. nonce : q = K!Quote(g, n)

\* The stages from one on.
FromRelease == {"release"}
FromPcrs == {"pcrs", "release"}
FromQuote == {"quote", "pcrs", "release"}
FromGuestPub == {"guest_pub", "quote", "pcrs", "release"}
FromNonce == {"nonce", "guest_pub", "quote", "pcrs", "release"}
FromAk == {"ak", "nonce", "guest_pub", "quote", "pcrs", "release"}
FromChain == {"chain", "ak", "nonce", "guest_pub", "quote", "pcrs", "release"}
FromHcl == {"hcl", "chain", "ak", "nonce", "guest_pub", "quote", "pcrs", "release"}

StageInv ==
    /\ ver.pc \in FromHcl => bundle["hcl"] # None /\ bundle["certs"] # None /\ bundle["quote"] # None
    /\ ver.pc \in FromChain =>
          ver.report = bundle["hcl"].report /\ ver.ak = bundle["hcl"].runtime.ak
    /\ ver.pc \in FromAk => K!VerifyChain(ver.report, bundle["certs"]) /\ K!CheckPolicy(ver.report)
    /\ ver.pc \in FromNonce => bundle["ak_pub"] = ver.ak
    /\ ver.pc \in FromGuestPub => ver.nonce = bundle["nonce"]
    /\ ver.pc \in FromQuote => ver.key = bundle["guest_pub"]
    /\ ver.pc \in FromPcrs =>
          /\ bundle["quote"].ak = bundle["ak_pub"]
          /\ bundle["quote"].extra = K!BindingHash(ver.nonce, ver.key)
          /\ bundle["quote"].pcrs = bundle["pcrs"]
    /\ ver.pc \in FromRelease => ver.pcrs = bundle["pcrs"] /\ K!PcrPolicy(ver.pcrs)

VerShape == ver = [pc |-> ver.pc, report |-> ver.report, ak |-> ver.ak, nonce |-> ver.nonce,
                   key |-> ver.key, pcrs |-> ver.pcrs]

ReleaseInv ==
    /\ BundleInv /\ VerShape
    /\ stable \in BOOLEAN
    /\ stable /\ ver.pc # "idle" => StageInv
    /\ K!ReleasedToTheAttested

(* An appraisal that has come to its end, undisturbed, is about one guest.  *)
LEMMA AppraisedIsOne ==
    ASSUME BundleInv, StageInv, ver.pc = "release"
    PROVE  \E g \in Guests :
             /\ ver.key = g /\ About[g].genuine /\ About[g].version \in Policy.versions
             /\ Policy.debugOff => ~About[g].debug
             /\ Policy.vmpls # {} => About[g].vmpl \in Policy.vmpls
             /\ [ak |-> g, extra |-> K!BindingHash(ver.nonce, g), pcrs |-> ver.pcrs] \in signed
             /\ ver.nonce \in 1 .. nonce
             /\ Policy.pcrMode = "pin" => ver.pcrs \in Policy.pins
<1>1. /\ bundle["hcl"] # None /\ bundle["certs"] # None /\ bundle["quote"] # None
      /\ ver.report = bundle["hcl"].report /\ ver.ak = bundle["hcl"].runtime.ak
      /\ K!VerifyChain(ver.report, bundle["certs"]) /\ K!CheckPolicy(ver.report)
      /\ bundle["ak_pub"] = ver.ak /\ ver.nonce = bundle["nonce"]
      /\ bundle["quote"].ak = bundle["ak_pub"]
      /\ bundle["quote"].extra = K!BindingHash(ver.nonce, ver.key)
      /\ bundle["quote"].pcrs = ver.pcrs /\ K!PcrPolicy(ver.pcrs)
  BY DEF StageInv, FromRelease, FromPcrs, FromQuote, FromGuestPub, FromNonce, FromAk, FromChain,
         FromHcl
<1>2. PICK g \in Guests, n \in 1 .. nonce : bundle["quote"] = K!Quote(g, n)
  BY <1>1 DEF BundleInv
<1>3. /\ bundle["quote"].ak = g /\ bundle["quote"].extra = K!BindingHash(n, g)
      /\ bundle["quote"].pcrs = About[g].pcrs
      /\ bundle["quote"] = [ak |-> g, extra |-> K!BindingHash(n, g), pcrs |-> About[g].pcrs]
  BY <1>2 DEF K!Quote
<1>4. n = ver.nonce /\ g = ver.key
  BY <1>1, <1>3 DEF K!BindingHash
<1>5. ver.ak = g
  BY <1>1, <1>3
<1>6. PICK h \in Guests : \E l : bundle["hcl"] = HclaOf(h, l)
  BY <1>1 DEF BundleInv
<1>7. PICK l : bundle["hcl"] = HclaOf(h, l)
  BY <1>6
<1>8. /\ h = g /\ ver.report.version = About[g].version /\ ver.report.vmpl = About[g].vmpl
      /\ ver.report.debug = About[g].debug /\ ver.report.sig = <<About[g].chip, l>>
  <2>1. HclaOf(h, l).runtime.ak = h
    BY DEF HclaOf
  <2>2. h = g
    BY <1>1, <1>5, <1>7, <2>1
  <2>3. bundle["hcl"].report = [data |-> [ak |-> h], tcb |-> l, version |-> About[h].version,
                                vmpl |-> About[h].vmpl, debug |-> About[h].debug,
                                sig |-> <<About[h].chip, l>>]
    BY <1>7 DEF HclaOf
  <2> QED BY <1>1, <2>2, <2>3
<1>9. PICK i \in Guests : \E m : bundle["certs"] = K!Vcek(i, m)
  BY <1>1 DEF BundleInv
<1>10. PICK m : bundle["certs"] = K!Vcek(i, m)
  BY <1>9
<1>11. /\ bundle["certs"].key = <<About[i].chip, m>> /\ bundle["certs"].issuer = About[i].product
       /\ bundle["certs"].by = IF About[i].genuine THEN Products[About[i].product] ELSE "forger"
  BY <1>10 DEF K!Vcek
<1>12. About[i].genuine
  BY <1>1, <1>11, ProductsAssumption DEF K!VerifyChain, K!SelectRootSet
<1>13. About[i].chip = About[g].chip
  <2>1. ver.report.sig = bundle["certs"].key
    BY <1>1 DEF K!VerifyChain
  <2>2. <<About[g].chip, l>> = <<About[i].chip, m>>
    BY <1>8, <1>11, <2>1
  <2> QED BY <2>2
<1>14. About[g].genuine
  BY <1>12, <1>13, ChipsAssumption
<1>15. /\ About[g].version \in Policy.versions
       /\ Policy.debugOff => ~About[g].debug
       /\ Policy.vmpls # {} => About[g].vmpl \in Policy.vmpls
  BY <1>1, <1>8 DEF K!CheckPolicy
<1>16. [ak |-> g, extra |-> K!BindingHash(ver.nonce, g), pcrs |-> ver.pcrs] \in signed
  BY <1>1, <1>3, <1>4 DEF BundleInv
<1>17. Policy.pcrMode = "pin" => ver.pcrs \in Policy.pins
  BY <1>1 DEF K!PcrPolicy
<1> QED BY <1>4, <1>14, <1>15, <1>16, <1>17

(* What was released stays released to the attested while quotes and nonces *)
(* only grow.                                                               *)
LEMMA ReleasedStays ==
    ASSUME K!ReleasedToTheAttested, released' = released, signed \subseteq signed',
           nonce \in Nat, nonce' \in Nat, nonce <= nonce'
    PROVE  K!ReleasedToTheAttested'
<1> SUFFICES ASSUME NEW r \in released, r.stable
             PROVE  \E g \in Guests :
                      /\ K!Unwrap(g, r)
                      /\ About[g].genuine /\ About[g].version \in Policy.versions
                      /\ Policy.debugOff => ~About[g].debug
                      /\ Policy.vmpls # {} => About[g].vmpl \in Policy.vmpls
                      /\ [ak |-> g, extra |-> K!BindingHash(r.nonce, g), pcrs |-> r.pcrs] \in signed'
                      /\ r.nonce \in 1 .. nonce'
                      /\ Policy.pcrMode = "pin" => r.pcrs \in Policy.pins
  BY DEF K!ReleasedToTheAttested, K!Unwrap, K!BindingHash
<1>1. 1 .. nonce \subseteq 1 .. nonce'
  OBVIOUS
<1> QED BY <1>1 DEF K!ReleasedToTheAttested

(* Whoever writes to the bundle writes a guest's files or a new nonce.      *)
LEMMA WriteInv ==
    ASSUME ReleaseInv, released' = released, UNCHANGED ver, stable' = (stable /\ ver.pc = "idle"),
           BundleInv', signed \subseteq signed', nonce' \in {nonce, nonce + 1}
    PROVE  ReleaseInv'
<1>1. VerShape' /\ stable' \in BOOLEAN /\ (stable' /\ ver'.pc # "idle" => StageInv')
  BY DEF ReleaseInv, VerShape
<1>2. nonce \in Nat /\ nonce' \in Nat /\ nonce <= nonce'
  BY DEF ReleaseInv, BundleInv
<1>3. K!ReleasedToTheAttested'
  BY <1>2, ReleasedStays DEF ReleaseInv
<1> QED BY <1>1, <1>3 DEF ReleaseInv

LEMMA IssueChallengeInv == ASSUME ReleaseInv, K!IssueChallenge PROVE ReleaseInv'
<1>1. /\ released' = released /\ ver' = ver /\ stable' = (stable /\ ver.pc = "idle")
      /\ signed' = signed /\ nonce' = nonce + 1 /\ bundle' = [bundle EXCEPT !["nonce"] = nonce']
  BY DEF K!IssueChallenge
<1>2. /\ nonce \in Nat /\ nonce' \in Nat
      /\ bundle = [f \in K!BundleFiles |-> bundle[f]] /\ "nonce" \in K!BundleFiles
  BY <1>1 DEF ReleaseInv, BundleInv, K!BundleFiles
<1>3. /\ bundle' = [f \in K!BundleFiles |-> bundle'[f]] /\ bundle'["nonce"] = nonce'
      /\ \A f \in K!BundleFiles : f # "nonce" => bundle'[f] = bundle[f]
  BY <1>1, <1>2
<1>4. bundle'["hcl"] = bundle["hcl"] /\ bundle'["certs"] = bundle["certs"]
      /\ bundle'["quote"] = bundle["quote"]
  BY <1>3 DEF K!BundleFiles
<1>5. \A q \in signed' : \E g \in Guests : \E n \in 1 .. nonce' : q = K!Quote(g, n)
  <2>1. 1 .. nonce \subseteq 1 .. nonce'
    BY <1>1, <1>2
  <2> QED BY <1>1, <2>1 DEF ReleaseInv, BundleInv
<1>6. BundleInv'
  <2>1. \A g, l : K!Vcek(g, l)' = K!Vcek(g, l)
    BY DEF K!Vcek
  <2>2. \A g, n : K!Quote(g, n)' = K!Quote(g, n)
    BY DEF K!Quote, K!BindingHash
  <2>3. bundle'["nonce"] \in 0 .. nonce'
    BY <1>2, <1>3
  <2>4. \A g, l : HclaOf(g, l)' = HclaOf(g, l)
    BY DEF HclaOf
  <2> QED BY <1>1, <1>2, <1>3, <1>4, <1>5, <2>1, <2>2, <2>3, <2>4 DEF ReleaseInv, BundleInv
<1> QED BY <1>1, <1>6, WriteInv

(* Writing one or several files of a guest keeps the bundle's invariant.    *)
LEMMA FilesInv ==
    ASSUME ReleaseInv, NEW g \in Guests, bundle["nonce"] # 0,
           bundle' = [f \in K!BundleFiles |-> bundle'[f]],
           \A f \in K!BundleFiles : \/ bundle'[f] = bundle[f]
                                    \/ f # "nonce" /\ bundle'[f] = K!FileOf(g, f),
           \/ signed' = signed /\ bundle'["quote"] = bundle["quote"]
           \/ signed' = signed \cup {K!Quote(g, bundle["nonce"])},
           UNCHANGED <<level, nonce>>
    PROVE  BundleInv'
<1>1. /\ {"nonce", "hcl", "certs", "quote"} \subseteq K!BundleFiles /\ nonce' = nonce
      /\ bundle["nonce"] \in 1 .. nonce /\ nonce \in Nat
  BY DEF K!BundleFiles, ReleaseInv, BundleInv
<1>2. bundle'["nonce"] = bundle["nonce"]
  BY <1>1
<1>3. /\ \E l : K!FileOf(g, "hcl") = HclaOf(g, l)
      /\ \E l : K!FileOf(g, "certs") = K!Vcek(g, l)
      /\ K!FileOf(g, "quote") = K!Quote(g, bundle["nonce"])
  BY DEF K!FileOf, K!Hcla, K!Report, HclaOf
<1>4. bundle'["hcl"] # None => \E h \in Guests : \E l : bundle'["hcl"] = HclaOf(h, l)
  BY <1>1, <1>3 DEF ReleaseInv, BundleInv
<1>5. bundle'["certs"] # None => \E h \in Guests : \E l : bundle'["certs"] = K!Vcek(h, l)
  BY <1>1, <1>3 DEF ReleaseInv, BundleInv
<1>6. bundle'["quote"] # None => bundle'["quote"] \in signed'
  BY <1>1, <1>3 DEF ReleaseInv, BundleInv
<1>7. \A q \in signed' : \E h \in Guests : \E n \in 1 .. nonce : q = K!Quote(h, n)
  BY <1>1 DEF ReleaseInv, BundleInv
<1>8. (\A h, l : K!Vcek(h, l)' = K!Vcek(h, l)) /\ (\A h, n : K!Quote(h, n)' = K!Quote(h, n))
      /\ (\A h, l : HclaOf(h, l)' = HclaOf(h, l))
  BY DEF K!Vcek, K!Quote, K!BindingHash, HclaOf
<1> QED BY <1>1, <1>2, <1>4, <1>5, <1>6, <1>7, <1>8 DEF BundleInv

LEMMA PresentInv == ASSUME ReleaseInv, NEW g \in Guests, K!Present(g) PROVE ReleaseInv'
<1>1. /\ released' = released /\ ver' = ver /\ nonce' = nonce /\ level' = level
      /\ stable' = (stable /\ ver.pc = "idle") /\ bundle["nonce"] # 0
      /\ bundle' = [f \in K!BundleFiles |-> IF f = "nonce" THEN bundle[f] ELSE K!FileOf(g, f)]
      /\ signed' = signed \cup {K!Quote(g, bundle["nonce"])}
  BY DEF K!Present, K!verifier
<1>2. /\ bundle' = [f \in K!BundleFiles |-> bundle'[f]]
      /\ \A f \in K!BundleFiles : \/ bundle'[f] = bundle[f]
                                  \/ f # "nonce" /\ bundle'[f] = K!FileOf(g, f)
  BY <1>1
<1>3. BundleInv'
  BY <1>1, <1>2, FilesInv
<1> QED BY <1>1, <1>3, WriteInv

LEMMA PutInv ==
    ASSUME ReleaseInv, NEW g \in Guests, NEW f \in K!BundleFiles, K!Put(g, f) PROVE ReleaseInv'
<1>1. /\ released' = released /\ ver' = ver /\ nonce' = nonce /\ level' = level
      /\ stable' = (stable /\ ver.pc = "idle") /\ bundle["nonce"] # 0 /\ f # "nonce"
      /\ bundle' = [bundle EXCEPT ![f] = K!FileOf(g, f)]
      /\ signed' = IF f = "quote" THEN signed \cup {bundle'[f]} ELSE signed
  BY DEF K!Put, K!verifier
<1>2. bundle = [h \in K!BundleFiles |-> bundle[h]]
  BY DEF ReleaseInv, BundleInv
<1>3. /\ bundle' = [h \in K!BundleFiles |-> bundle'[h]] /\ bundle'[f] = K!FileOf(g, f)
      /\ \A h \in K!BundleFiles : h # f => bundle'[h] = bundle[h]
  BY <1>1, <1>2
<1>4. \/ signed' = signed /\ bundle'["quote"] = bundle["quote"]
      \/ signed' = signed \cup {K!Quote(g, bundle["nonce"])}
  <2>1. CASE f = "quote"
    <3>1. K!FileOf(g, "quote") = K!Quote(g, bundle["nonce"])
      BY DEF K!FileOf
    <3> QED BY <1>1, <1>3, <2>1, <3>1
  <2>2. CASE f # "quote"
    BY <1>1, <1>3, <2>2 DEF K!BundleFiles
  <2> QED BY <2>1, <2>2
<1>5. BundleInv'
  BY <1>1, <1>3, <1>4, FilesInv
<1> QED BY <1>1, <1>5, WriteInv

(* A step of the appraisal reads, and leaves the rest.                      *)
LEMMA ReadInv ==
    ASSUME ReleaseInv, UNCHANGED <<nonce, bundle, signed, released>>, stable' \in BOOLEAN,
           VerShape', stable' /\ ver'.pc # "idle" => StageInv'
    PROVE  ReleaseInv'
<1>1. (\A h, l : K!Vcek(h, l)' = K!Vcek(h, l)) /\ (\A h, n : K!Quote(h, n)' = K!Quote(h, n))
      /\ (\A h, l : HclaOf(h, l)' = HclaOf(h, l))
  BY DEF K!Vcek, K!Quote, K!BindingHash, HclaOf
<1>2. BundleInv'
  BY <1>1 DEF ReleaseInv, BundleInv
<1>3. K!ReleasedToTheAttested'
  BY ReleasedStays DEF ReleaseInv, BundleInv
<1> QED BY <1>2, <1>3 DEF ReleaseInv

\* The definitions that the stages are made of.
LEMMA StageSteps ==
    ASSUME ReleaseInv, stable,
           K!ParseHcla \/ K!AppraiseReport \/ K!VerifyAkBinding \/ K!ReadNonce \/ K!ReadGuestPub
             \/ K!CheckQuote \/ K!ReadPcrs
    PROVE  StageInv'
<1> USE DEF StageInv, FromRelease, FromPcrs, FromQuote, FromGuestPub, FromNonce, FromAk, FromChain,
            FromHcl, K!Reading, K!Goto
<1>1. StageInv /\ VerShape
  BY DEF ReleaseInv, K!ParseHcla, K!AppraiseReport, K!VerifyAkBinding, K!ReadNonce, K!ReadGuestPub,
         K!CheckQuote, K!ReadPcrs
<1>2. bundle' = bundle
  BY DEF K!ParseHcla, K!AppraiseReport, K!VerifyAkBinding, K!ReadNonce, K!ReadGuestPub,
         K!CheckQuote, K!ReadPcrs
<1>3. CASE K!ParseHcla
  <2>1. /\ ver.pc = "hcl" /\ ver'.pc \in {"chain", "rejected"}
        /\ ver'.pc = "chain" => /\ ver'.report = bundle["hcl"].report
                                /\ ver'.ak = bundle["hcl"].runtime.ak
    <3>1. CASE K!RuntimeBound(bundle["hcl"])
      <4>1. ver' = [ver EXCEPT !.pc = "chain", !.report = bundle["hcl"].report,
                               !.ak = bundle["hcl"].runtime.ak]
        BY <1>3, <3>1 DEF K!ParseHcla
      <4> QED BY <1>1, <1>3, <4>1 DEF K!ParseHcla, VerShape
    <3>2. CASE ~K!RuntimeBound(bundle["hcl"])
      <4>1. ver' = [ver EXCEPT !.pc = "rejected"]
        BY <1>3, <3>2 DEF K!ParseHcla
      <4> QED BY <1>1, <1>3, <4>1 DEF K!ParseHcla, VerShape
    <3> QED BY <3>1, <3>2
  <2> QED BY <1>1, <1>2, <2>1
<1>4. CASE K!AppraiseReport
  BY <1>1, <1>2, <1>4 DEF K!AppraiseReport, VerShape, K!VerifyChain, K!CheckPolicy,
     K!SelectRootSet, K!TcbFloor
<1>5. CASE K!VerifyAkBinding
  BY <1>1, <1>2, <1>5 DEF K!VerifyAkBinding, VerShape, K!AkMatches, K!VerifyChain, K!CheckPolicy,
     K!SelectRootSet, K!TcbFloor
<1>6. CASE K!ReadNonce
  BY <1>1, <1>2, <1>6 DEF K!ReadNonce, VerShape, K!VerifyChain, K!CheckPolicy,
     K!SelectRootSet, K!TcbFloor
<1>7. CASE K!ReadGuestPub
  BY <1>1, <1>2, <1>7 DEF K!ReadGuestPub, VerShape, K!VerifyChain, K!CheckPolicy,
     K!SelectRootSet, K!TcbFloor
<1>8. CASE K!CheckQuote
  BY <1>1, <1>2, <1>8 DEF K!CheckQuote, VerShape, K!VerifyChain, K!CheckPolicy,
     K!SelectRootSet, K!TcbFloor, K!BindingHash
<1>9. CASE K!ReadPcrs
  BY <1>1, <1>2, <1>9 DEF K!ReadPcrs, VerShape, K!VerifyChain, K!CheckPolicy,
     K!SelectRootSet, K!TcbFloor, K!BindingHash, K!PcrPolicy
<1> QED BY <1>3, <1>4, <1>5, <1>6, <1>7, <1>8, <1>9

LEMMA AppraiseInv == ASSUME ReleaseInv, K!Appraise PROVE ReleaseInv'
<1>1. CASE K!ParseHcla \/ K!AppraiseReport \/ K!VerifyAkBinding \/ K!ReadNonce \/ K!ReadGuestPub
             \/ K!CheckQuote \/ K!ReadPcrs
  <2>1. UNCHANGED <<nonce, bundle, signed, released>> /\ stable' = stable
    BY <1>1 DEF K!ParseHcla, K!AppraiseReport, K!VerifyAkBinding, K!ReadNonce, K!ReadGuestPub,
                K!CheckQuote, K!ReadPcrs, K!Reading
  <2>2. VerShape'
    BY <1>1 DEF K!ParseHcla, K!AppraiseReport, K!VerifyAkBinding, K!ReadNonce, K!ReadGuestPub,
                K!CheckQuote, K!ReadPcrs, K!Goto, VerShape, ReleaseInv
  <2>3. stable' => StageInv'
    BY <1>1, <2>1, StageSteps
  <2> QED BY <2>1, <2>2, <2>3, ReadInv DEF ReleaseInv
<1>2. CASE K!Require
  <2>1. UNCHANGED <<nonce, bundle, signed, released>> /\ stable' = TRUE
    BY <1>2 DEF K!Require
  <2>2. VerShape' /\ ver'.pc \in {"rejected", "hcl"}
    BY <1>2 DEF K!Require, K!Idle, VerShape
  <2>3. ver'.pc = "hcl" => bundle["hcl"] # None /\ bundle["certs"] # None /\ bundle["quote"] # None
    BY <1>2 DEF K!Require, K!Idle, K!BundleFiles
  <2>4. StageInv'
    BY <2>1, <2>2, <2>3 DEF StageInv, FromRelease, FromPcrs, FromQuote, FromGuestPub, FromNonce,
       FromAk, FromChain, FromHcl
  <2> QED BY <2>1, <2>2, <2>4, ReadInv
<1>3. CASE K!Again
  <2>1. UNCHANGED <<nonce, bundle, signed, released>> /\ stable' = stable /\ ver' = K!Idle
    BY <1>3 DEF K!Again, K!Reading
  <2>2. VerShape' /\ ver'.pc = "idle"
    BY <2>1 DEF VerShape, K!Idle
  <2> QED BY <2>1, <2>2, ReadInv DEF ReleaseInv
<1>4. CASE K!ReleaseToGuest
  <2> DEFINE r == [key |-> ver.key, nonce |-> ver.nonce, pcrs |-> ver.pcrs, stable |-> stable]
  <2>1. /\ UNCHANGED <<nonce, bundle, signed>> /\ stable' = stable /\ ver.pc = "release"
        /\ ver' = [ver EXCEPT !.pc = "released"] /\ released' = released \cup {r}
    BY <1>4 DEF K!ReleaseToGuest, K!Goto
  <2>2. VerShape' /\ ver'.pc = "released"
    BY <2>1 DEF VerShape, ReleaseInv
  <2>3. StageInv'
    BY <2>2 DEF StageInv, FromRelease, FromPcrs, FromQuote, FromGuestPub, FromNonce, FromAk,
       FromChain, FromHcl
  <2>4. BundleInv'
    <3>1. (\A h, l : K!Vcek(h, l)' = K!Vcek(h, l)) /\ (\A h, n : K!Quote(h, n)' = K!Quote(h, n))
          /\ (\A h, l : HclaOf(h, l)' = HclaOf(h, l))
      BY DEF K!Vcek, K!Quote, K!BindingHash, HclaOf
    <3> QED BY <2>1, <3>1 DEF ReleaseInv, BundleInv
  <2>5. K!ReleasedToTheAttested'
    <3>1. CASE stable
      <4>1. BundleInv /\ StageInv
        BY <2>1, <3>1 DEF ReleaseInv
      <4>2. PICK g \in Guests :
             /\ ver.key = g /\ About[g].genuine /\ About[g].version \in Policy.versions
             /\ Policy.debugOff => ~About[g].debug
             /\ Policy.vmpls # {} => About[g].vmpl \in Policy.vmpls
             /\ [ak |-> g, extra |-> K!BindingHash(ver.nonce, g), pcrs |-> ver.pcrs] \in signed
             /\ ver.nonce \in 1 .. nonce
             /\ Policy.pcrMode = "pin" => ver.pcrs \in Policy.pins
        BY <2>1, <4>1, AppraisedIsOne
      <4>3. r.key = ver.key /\ r.nonce = ver.nonce /\ r.pcrs = ver.pcrs
        OBVIOUS
      <4> HIDE DEF r
      <4> QED BY <2>1, <4>2, <4>3 DEF ReleaseInv, K!ReleasedToTheAttested, K!Unwrap, K!BindingHash
    <3>2. CASE ~stable
      <4>1. ~r.stable
        BY <3>2
      <4> HIDE DEF r
      <4> QED BY <2>1, <4>1 DEF ReleaseInv, K!ReleasedToTheAttested, K!Unwrap, K!BindingHash
    <3> QED BY <3>1, <3>2
  <2> QED BY <2>1, <2>2, <2>3, <2>4, <2>5 DEF ReleaseInv
<1> QED BY <1>1, <1>2, <1>3, <1>4 DEF K!Appraise

LEMMA ReleaseNext == ASSUME ReleaseInv, [K!Next]_release PROVE ReleaseInv'
<1>1. CASE K!UpdateFirmware \/ UNCHANGED release
  <2>1. UNCHANGED <<nonce, bundle, signed, released, ver, stable>>
    BY <1>1 DEF K!UpdateFirmware, K!verifier, release
  <2>2. VerShape' /\ (stable' /\ ver'.pc # "idle" => StageInv') /\ stable' \in BOOLEAN
    BY <2>1 DEF ReleaseInv, VerShape, StageInv, K!VerifyChain, K!CheckPolicy, K!SelectRootSet,
       K!TcbFloor, K!BindingHash, K!PcrPolicy
  <2> QED BY <2>1, <2>2, ReadInv
<1> QED BY <1>1, IssueChallengeInv, PresentInv, PutInv, AppraiseInv DEF K!Next

LEMMA ReleaseInit == K!Init => ReleaseInv
<1> SUFFICES ASSUME K!Init PROVE ReleaseInv
  OBVIOUS
<1>1. BundleInv
  BY DEF K!Init, BundleInv, K!BundleFiles
<1>2. VerShape /\ stable \in BOOLEAN /\ ver.pc = "idle"
  BY DEF K!Init, K!Idle, VerShape
<1>3. K!ReleasedToTheAttested
  BY DEF K!Init, K!ReleasedToTheAttested
<1> QED BY <1>1, <1>2, <1>3 DEF ReleaseInv

\* A behaviour of the worker or of the verifier keeps its invariant.
AttestationHolds ==
    /\ part = "worker" => WorkerInv
    /\ part = "release" => ReleaseInv

(* Evidence leaves the worker whole, with the certificate that signed the   *)
(* report it carries; and a key is released only to the one genuine guest   *)
(* whose report, quote, nonce and PCRs were appraised: for every set of     *)
(* guests, every policy, any firmware updates, outages and writes.          *)
THEOREM AttestationIsSound == AllSpec => []AttestedIsWhatRuns
<1>1. AllInit => AttestationHolds
  BY WorkerInit, ReleaseInit DEF AllInit, AttestationHolds
<1>2. AttestationHolds /\ [AllNext]_all => AttestationHolds'
  BY StepsOfParts, WorkerNext, ReleaseNext DEF AttestationHolds
<1>3. AttestationHolds => AttestedIsWhatRuns
  BY WorkerProperty DEF AttestationHolds, AttestedIsWhatRuns, ReleaseInv
<1> QED BY <1>1, <1>2, <1>3, PTL DEF AllSpec
-----------------------------------------------------------------------------
(* The hand-over.  What PCR 16 holds follows from where PID 1 stands; once   *)
(* an exchange is lost it may hold one value more or less, and then no path  *)
(* leads on that would extend it again.                                      *)

\* PCR 16 holds nothing, one staging, or one staging and one consuming.
Marked16 ==
    \/ pcr16 = <<>>
    \/ \E f : pcr16 = R!S1(f)
    \/ \E f, g : pcr16 = <<R!D1(f), R!D2(g)>>
Staged16 == pcr16 = <<>> \/ \E f : pcr16 = R!S1(f)

\* A frame is of this boot and of the binding that PCR 15 was extended with.
FrameHere(f) == f.nonce[1] = boot /\ pcr15 = R!Pcr15Of(f.binding)

Sealed3(f) == fd3 = [frame |-> f, offset |-> 0] /\ FrameHere(f)

ResumeInv ==
    /\ pid1 = [pc |-> pid1.pc, tries |-> pid1.tries, frame |-> pid1.frame,
               observed |-> pid1.observed, stage |-> pid1.stage, exec |-> pid1.exec,
               measured |-> pid1.measured]
    /\ pid1.pc # "serving" => authority = {}
    /\ pid1.pc \in {"boot", "extend15", "read15"} => pcr16 = <<>> /\ fd3 = None
    /\ pid1.pc \in {"stage1", "stage1_failed"} => Staged16
    /\ pid1.pc \in {"zero16", "extend16", "read16", "prepared"} => Sealed3(pid1.frame) /\ Staged16
    /\ pid1.pc = "extend16" => pcr16 = <<>>
    /\ pid1.pc \in {"read16", "prepared"} => pcr16 = R!S1(pid1.frame)
    /\ pid1.pc \in {"resume", "consume"} => \E f : Sealed3(f) /\ pcr16 = R!S1(f)
    /\ pid1.pc = "consume" => pid1.observed = pcr16
    /\ pid1.pc = "extend16b" => pcr16 = R!S1(pid1.frame)
    /\ pid1.pc \in {"read16b", "read15b", "return", "serving"} => pcr16 = R!S2(pid1.frame)
    /\ pid1.pc \in {"extend16b", "read16b", "read15b", "return", "serving"} =>
          fd3 = None /\ FrameHere(pid1.frame) /\ pid1.frame.see = see
    /\ pid1.pc = "serving" => authority = {[frame |-> pid1.frame, see |-> see]}
    /\ Marked16
    /\ pid1.pc \in {"boot", "extend15", "read15", "stage1", "stage1_failed", "zero16", "extend16",
                    "read16", "prepared", "resume", "consume", "extend16b", "read16b", "read15b",
                    "return", "serving", "dead"}

LEMMA ResumeProperty == ASSUME ResumeInv PROVE R!OneResumption
<1>1. R!AtMostOne(authority)
  BY DEF ResumeInv, R!AtMostOne
<1>2. ASSUME NEW a \in authority
      PROVE  /\ a.frame.nonce[1] = boot /\ a.frame.see = a.see
             /\ pcr15 = R!Pcr15Of(a.frame.binding) /\ pcr16 = R!S2(a.frame) /\ fd3 = None
  <2>1. pid1.pc = "serving" /\ a = [frame |-> pid1.frame, see |-> see]
    BY DEF ResumeInv
  <2>2. a.frame = pid1.frame /\ a.see = see
    BY <2>1
  <2> QED BY <2>1, <2>2 DEF ResumeInv, FrameHere
<1>3. \A f : R!D1(f).of = "staged" /\ R!D2(f).of = "consumed"
  BY DEF R!D1, R!D2
<1>4. R!Extended("staged") \in {{}, {1}} /\ R!Extended("consumed") \in {{}, {2}}
  <2>1. CASE pcr16 = <<>>
    BY <2>1 DEF R!Extended
  <2>2. CASE \E f : pcr16 = R!S1(f)
    BY <1>3, <2>2 DEF R!Extended, R!S1
  <2>3. CASE \E f, g : pcr16 = <<R!D1(f), R!D2(g)>>
    BY <1>3, <2>3 DEF R!Extended
  <2> QED BY <2>1, <2>2, <2>3 DEF ResumeInv, Marked16
<1>5. R!AtMostOne(R!Extended("staged")) /\ R!AtMostOne(R!Extended("consumed"))
  BY <1>4 DEF R!AtMostOne
<1> QED BY <1>1, <1>2, <1>5 DEF R!OneResumption

\* Only where PID 1 stands changes.
Stands == UNCHANGED <<boot, pcr15, pcr16, see, fd3, authority>>

(* Where PID 1 goes, it keeps the rest of what it knows.                    *)
LEMMA GoesTo ==
    ASSUME ResumeInv, NEW p, pid1' = [pid1 EXCEPT !.pc = p]
    PROVE  /\ pid1'.pc = p /\ pid1'.frame = pid1.frame /\ pid1'.observed = pid1.observed
           /\ pid1' = [pc |-> pid1'.pc, tries |-> pid1'.tries, frame |-> pid1'.frame,
                       observed |-> pid1'.observed, stage |-> pid1'.stage, exec |-> pid1'.exec,
                       measured |-> pid1'.measured]
  BY DEF ResumeInv

LEMMA MeasureInv == ASSUME ResumeInv, NEW b \in Bindings, R!Measure(b) PROVE ResumeInv'
<1>1. CASE /\ pid1.pc = "boot"
           /\ pid1' = [pid1 EXCEPT !.pc = IF pcr15 = <<>> THEN "extend15" ELSE "dead",
                                   !.measured = TRUE]
           /\ UNCHANGED <<pcr15, pcr16, fd3, mishaps>> /\ R!Quiet
  <2>1. /\ pid1'.pc \in {"extend15", "dead"}
        /\ pid1' = [pc |-> pid1'.pc, tries |-> pid1'.tries, frame |-> pid1'.frame,
                    observed |-> pid1'.observed, stage |-> pid1'.stage, exec |-> pid1'.exec,
                    measured |-> pid1'.measured]
    BY <1>1 DEF ResumeInv
  <2> QED BY <1>1, <2>1 DEF ResumeInv, R!Quiet, Marked16, R!S1, R!D1, R!D2
<1>2. CASE R!Extend("extend15", "read15", "dead", pcr15, b) /\ UNCHANGED pcr16
  <2>1. /\ pid1.pc = "extend15" /\ UNCHANGED <<boot, see, authority, fd3, pcr16>>
        /\ \E p \in {"read15", "dead"} : pid1' = [pid1 EXCEPT !.pc = p]
    BY <1>2 DEF R!Extend, R!Goto, R!Quiet
  <2>2. PICK p \in {"read15", "dead"} : pid1' = [pid1 EXCEPT !.pc = p]
    BY <2>1
  <2>3. pid1'.pc = p /\ pid1' = [pc |-> pid1'.pc, tries |-> pid1'.tries, frame |-> pid1'.frame,
                       observed |-> pid1'.observed, stage |-> pid1'.stage, exec |-> pid1'.exec,
                       measured |-> pid1'.measured]
    BY <2>2, GoesTo
  <2> QED BY <2>1, <2>2, <2>3 DEF ResumeInv, Marked16, R!S1, R!D1, R!D2
<1>3. CASE R!Read("read15", pcr15 = <<b>>, "stage1", "dead")
  <2>1. Stands /\ pid1.pc = "read15" /\ \E p \in {"stage1", "dead"} : pid1' = [pid1 EXCEPT !.pc = p]
    BY <1>3 DEF R!Read, R!Goto, R!Quiet, Stands
  <2>2. PICK p \in {"stage1", "dead"} : pid1' = [pid1 EXCEPT !.pc = p]
    BY <2>1
  <2>3. pid1'.pc = p /\ pid1' = [pc |-> pid1'.pc, tries |-> pid1'.tries, frame |-> pid1'.frame,
                       observed |-> pid1'.observed, stage |-> pid1'.stage, exec |-> pid1'.exec,
                       measured |-> pid1'.measured]
    BY <2>2, GoesTo
  <2> QED BY <2>1, <2>2, <2>3 DEF ResumeInv, Stands, Marked16, Staged16, R!S1, R!D1, R!D2
<1> QED BY <1>1, <1>2, <1>3 DEF R!Measure

LEMMA SealFrameInv == ASSUME ResumeInv, NEW b \in Bindings, R!SealFrame(b) PROVE ResumeInv'
<1>1. /\ pid1.pc = "stage1" /\ UNCHANGED <<boot, pcr15, pcr16, authority>> /\ Staged16
      /\ authority = {} /\ Marked16
  BY DEF R!SealFrame, ResumeInv
<1>2. Staged16' /\ Marked16'
  BY <1>1 DEF Staged16, Marked16, R!S1, R!D1, R!D2
<1>3. CASE pcr15 # R!Pcr15Of(b)
  <2>1. pid1' = [pid1 EXCEPT !.pc = "stage1_failed"]
    BY <1>3 DEF R!SealFrame, R!Goto
  <2>2. pid1'.pc = "stage1_failed" /\ pid1' = [pc |-> pid1'.pc, tries |-> pid1'.tries,
           frame |-> pid1'.frame, observed |-> pid1'.observed, stage |-> pid1'.stage,
           exec |-> pid1'.exec, measured |-> pid1'.measured]
    BY <2>1, GoesTo
  <2> QED BY <1>1, <1>2, <2>2 DEF ResumeInv
<1>4. CASE pcr15 = R!Pcr15Of(b)
  <2> DEFINE f == [nonce |-> <<boot, pid1.tries>>, binding |-> b, see |-> see']
  <2>1. fd3' = [frame |-> f, offset |-> 0] /\ pid1' = [pid1 EXCEPT !.pc = "zero16", !.frame = f]
    BY <1>4 DEF R!SealFrame
  <2>2. f.nonce[1] = boot /\ f.binding = b
    OBVIOUS
  <2> HIDE DEF f
  <2>3. pid1'.pc = "zero16" /\ pid1'.frame = f /\ pid1' = [pc |-> pid1'.pc, tries |-> pid1'.tries,
           frame |-> pid1'.frame, observed |-> pid1'.observed, stage |-> pid1'.stage,
           exec |-> pid1'.exec, measured |-> pid1'.measured]
    BY <2>1 DEF ResumeInv
  <2>4. Sealed3(pid1.frame)'
    BY <1>1, <1>4, <2>1, <2>2, <2>3 DEF Sealed3, FrameHere, R!Pcr15Of
  <2> QED BY <1>1, <1>2, <2>3, <2>4 DEF ResumeInv
<1> QED BY <1>3, <1>4

LEMMA Stage1Inv == ASSUME ResumeInv, R!Stage1 PROVE ResumeInv'
<1> USE DEF R!S1, R!S2, R!D1, R!D2
<1>1. CASE R!Read("zero16", R!Unstaged, "extend16", "stage1_failed")
  <2>1. Stands /\ pid1.pc = "zero16"
        /\ \E p \in {"extend16", "stage1_failed"} :
              pid1' = [pid1 EXCEPT !.pc = p] /\ (p = "extend16" => pcr16 = <<>>)
    BY <1>1 DEF R!Read, R!Goto, R!Quiet, Stands, R!Unstaged
  <2>2. PICK p \in {"extend16", "stage1_failed"} :
              pid1' = [pid1 EXCEPT !.pc = p] /\ (p = "extend16" => pcr16 = <<>>)
    BY <2>1
  <2>3. pid1'.pc = p /\ pid1'.frame = pid1.frame
        /\ pid1' = [pc |-> pid1'.pc, tries |-> pid1'.tries, frame |-> pid1'.frame,
                    observed |-> pid1'.observed, stage |-> pid1'.stage, exec |-> pid1'.exec,
                    measured |-> pid1'.measured]
    BY <2>2, GoesTo
  <2> QED BY <2>1, <2>2, <2>3 DEF ResumeInv, Stands, Marked16, Staged16, Sealed3, FrameHere,
             R!Pcr15Of
<1>2. CASE R!Extend("extend16", "read16", "stage1_failed", pcr16, R!D1(pid1.frame)) /\ UNCHANGED pcr15
  <2>1. /\ pid1.pc = "extend16" /\ UNCHANGED <<boot, see, authority, fd3, pcr15>>
        /\ \/ pcr16' = Append(pcr16, R!D1(pid1.frame)) /\ pid1' = [pid1 EXCEPT !.pc = "read16"]
           \/ /\ pcr16' = pcr16 \/ pcr16' = Append(pcr16, R!D1(pid1.frame))
              /\ pid1' = [pid1 EXCEPT !.pc = "stage1_failed"]
    BY <1>2 DEF R!Extend, R!Goto, R!Quiet
  <2>2. pcr16 = <<>> /\ Append(pcr16, R!D1(pid1.frame)) = R!S1(pid1.frame)
    BY <2>1 DEF ResumeInv
  <2>3. PICK p \in {"read16", "stage1_failed"} : pid1' = [pid1 EXCEPT !.pc = p]
    BY <2>1
  <2>4. pid1'.pc = p /\ pid1'.frame = pid1.frame
        /\ pid1' = [pc |-> pid1'.pc, tries |-> pid1'.tries, frame |-> pid1'.frame,
                    observed |-> pid1'.observed, stage |-> pid1'.stage, exec |-> pid1'.exec,
                    measured |-> pid1'.measured]
    BY <2>3, GoesTo
  <2>5. p = "read16" => pcr16' = R!S1(pid1.frame)
    BY <2>1, <2>2, <2>4, GoesTo
  <2>6. Staged16' /\ Marked16'
    BY <2>1, <2>2 DEF Staged16, Marked16
  <2>7. Sealed3(pid1.frame)'
    BY <2>1, <2>4 DEF ResumeInv, Sealed3, FrameHere, R!Pcr15Of
  <2> QED BY <2>1, <2>4, <2>5, <2>6, <2>7 DEF ResumeInv
<1>3. CASE R!Read("read16", pcr16 = R!S1(pid1.frame) /\ fd3.offset = 0, "prepared", "stage1_failed")
  <2>1. Stands /\ pid1.pc = "read16"
        /\ \E p \in {"prepared", "stage1_failed"} : pid1' = [pid1 EXCEPT !.pc = p]
    BY <1>3 DEF R!Read, R!Goto, R!Quiet, Stands
  <2>2. PICK p \in {"prepared", "stage1_failed"} : pid1' = [pid1 EXCEPT !.pc = p]
    BY <2>1
  <2>3. pid1'.pc = p /\ pid1'.frame = pid1.frame
        /\ pid1' = [pc |-> pid1'.pc, tries |-> pid1'.tries, frame |-> pid1'.frame,
                    observed |-> pid1'.observed, stage |-> pid1'.stage, exec |-> pid1'.exec,
                    measured |-> pid1'.measured]
    BY <2>2, GoesTo
  <2> QED BY <2>1, <2>2, <2>3 DEF ResumeInv, Stands, Marked16, Staged16, Sealed3, FrameHere,
             R!Pcr15Of
<1> QED BY <1>1, <1>2, <1>3 DEF R!Stage1

LEMMA AbandonInv == ASSUME ResumeInv, R!Abandon PROVE ResumeInv'
<1>1. pid1.pc = "stage1_failed" /\ UNCHANGED <<boot, pcr15, pcr16, see, authority>> /\ fd3' = None
  BY DEF R!Abandon
<1>2. pid1'.pc \in {"stage1", "dead"} /\ pid1' = [pc |-> pid1'.pc, tries |-> pid1'.tries,
           frame |-> pid1'.frame, observed |-> pid1'.observed, stage |-> pid1'.stage,
           exec |-> pid1'.exec, measured |-> pid1'.measured]
  BY DEF R!Abandon, ResumeInv
<1>3. Staged16' /\ Marked16' /\ authority' = {}
  BY <1>1 DEF ResumeInv, Staged16, Marked16, R!S1, R!D1, R!D2
<1> QED BY <1>1, <1>2, <1>3 DEF ResumeInv

LEMMA ExecInv == ASSUME ResumeInv, R!Exec PROVE ResumeInv'
<1>1. /\ pid1.pc = "prepared" /\ UNCHANGED <<boot, pcr15, pcr16, see, fd3, authority>>
      /\ Sealed3(pid1.frame) /\ pcr16 = R!S1(pid1.frame) /\ authority = {}
  BY DEF R!Exec, ResumeInv
<1>2. Staged16' /\ Marked16' /\ authority' = {} /\ pcr16' = R!S1(pid1.frame)
      /\ Sealed3(pid1.frame)
      /\ fd3' = [frame |-> pid1.frame, offset |-> 0]
      /\ pid1.frame.nonce[1] = boot' /\ pcr15' = R!Pcr15Of(pid1.frame.binding)
  BY <1>1 DEF Staged16, Marked16, R!S1, R!D1, R!D2, Sealed3, FrameHere
<1>3. CASE pid1' = [pid1 EXCEPT !.exec = TRUE]
  <2>1. pid1'.pc = "prepared" /\ pid1'.frame = pid1.frame
        /\ pid1' = [pc |-> pid1'.pc, tries |-> pid1'.tries,
           frame |-> pid1'.frame, observed |-> pid1'.observed, stage |-> pid1'.stage,
           exec |-> pid1'.exec, measured |-> pid1'.measured]
    BY <1>1, <1>3 DEF ResumeInv
  <2>2. Sealed3(pid1.frame)'
    BY <1>2, <2>1 DEF Sealed3, FrameHere, R!Pcr15Of
  <2> QED BY <1>1, <1>2, <2>1, <2>2 DEF ResumeInv, R!S1, R!D1
<1>4. CASE pid1' = [pid1 EXCEPT !.pc = "resume", !.exec = TRUE, !.stage = 2, !.frame = None]
  <2>1. pid1'.pc = "resume"
        /\ pid1' = [pc |-> pid1'.pc, tries |-> pid1'.tries,
           frame |-> pid1'.frame, observed |-> pid1'.observed, stage |-> pid1'.stage,
           exec |-> pid1'.exec, measured |-> pid1'.measured]
    BY <1>1, <1>4 DEF ResumeInv
  <2>2. \E f : Sealed3(f)' /\ pcr16' = R!S1(f)
    BY <1>2 DEF Sealed3, FrameHere, R!Pcr15Of
  <2> QED BY <1>1, <1>2, <2>1, <2>2 DEF ResumeInv, R!S1, R!D1
<1> QED BY <1>3, <1>4 DEF R!Exec

LEMMA ObserveInv == ASSUME ResumeInv, R!Observe PROVE ResumeInv'
<1>1. /\ pid1.pc = "resume" /\ UNCHANGED <<boot, pcr15, pcr16, see, fd3, authority>>
      /\ authority = {} /\ Marked16 /\ \E f : Sealed3(f) /\ pcr16 = R!S1(f)
  BY DEF R!Observe, R!Quiet, ResumeInv
<1>2. Marked16' /\ authority' = {} /\ \E f : Sealed3(f)' /\ pcr16' = R!S1(f)
  BY <1>1 DEF Marked16, R!S1, R!D1, R!D2, Sealed3, FrameHere, R!Pcr15Of
<1>3. /\ pid1'.pc \in {"consume", "dead"}
      /\ pid1'.pc = "consume" => pid1'.observed = pcr16
      /\ pid1' = [pc |-> pid1'.pc, tries |-> pid1'.tries,
           frame |-> pid1'.frame, observed |-> pid1'.observed, stage |-> pid1'.stage,
           exec |-> pid1'.exec, measured |-> pid1'.measured]
  BY DEF R!Observe, R!Goto, ResumeInv
<1> QED BY <1>1, <1>2, <1>3 DEF ResumeInv, R!S1, R!D1

LEMMA ConsumeInv == ASSUME ResumeInv, NEW b \in Bindings, R!Consume(b) PROVE ResumeInv'
<1>1. /\ pid1.pc = "consume" /\ UNCHANGED <<boot, pcr15, pcr16, see, authority>> /\ fd3' = None
      /\ authority = {} /\ Marked16 /\ pid1.observed = pcr16
  BY DEF R!Consume, ResumeInv
<1>2. PICK f : Sealed3(f) /\ pcr16 = R!S1(f)
  BY <1>1 DEF ResumeInv
<1>3. fd3.frame = f
  BY <1>2 DEF Sealed3
<1>4. /\ pid1'.pc \in {"extend16b", "dead"} /\ pid1'.frame = f
      /\ pid1'.pc = "extend16b" => f.see = see
      /\ pid1' = [pc |-> pid1'.pc, tries |-> pid1'.tries,
           frame |-> pid1'.frame, observed |-> pid1'.observed, stage |-> pid1'.stage,
           exec |-> pid1'.exec, measured |-> pid1'.measured]
  BY <1>3 DEF R!Consume, ResumeInv, R!SameWorld
<1>5. Marked16' /\ authority' = {} /\ pcr16' = R!S1(f) /\ FrameHere(pid1.frame)'
  BY <1>1, <1>2, <1>4 DEF Marked16, R!S1, R!D1, R!D2, Sealed3, FrameHere, R!Pcr15Of
<1> QED BY <1>1, <1>4, <1>5 DEF ResumeInv, R!S1, R!D1

LEMMA AppendsSecond == ASSUME NEW x, NEW y PROVE Append(<<x>>, y) = <<x, y>>
<1>1. <<x>> \in Seq({x, y}) /\ Len(<<x>>) = 1 /\ <<x>>[1] = x
  OBVIOUS
<1>2. PICK s \in Seq({x, y}) : s = <<x>>
  BY <1>1
<1>3. Append(s, y) = [i \in 1 .. 2 |-> IF i = 2 THEN y ELSE s[i]]
  BY <1>1, <1>2
<1>4. Append(s, y) = [i \in 1 .. 2 |-> IF i = 2 THEN y ELSE x]
  BY <1>1, <1>2, <1>3
<1>5. <<x, y>> = [i \in 1 .. 2 |-> IF i = 2 THEN y ELSE x]
  OBVIOUS
<1>6. Append(s, y) = <<x, y>>
  BY <1>4, <1>5, Zenon
<1> QED BY <1>2, <1>6, Zenon

LEMMA Stage2Inv == ASSUME ResumeInv, NEW b \in Bindings, R!Stage2(b) PROVE ResumeInv'
<1>1. CASE R!Extend("extend16b", "read16b", "dead", pcr16, R!D2(pid1.frame)) /\ UNCHANGED pcr15
  <2>1. /\ pid1.pc = "extend16b" /\ UNCHANGED <<boot, see, authority, fd3, pcr15>>
        /\ \/ pcr16' = Append(pcr16, R!D2(pid1.frame)) /\ pid1' = [pid1 EXCEPT !.pc = "read16b"]
           \/ /\ pcr16' = pcr16 \/ pcr16' = Append(pcr16, R!D2(pid1.frame))
              /\ pid1' = [pid1 EXCEPT !.pc = "dead"]
    BY <1>1 DEF R!Extend, R!Goto, R!Quiet
  <2>2. pcr16 = R!S1(pid1.frame) /\ Append(pcr16, R!D2(pid1.frame)) = R!S2(pid1.frame)
    <3>1. pcr16 = R!S1(pid1.frame)
      BY <2>1 DEF ResumeInv
    <3>2. Append(<<R!D1(pid1.frame)>>, R!D2(pid1.frame)) = <<R!D1(pid1.frame), R!D2(pid1.frame)>>
      BY AppendsSecond
    <3> QED BY <3>1, <3>2 DEF R!S1, R!S2
  <2>3. PICK p \in {"read16b", "dead"} : pid1' = [pid1 EXCEPT !.pc = p]
    BY <2>1
  <2>4. pid1'.pc = p /\ pid1'.frame = pid1.frame
        /\ pid1' = [pc |-> pid1'.pc, tries |-> pid1'.tries, frame |-> pid1'.frame,
                    observed |-> pid1'.observed, stage |-> pid1'.stage, exec |-> pid1'.exec,
                    measured |-> pid1'.measured]
    BY <2>3, GoesTo
  <2>5. p = "read16b" => pcr16' = R!S2(pid1.frame)
    BY <2>1, <2>2, <2>4, GoesTo
  <2>6. Marked16'
    BY <2>1, <2>2 DEF Marked16, R!S1, R!S2, R!D1, R!D2
  <2>7. FrameHere(pid1.frame)' /\ fd3' = None /\ pid1'.frame.see = see'
    BY <2>1, <2>4 DEF ResumeInv, FrameHere, R!Pcr15Of
  <2> QED BY <2>1, <2>4, <2>5, <2>6, <2>7 DEF ResumeInv, R!S2, R!D1, R!D2
<1>2. CASE \/ R!Read("read16b", pcr16 = R!S2(pid1.frame), "read15b", "dead")
           \/ R!Read("read15b", pcr15 = R!Pcr15Of(b), "return", "dead")
  <2>1. Stands /\ pid1.pc \in {"read16b", "read15b"}
        /\ \E p \in {"read15b", "return", "dead"} : pid1' = [pid1 EXCEPT !.pc = p]
    BY <1>2 DEF R!Read, R!Goto, R!Quiet, Stands
  <2>2. PICK p \in {"read15b", "return", "dead"} : pid1' = [pid1 EXCEPT !.pc = p]
    BY <2>1
  <2>3. pid1'.pc = p /\ pid1'.frame = pid1.frame
        /\ pid1' = [pc |-> pid1'.pc, tries |-> pid1'.tries, frame |-> pid1'.frame,
                    observed |-> pid1'.observed, stage |-> pid1'.stage, exec |-> pid1'.exec,
                    measured |-> pid1'.measured]
    BY <2>2, GoesTo
  <2>4. pcr16' = R!S2(pid1.frame)' /\ Marked16'
    BY <2>1, <2>3 DEF ResumeInv, Stands, Marked16, R!S1, R!S2, R!D1, R!D2
  <2>5. FrameHere(pid1.frame)' /\ fd3' = None /\ pid1'.frame.see = see' /\ authority' = {}
    BY <2>1, <2>3 DEF ResumeInv, Stands, FrameHere, R!Pcr15Of
  <2> QED BY <2>2, <2>3, <2>4, <2>5 DEF ResumeInv
<1> QED BY <1>1, <1>2 DEF R!Stage2

LEMMA ReturnInv == ASSUME ResumeInv, R!Return PROVE ResumeInv'
<1>1. /\ pid1.pc = "return" /\ UNCHANGED <<boot, pcr15, pcr16, see, fd3>> /\ authority = {}
      /\ authority' = {[frame |-> pid1.frame, see |-> see]}
      /\ pid1' = [pid1 EXCEPT !.pc = "serving"]
  BY DEF R!Return, R!Goto, ResumeInv
<1>2. pid1'.pc = "serving" /\ pid1'.frame = pid1.frame
        /\ pid1' = [pc |-> pid1'.pc, tries |-> pid1'.tries, frame |-> pid1'.frame,
                    observed |-> pid1'.observed, stage |-> pid1'.stage, exec |-> pid1'.exec,
                    measured |-> pid1'.measured]
  BY <1>1, GoesTo
<1>3. pcr16' = R!S2(pid1.frame)' /\ Marked16'
  BY <1>1, <1>2 DEF ResumeInv, Marked16, R!S1, R!S2, R!D1, R!D2
<1>4. FrameHere(pid1.frame)' /\ fd3' = None /\ pid1'.frame.see = see'
  BY <1>1, <1>2 DEF ResumeInv, FrameHere, R!Pcr15Of
<1> QED BY <1>1, <1>2, <1>3, <1>4 DEF ResumeInv

LEMMA DriftInv == ASSUME ResumeInv, NEW k, R!Drift(k) PROVE ResumeInv'
<1>1. /\ pid1.pc \in {"prepared", "resume", "consume"} /\ UNCHANGED <<boot, pcr15, pcr16, fd3, authority>>
      /\ pid1' = pid1
  BY DEF R!Drift
<1>2. Marked16' /\ (Staged16 => Staged16') /\ \A f : Sealed3(f) => Sealed3(f)'
  BY <1>1 DEF ResumeInv, Marked16, Staged16, Sealed3, FrameHere, R!Pcr15Of, R!S1, R!D1, R!D2
<1>3. Sealed3(pid1.frame) => Sealed3(pid1.frame)'
  BY <1>1 DEF Sealed3, FrameHere, R!Pcr15Of
<1> QED BY <1>1, <1>2, <1>3 DEF ResumeInv, R!S1, R!D1

LEMMA ResumeStays == ASSUME ResumeInv, UNCHANGED resume PROVE ResumeInv'
<1>1. UNCHANGED <<boot, pcr15, pcr16, see, fd3, authority, pid1>>
  BY DEF resume
<1>2. Marked16' /\ (Staged16 => Staged16') /\ \A f : Sealed3(f) => Sealed3(f)'
  BY <1>1 DEF ResumeInv, Marked16, Staged16, Sealed3, FrameHere, R!Pcr15Of, R!S1, R!D1, R!D2
<1>3. (Sealed3(pid1.frame) => Sealed3(pid1.frame)') /\ (FrameHere(pid1.frame) => FrameHere(pid1.frame)')
  BY <1>1 DEF Sealed3, FrameHere, R!Pcr15Of
<1> QED BY <1>1, <1>2, <1>3 DEF ResumeInv, R!S1, R!S2, R!D1, R!D2

LEMMA BootAnew ==
    ASSUME pcr16 = <<>>, fd3 = None, pid1 = R!Fresh, authority = {} PROVE ResumeInv
  BY DEF ResumeInv, R!Fresh, Marked16

LEMMA ResumeNext == ASSUME ResumeInv, [R!Next]_resume PROVE ResumeInv'
<1>1. CASE R!Restart
  <2>1. pcr16' = <<>> /\ fd3' = None /\ pid1' = R!Fresh /\ authority' = {}
    BY <1>1 DEF R!Restart
  <2> QED BY <2>1 DEF ResumeInv, R!Fresh, Marked16
<1> QED BY <1>1, MeasureInv, SealFrameInv, ConsumeInv, Stage2Inv, Stage1Inv, AbandonInv, ExecInv,
           ObserveInv, ReturnInv, DriftInv, ResumeStays DEF R!Next

LEMMA ResumeInit == R!Init => ResumeInv
  BY BootAnew DEF R!Init
-----------------------------------------------------------------------------
(* The attestation broker.  In one boot the TPM's update counter tells its   *)
(* states apart: parts read under one counter are parts of one state.        *)

TpmState == [clock : Nat, boot : Nat, pcrs : [Q!Pcr15 -> Nat], counter : Nat]

\* A state of the TPM and a later one.
NotAfter(s, t) ==
    /\ s.clock <= t.clock /\ s.boot <= t.boot
    /\ s.boot = t.boot => /\ s.counter <= t.counter /\ s.pcrs["base"] <= t.pcrs["base"]
                          /\ s.counter = t.counter => s.pcrs = t.pcrs

PastInv ==
    /\ tpm \in TpmState /\ past \in Seq(TpmState) /\ past # <<>> /\ past[Len(past)] = tpm
    /\ \A i, j \in 1 .. Len(past) : i <= j => NotAfter(past[i], past[j])

\* The values were there together, in this boot, in the time of the request.
Together(values, deadline, i) ==
    /\ past[i].boot = tpm.boot
    /\ deadline - Window <= past[i].clock /\ past[i].clock < deadline
    /\ \A p \in DOMAIN values : values[p] = past[i].pcrs[p]

Reads == {"read14", "read15"}
Message(r) == r = [op |-> r.op, extra |-> r.extra, seq |-> r.seq, deadline |-> r.deadline]
              /\ r.deadline \in Nat

\* What is under way: requests well formed, parts read so far of one state.
UnderWay ==
    /\ broker = [seq |-> broker.seq, failed |-> broker.failed, req |-> broker.req,
                 got |-> broker.got, counter |-> broker.counter]
    /\ bus = [request |-> bus.request, response |-> bus.response]
    /\ client = [seq |-> client.seq, sent |-> client.sent, asked |-> client.asked]
    /\ client.sent # None => Message(client.sent)
    /\ bus.request # None => Message(bus.request)
    /\ broker.req # None => Message(broker.req) /\ broker.req.deadline - Window <= tpm.clock
    /\ broker.req # None /\ broker.req.op \in Reads =>
          \/ broker.counter = None /\ broker.got = <<>>
          \/ /\ broker.counter \in Nat
             /\ \E i \in 1 .. Len(past) : /\ past[i].counter = broker.counter
                                          /\ Together(broker.got, broker.req.deadline, i)

Answered ==
    /\ bus.response # None /\ bus.response.op \in Reads =>
          \E i \in 1 .. Len(past) : Together(bus.response.extra, bus.response.deadline, i)
    /\ \A a \in answers : \E i \in 1 .. Len(past) : Together(a.extra, a.deadline, i)

\* A quote is of a state the TPM was in.
Quoted == \A q \in quotes :
    /\ q.when \in 1 .. Len(past)
    /\ q.clock = past[q.when].clock /\ q.boot = past[q.when].boot
    /\ q.pcrs["base"] = past[q.when].pcrs["base"]

QuoteInv == PastInv /\ UnderWay /\ Answered /\ Quoted

LEMMA NotAfterTransitive ==
    ASSUME NEW s \in TpmState, NEW t \in TpmState, NEW u \in TpmState, NotAfter(s, t), NotAfter(t, u)
    PROVE  NotAfter(s, u)
<1>1. /\ s.clock \in Nat /\ t.clock \in Nat /\ u.clock \in Nat
      /\ s.boot \in Nat /\ t.boot \in Nat /\ u.boot \in Nat
      /\ s.counter \in Nat /\ t.counter \in Nat /\ u.counter \in Nat
      /\ s.pcrs["base"] \in Nat /\ t.pcrs["base"] \in Nat /\ u.pcrs["base"] \in Nat
  BY DEF TpmState, Q!Pcr15
<1> QED BY <1>1 DEF NotAfter

LEMMA NotAfterReflexive == ASSUME NEW s \in TpmState PROVE NotAfter(s, s)
<1>1. s.clock \in Nat /\ s.boot \in Nat /\ s.counter \in Nat /\ s.pcrs["base"] \in Nat
  BY DEF TpmState, Q!Pcr15
<1> QED BY <1>1 DEF NotAfter

LEMMA QuoteProperty == ASSUME QuoteInv PROVE Q!ReadOfOneInstant /\ Q!OneSitting
<1>1. Q!ReadOfOneInstant
  BY DEF QuoteInv, Answered, Together, Q!ReadOfOneInstant
<1>2. ASSUME NEW c \in Channels, NEW cert \in quotes, NEW exp \in quotes, NEW sup \in quotes,
             Q!Conjunction(c, cert, exp, sup), NEW i \in 1 .. Len(past),
             NEW q \in {cert, exp, sup}, NEW r \in {cert, exp, sup}, q.when <= i, i <= r.when
      PROVE  /\ past[i].boot = sup.boot /\ past[i].pcrs["base"] = 0
             /\ past[i].clock - cert.clock <= Window
  <2>1. /\ q.when \in 1 .. Len(past) /\ r.when \in 1 .. Len(past)
        /\ past[q.when].boot = q.boot /\ past[r.when].boot = r.boot
        /\ past[r.when].pcrs["base"] = r.pcrs["base"] /\ past[r.when].clock = r.clock
        /\ cert.clock = past[cert.when].clock /\ cert.when \in 1 .. Len(past)
        /\ exp.clock = past[exp.when].clock /\ exp.when \in 1 .. Len(past)
        /\ sup.clock = past[sup.when].clock /\ sup.when \in 1 .. Len(past)
    BY DEF QuoteInv, Quoted
  <2>2. q.boot = sup.boot /\ r.boot = sup.boot /\ r.pcrs["base"] = 0
    BY <1>2 DEF Q!Conjunction, Q!SameBoot, Q!Fits
  <2>3. \A k \in 1 .. Len(past) : past[k] \in TpmState
    BY DEF QuoteInv, PastInv
  <2>4. /\ past[i].boot \in Nat /\ past[i].clock \in Nat /\ past[i].pcrs["base"] \in Nat
        /\ past[q.when].boot \in Nat /\ past[r.when].boot \in Nat /\ past[r.when].clock \in Nat
        /\ cert.clock \in Nat /\ exp.clock \in Nat /\ sup.clock \in Nat
    BY <2>1, <2>3 DEF TpmState, Q!Pcr15
  <2>5. NotAfter(past[q.when], past[i]) /\ NotAfter(past[i], past[r.when])
    BY <1>2, <2>1 DEF QuoteInv, PastInv
  <2>6. past[i].boot = sup.boot /\ past[i].pcrs["base"] = 0
    BY <2>1, <2>2, <2>4, <2>5 DEF NotAfter
  <2>7. r.clock <= sup.clock /\ sup.clock <= cert.clock + Window
    BY <1>2, <2>4, TimeAssumption DEF Q!Conjunction, Q!Ordered
  <2>8. past[i].clock <= r.clock
    BY <2>1, <2>5 DEF NotAfter
  <2>9. r.clock \in Nat
    BY <2>4
  <2>10. past[i].clock - cert.clock <= Window
    <3>1. PICK x, y, z, v, n : x = past[i].clock /\ y = cert.clock /\ z = r.clock /\ v = sup.clock
                               /\ n = Window
      OBVIOUS
    <3>2. x \in Nat /\ y \in Nat /\ z \in Nat /\ v \in Nat /\ n \in Nat
      BY <2>4, <2>9, <3>1, TimeAssumption
    <3>3. x <= z /\ z <= v /\ v <= y + n
      BY <2>7, <2>8, <3>1
    <3>4. x - y <= n
      BY ONLY <3>2, <3>3
    <3> QED BY <3>1, <3>4
  <2> QED BY <2>6, <2>10
<1> QED BY <1>1, <1>2 DEF Q!OneSitting

(* What was true of an earlier state of the TPM stays true as time goes on. *)
LEMMA PastGrows ==
    ASSUME PastInv, tpm' \in TpmState, NotAfter(tpm, tpm'), past' = Append(past, tpm')
    PROVE  /\ PastInv'
           /\ Len(past') = Len(past) + 1 /\ Len(past) \in Nat
           /\ \A i \in 1 .. Len(past) : i \in 1 .. Len(past') /\ past'[i] = past[i]
<1>1. /\ past \in Seq(TpmState) /\ Len(past) \in Nat /\ Len(past) >= 1
      /\ past[Len(past)] = tpm /\ tpm \in TpmState
  BY DEF PastInv
<1>2. /\ past' \in Seq(TpmState) /\ Len(past') = Len(past) + 1
      /\ past'[Len(past')] = tpm' /\ past' # <<>>
      /\ \A i \in 1 .. Len(past) : i \in 1 .. Len(past') /\ past'[i] = past[i]
  BY <1>1
<1>3. ASSUME NEW i \in 1 .. Len(past'), NEW j \in 1 .. Len(past'), i <= j
      PROVE  NotAfter(past'[i], past'[j])
  <2>1. CASE j \in 1 .. Len(past)
    <3>1. i \in 1 .. Len(past)
      BY <1>1, <1>3, <2>1
    <3> QED BY <1>2, <1>3, <2>1, <3>1 DEF PastInv
  <2>2. CASE j = Len(past') /\ i = Len(past')
    BY <1>2, <2>2, NotAfterReflexive
  <2>3. CASE j = Len(past') /\ i \in 1 .. Len(past)
    <3>1. NotAfter(past[i], past[Len(past)]) /\ past[i] \in TpmState
      BY <1>1, <2>3 DEF PastInv
    <3>2. NotAfter(past[i], tpm')
      BY <1>1, <3>1, NotAfterTransitive
    <3> QED BY <1>2, <2>3, <3>2
  <2>4. \/ j \in 1 .. Len(past) \/ j = Len(past')
    BY <1>1, <1>2
  <2>5. \/ i \in 1 .. Len(past) \/ i = Len(past')
    BY <1>1, <1>2
  <2> QED BY <2>1, <2>2, <2>3, <2>4, <2>5
<1>4. \A s, t : NotAfter(s, t)' = NotAfter(s, t)
  BY DEF NotAfter
<1>5. PastInv'
  BY <1>2, <1>3 DEF PastInv, NotAfter
<1> QED BY <1>1, <1>2, <1>5

(* Time or an extension in the same boot takes nothing away.                *)
LEMMA MovesOn ==
    ASSUME QuoteInv, tpm' \in TpmState, NotAfter(tpm, tpm'), past' = Append(past, tpm'),
           tpm'.boot = tpm.boot, UNCHANGED <<broker, bus, client, answers, quotes>>
    PROVE  QuoteInv'
<1>1. /\ PastInv' /\ Len(past') = Len(past) + 1 /\ Len(past) \in Nat
      /\ \A i \in 1 .. Len(past) : i \in 1 .. Len(past') /\ past'[i] = past[i]
  BY PastGrows DEF QuoteInv
<1>2. \A v, d : \A i \in 1 .. Len(past) : Together(v, d, i) => Together(v, d, i)'
  BY <1>1 DEF Together
<1>3. tpm.clock \in Nat /\ tpm'.clock \in Nat /\ tpm.clock <= tpm'.clock
  BY DEF QuoteInv, PastInv, TpmState, NotAfter
<1>4. UnderWay'
  <2>1. broker.req # None => broker.req.deadline - Window <= tpm'.clock
    BY <1>3, TimeAssumption DEF QuoteInv, UnderWay, Message
  <2>2. ASSUME NEW i \in 1 .. Len(past), past[i].counter = broker.counter,
               Together(broker.got, broker.req.deadline, i)
        PROVE  i \in 1 .. Len(past') /\ past'[i].counter = broker'.counter
               /\ Together(broker.got, broker.req.deadline, i)'
    BY <1>1, <2>2 DEF Together
  <2>3. UnderWay
    BY DEF QuoteInv
  <2> QED BY <2>1, <2>2, <2>3 DEF UnderWay, Message
<1>5. Answered'
  <2>1. Answered
    BY DEF QuoteInv
  <2>2. bus.response # None /\ bus.response.op \in Reads =>
          \E i \in 1 .. Len(past') : Together(bus.response.extra, bus.response.deadline, i)'
    BY <1>1, <2>1 DEF Answered, Together
  <2>3. ASSUME NEW a \in answers
        PROVE  \E i \in 1 .. Len(past') : Together(a.extra, a.deadline, i)'
    BY <1>1, <2>1 DEF Answered, Together
  <2> QED BY <2>2, <2>3 DEF Answered, Together
<1>6. Quoted'
  BY <1>1 DEF QuoteInv, Quoted
<1> QED BY <1>1, <1>4, <1>5, <1>6 DEF QuoteInv

(* A step that leaves the TPM alone keeps what is known of its past.        *)
LEMMA PastStays ==
    ASSUME QuoteInv, UNCHANGED <<tpm, past>>
    PROVE  PastInv' /\ \A v, d, i : Together(v, d, i) => Together(v, d, i)'
  BY DEF QuoteInv, PastInv, NotAfter, Together

LEMMA TickInv == ASSUME QuoteInv, Q!Tick PROVE QuoteInv'
<1>1. tpm \in TpmState /\ tpm' = [tpm EXCEPT !.clock = @ + 1] /\ past' = Append(past, tpm')
      /\ UNCHANGED <<broker, bus, client, answers, quotes>>
  BY DEF Q!Tick, Q!Happens, QuoteInv, PastInv
<1>2. tpm' \in TpmState /\ tpm'.boot = tpm.boot /\ tpm'.counter = tpm.counter
      /\ tpm'.pcrs = tpm.pcrs /\ tpm'.clock = tpm.clock + 1 /\ tpm.clock \in Nat
      /\ tpm.boot \in Nat /\ tpm.counter \in Nat /\ tpm.pcrs["base"] \in Nat
  BY <1>1 DEF TpmState, Q!Pcr15
<1>3. NotAfter(tpm, tpm')
  BY <1>2 DEF NotAfter
<1> QED BY <1>1, <1>2, <1>3, MovesOn

LEMMA ExtendPcrInv == ASSUME QuoteInv, NEW p \in Q!Pcr15, Q!ExtendPcr(p) PROVE QuoteInv'
<1>1. tpm \in TpmState /\ tpm' = [tpm EXCEPT !.pcrs[p] = @ + 1, !.counter = @ + 1]
      /\ past' = Append(past, tpm') /\ UNCHANGED <<broker, bus, client, answers, quotes>>
  BY DEF Q!ExtendPcr, Q!Happens, QuoteInv, PastInv
<1>2. /\ tpm.pcrs \in [Q!Pcr15 -> Nat] /\ tpm.clock \in Nat /\ tpm.boot \in Nat
      /\ tpm.counter \in Nat /\ "base" \in Q!Pcr15
  BY <1>1 DEF TpmState, Q!Pcr15
<1>3. tpm'.pcrs = [tpm.pcrs EXCEPT ![p] = @ + 1] /\ tpm'.counter = tpm.counter + 1
      /\ tpm'.clock = tpm.clock /\ tpm'.boot = tpm.boot
      /\ tpm' = [clock |-> tpm'.clock, boot |-> tpm'.boot, pcrs |-> tpm'.pcrs,
                 counter |-> tpm'.counter]
  BY <1>1 DEF TpmState
<1>4. tpm'.pcrs \in [Q!Pcr15 -> Nat] /\ tpm.pcrs["base"] <= tpm'.pcrs["base"]
  BY <1>2, <1>3
<1>5. tpm' \in TpmState
  BY <1>2, <1>3, <1>4 DEF TpmState
<1>6. NotAfter(tpm, tpm')
  BY <1>2, <1>3, <1>4 DEF NotAfter
<1> QED BY <1>1, <1>3, <1>5, <1>6, MovesOn

LEMMA RestartInv == ASSUME QuoteInv, Q!Restart PROVE QuoteInv'
<1>1. /\ tpm \in TpmState /\ tpm' = [tpm EXCEPT !.boot = @ + 1, !.pcrs = Q!Zero, !.counter = 0]
      /\ past' = Append(past, tpm') /\ broker' = Q!Idle /\ bus' = Q!NoWire
      /\ client' = [client EXCEPT !.seq = 1, !.sent = None] /\ answers' = {} /\ quotes' = quotes
  BY DEF Q!Restart, Q!Happens, QuoteInv, PastInv
<1>2. /\ tpm' \in TpmState /\ tpm'.boot = tpm.boot + 1 /\ tpm'.clock = tpm.clock
      /\ tpm.boot \in Nat /\ tpm.clock \in Nat
  <2>1. tpm.boot \in Nat /\ tpm.clock \in Nat
        /\ tpm = [clock |-> tpm.clock, boot |-> tpm.boot, pcrs |-> tpm.pcrs, counter |-> tpm.counter]
    BY <1>1 DEF TpmState
  <2>2. tpm' = [clock |-> tpm.clock, boot |-> tpm.boot + 1, pcrs |-> Q!Zero, counter |-> 0]
    BY <1>1, <2>1
  <2>3. Q!Zero \in [Q!Pcr15 -> Nat]
    BY DEF Q!Zero
  <2> QED BY <2>1, <2>2, <2>3 DEF TpmState
<1>3. NotAfter(tpm, tpm')
  BY <1>2 DEF NotAfter
<1>4. /\ PastInv' /\ Len(past') = Len(past) + 1 /\ Len(past) \in Nat
      /\ \A i \in 1 .. Len(past) : i \in 1 .. Len(past') /\ past'[i] = past[i]
  BY <1>1, <1>2, <1>3, PastGrows DEF QuoteInv
<1>5. UnderWay'
  <2>1. broker'.req = None /\ bus'.request = None
    BY <1>1 DEF Q!Idle, Q!NoWire
  <2>2. client'.sent = None
        /\ client' = [seq |-> client'.seq, sent |-> client'.sent, asked |-> client'.asked]
    BY <1>1 DEF QuoteInv, UnderWay
  <2>3. /\ broker' = [seq |-> broker'.seq, failed |-> broker'.failed, req |-> broker'.req,
                      got |-> broker'.got, counter |-> broker'.counter]
        /\ bus' = [request |-> bus'.request, response |-> bus'.response]
    BY <1>1 DEF Q!Idle, Q!NoWire
  <2> QED BY <2>1, <2>2, <2>3 DEF UnderWay
<1>6. Answered'
  BY <1>1 DEF Answered, Q!NoWire
<1>7. Quoted'
  BY <1>1, <1>4 DEF QuoteInv, Quoted
<1> QED BY <1>4, <1>5, <1>6, <1>7 DEF QuoteInv

LEMMA SendInv ==
    ASSUME QuoteInv, NEW op, NEW extra, Q!Send(op, extra) \/ Q!SendAgain PROVE QuoteInv'
<1>1. UNCHANGED <<tpm, broker, answers, past, quotes>>
  BY DEF Q!Send, Q!SendAgain
<1>2. PastInv' /\ \A v, d, i : Together(v, d, i) => Together(v, d, i)'
  BY <1>1, PastStays
<1>3. tpm.clock + Window \in Nat
  BY TimeAssumption DEF QuoteInv, PastInv, TpmState
<1>4. /\ bus'.response = bus.response
      /\ bus' = [request |-> bus'.request, response |-> bus'.response]
      /\ client' = [seq |-> client'.seq, sent |-> client'.sent, asked |-> client'.asked]
      /\ Message(bus'.request)
      /\ client'.sent # None => Message(client'.sent)
  <2>1. CASE Q!Send(op, extra)
    <3> DEFINE r == [op |-> op, extra |-> extra, seq |-> client.seq, deadline |-> tpm.clock + Window]
    <3>1. bus' = [bus EXCEPT !.request = r] /\ client' = [client EXCEPT !.sent = r, !.asked = @ + 1]
      BY <2>1 DEF Q!Send
    <3>2. Message(r)
      BY <1>3 DEF Message
    <3> HIDE DEF r
    <3> QED BY <3>1, <3>2 DEF QuoteInv, UnderWay
  <2>2. CASE Q!SendAgain
    BY <2>2 DEF Q!SendAgain, QuoteInv, UnderWay
  <2> QED BY <2>1, <2>2
<1>5. UnderWay'
  BY <1>1, <1>2, <1>4 DEF QuoteInv, UnderWay, Message
<1>6. Answered' /\ Quoted'
  BY <1>1, <1>2, <1>4 DEF QuoteInv, Answered, Quoted
<1> QED BY <1>2, <1>5, <1>6 DEF QuoteInv

LEMMA DecodeResponseInv == ASSUME QuoteInv, Q!DecodeResponse PROVE QuoteInv'
<1>1. /\ UNCHANGED <<tpm, broker, past, quotes>> /\ bus.response # None
      /\ bus' = [bus EXCEPT !.response = None]
      /\ client' = [client EXCEPT !.seq = @ + 1, !.sent = None] \/ client' = client
      /\ \/ answers' = answers
         \/ bus.response.op \in Reads /\ answers' = answers \cup {bus.response}
  BY DEF Q!DecodeResponse, Reads
<1>2. PastInv' /\ \A v, d, i : Together(v, d, i) => Together(v, d, i)'
  BY <1>1, PastStays
<1>3. /\ bus'.request = bus.request /\ bus'.response = None
      /\ bus' = [request |-> bus'.request, response |-> bus'.response]
      /\ client'.sent = None \/ client'.sent = client.sent
      /\ client' = [seq |-> client'.seq, sent |-> client'.sent, asked |-> client'.asked]
  BY <1>1 DEF QuoteInv, UnderWay
<1>4. UnderWay'
  BY <1>1, <1>2, <1>3 DEF QuoteInv, UnderWay, Message
<1>5. Answered' /\ Quoted'
  BY <1>1, <1>2, <1>3 DEF QuoteInv, Answered, Quoted
<1> QED BY <1>2, <1>4, <1>5 DEF QuoteInv

(* A step of the broker that changes what it has read and perhaps answers.  *)
LEMMA BrokerStep ==
    ASSUME QuoteInv, UNCHANGED <<tpm, past, client, answers, quotes>>,
           UnderWay', bus'.response # None /\ bus'.response.op \in Reads =>
                        \/ bus'.response = bus.response
                        \/ \E i \in 1 .. Len(past) :
                             Together(bus'.response.extra, bus'.response.deadline, i)
    PROVE  QuoteInv'
<1>1. PastInv' /\ \A v, d, i : Together(v, d, i) => Together(v, d, i)'
  BY PastStays
<1>2. Quoted'
  BY DEF QuoteInv, Quoted
<1>3. Answered'
  BY <1>1 DEF QuoteInv, Answered
<1> QED BY <1>1, <1>2, <1>3 DEF QuoteInv

LEMMA HandleInv == ASSUME QuoteInv, Q!Handle PROVE QuoteInv'
<1>1. /\ UNCHANGED <<tpm, past, client, answers, quotes>> /\ bus.request # None
      /\ bus' = [bus EXCEPT !.request = None]
  BY DEF Q!Handle
<1>2. /\ bus'.request = None /\ bus'.response = bus.response
      /\ bus' = [request |-> bus'.request, response |-> bus'.response]
      /\ Message(bus.request) /\ tpm.clock \in Nat
  BY <1>1 DEF QuoteInv, UnderWay, PastInv, TpmState
<1>3. \/ broker' = [broker EXCEPT !.req = bus.request, !.got = <<>>, !.counter = None]
         /\ bus.request.deadline - tpm.clock <= Window
      \/ broker' = [broker EXCEPT !.failed = TRUE, !.req = None]
  BY DEF Q!Handle, Q!Poison
<1>4. /\ broker' = [seq |-> broker'.seq, failed |-> broker'.failed, req |-> broker'.req,
                    got |-> broker'.got, counter |-> broker'.counter]
      /\ \/ broker'.req = None
         \/ /\ broker'.req = bus.request /\ broker'.counter = None /\ broker'.got = <<>>
            /\ bus.request.deadline - tpm.clock <= Window
  BY <1>3 DEF QuoteInv, UnderWay
<1>5. bus.request.deadline - tpm.clock <= Window => bus.request.deadline - Window <= tpm.clock
  BY <1>2, TimeAssumption DEF Message
<1>6. UnderWay'
  BY <1>1, <1>2, <1>4, <1>5 DEF QuoteInv, UnderWay, Message
<1> QED BY <1>1, <1>2, <1>6, BrokerStep

LEMMA ReadPartInv == ASSUME QuoteInv, NEW s, Q!ReadPart(s) PROVE QuoteInv'
<1>1. /\ UNCHANGED <<tpm, past, client, answers, quotes>> /\ bus' = bus
      /\ broker.req # None /\ broker.req.op \in Reads
  BY DEF Q!ReadPart, Reads
<1>2. PastInv /\ UnderWay /\ tpm.clock \in Nat /\ tpm.counter \in Nat
      /\ Len(past) \in 1 .. Len(past) /\ past[Len(past)] = tpm
  BY DEF QuoteInv, PastInv, TpmState
<1>3. \A v, d, i : Together(v, d, i) => Together(v, d, i)'
  BY <1>1, PastStays
<1>4. CASE broker' = [broker EXCEPT !.failed = TRUE, !.req = None]
  <2>1. broker'.req = None
        /\ broker' = [seq |-> broker'.seq, failed |-> broker'.failed, req |-> broker'.req,
                    got |-> broker'.got, counter |-> broker'.counter]
    BY <1>2, <1>4 DEF UnderWay
  <2>2. UnderWay'
    BY <1>1, <1>2, <2>1 DEF UnderWay, Message
  <2> QED BY <1>1, <2>2, BrokerStep
<1>5. CASE Q!InTime(broker.req) /\ Q!SameCounter
  <2> DEFINE got == [p \in DOMAIN broker.got \cup s |->
                        IF p \in DOMAIN broker.got THEN broker.got[p] ELSE tpm.pcrs[p]]
  <2>1. broker' = [broker EXCEPT !.got = got, !.counter = tpm.counter]
    BY <1>5 DEF Q!ReadPart
  <2>2. /\ broker'.req = broker.req /\ broker'.got = got /\ broker'.counter = tpm.counter
        /\ broker' = [seq |-> broker'.seq, failed |-> broker'.failed, req |-> broker'.req,
                    got |-> broker'.got, counter |-> broker'.counter]
    BY <1>2, <2>1 DEF UnderWay
  <2>3. \A p \in DOMAIN broker.got : broker.got[p] = tpm.pcrs[p]
    <3>1. CASE broker.got = <<>>
      BY <3>1
    <3>2. CASE broker.got # <<>>
      <4>1. PICK i \in 1 .. Len(past) : /\ past[i].counter = broker.counter
                                        /\ Together(broker.got, broker.req.deadline, i)
        BY <1>1, <1>2, <3>2 DEF UnderWay
      <4>2. broker.counter \in Nat
        BY <1>1, <1>2, <3>2 DEF UnderWay
      <4>3. broker.counter = tpm.counter
        BY <1>5, <4>2, NoneAssumption DEF Q!SameCounter
      <4>4. NotAfter(past[i], tpm)
        BY <1>2 DEF PastInv
      <4>5. past[i].pcrs = tpm.pcrs
        BY <4>1, <4>3, <4>4 DEF NotAfter, Together
      <4> QED BY <4>1, <4>5 DEF Together
    <3> QED BY <3>1, <3>2
  <2>4. \A p \in DOMAIN got : got[p] = tpm.pcrs[p]
    BY <2>3
  <2> HIDE DEF got
  <2>5. Together(got, broker.req.deadline, Len(past))
    <3>1. broker.req.deadline - Window <= tpm.clock /\ tpm.clock < broker.req.deadline
      BY <1>1, <1>2, <1>5 DEF UnderWay, Q!InTime
    <3> QED BY <1>2, <2>4, <3>1 DEF Together
  <2>6. Together(broker.got, broker.req.deadline, Len(past))'
    BY <1>1, <2>2, <2>5 DEF Together
  <2>7. UnderWay'
    BY <1>1, <1>2, <2>2, <2>6 DEF UnderWay, Message
  <2> QED BY <1>1, <2>7, BrokerStep
<1> QED BY <1>4, <1>5 DEF Q!ReadPart, Q!Poison

LEMMA BrokerQuoteInv == ASSUME QuoteInv, Q!Quote PROVE QuoteInv'
<1>1. /\ UNCHANGED <<tpm, past, client, answers>> /\ bus' = bus
      /\ broker.req # None /\ broker.req.op \in {"quote14", "quote15"}
  BY DEF Q!Quote
<1>2. PastInv /\ UnderWay /\ Len(past) \in 1 .. Len(past) /\ past[Len(past)] = tpm
  BY DEF QuoteInv, PastInv
<1>3. PastInv' /\ \A v, d, i : Together(v, d, i) => Together(v, d, i)'
  BY <1>1, PastStays
<1>4. /\ broker' = [seq |-> broker'.seq, failed |-> broker'.failed, req |-> broker'.req,
                    got |-> broker'.got, counter |-> broker'.counter]
      /\ broker'.req \in {None, broker.req}
  BY <1>2 DEF Q!Quote, Q!Poison, UnderWay
<1>5. UnderWay'
  BY <1>1, <1>2, <1>4 DEF UnderWay, Message, Reads
<1>6. Answered'
  BY <1>1, <1>3 DEF QuoteInv, Answered
<1>7. Quoted'
  <2>1. CASE quotes' = quotes
    BY <1>1, <2>1 DEF QuoteInv, Quoted
  <2>2. CASE quotes' # quotes
    <3> DEFINE q == [op |-> broker.req.op, extra |-> broker.req.extra, clock |-> tpm.clock,
                     boot |-> tpm.boot, when |-> Len(past),
                     pcrs |-> [p \in Q!Selection(broker.req.op) |-> tpm.pcrs[p]]]
    <3>1. quotes' = quotes \cup {q}
      BY <2>2 DEF Q!Quote
    <3>2. q.when = Len(past) /\ q.clock = tpm.clock /\ q.boot = tpm.boot
          /\ q.pcrs["base"] = tpm.pcrs["base"]
      BY DEF Q!Selection, Q!Pcr14, Q!Pcr15
    <3> HIDE DEF q
    <3> QED BY <1>1, <1>2, <3>1, <3>2 DEF QuoteInv, Quoted
  <2> QED BY <2>1, <2>2
<1> QED BY <1>3, <1>5, <1>6, <1>7 DEF QuoteInv

LEMMA RespondInv == ASSUME QuoteInv, Q!Respond PROVE QuoteInv'
<1>1. /\ UNCHANGED <<tpm, past, client, answers, quotes>>
      /\ broker.req # None /\ broker.got # <<>>
      /\ \/ bus' = bus
         \/ bus' = [bus EXCEPT !.response = [broker.req EXCEPT !.extra = broker.got]]
  BY DEF Q!Respond
<1>2. UnderWay /\ Message(broker.req)
  BY <1>1 DEF QuoteInv, UnderWay
<1>3. /\ broker' = [seq |-> broker'.seq, failed |-> broker'.failed, req |-> broker'.req,
                    got |-> broker'.got, counter |-> broker'.counter]
      /\ broker'.req = None
  BY <1>2 DEF Q!Respond, Q!Poison, UnderWay
<1>4. bus'.request = bus.request /\ bus' = [request |-> bus'.request, response |-> bus'.response]
  BY <1>1, <1>2 DEF UnderWay
<1>5. UnderWay'
  BY <1>1, <1>2, <1>3, <1>4 DEF UnderWay, Message
<1>6. bus'.response.op \in Reads =>
                        \/ bus'.response = bus.response
                        \/ \E i \in 1 .. Len(past) :
                             Together(bus'.response.extra, bus'.response.deadline, i)
  <2>1. CASE bus' = bus
    BY <2>1
  <2>2. CASE bus' = [bus EXCEPT !.response = [broker.req EXCEPT !.extra = broker.got]]
    <3>1. bus'.response = [broker.req EXCEPT !.extra = broker.got]
      BY <1>2, <2>2 DEF UnderWay
    <3>2. /\ bus'.response.op = broker.req.op /\ bus'.response.extra = broker.got
          /\ bus'.response.deadline = broker.req.deadline
      BY <1>2, <3>1 DEF Message
    <3> QED BY <1>1, <1>2, <3>2 DEF UnderWay
  <2> QED BY <1>1, <2>1, <2>2
<1> QED BY <1>1, <1>5, <1>6, BrokerStep

LEMMA QuoteNext == ASSUME QuoteInv, [Q!Next]_quote PROVE QuoteInv'
<1>1. CASE UNCHANGED quote
  <2>1. UNCHANGED <<tpm, past, client, answers, quotes, broker, bus>>
    BY <1>1 DEF quote
  <2>2. \A v, d, i : Together(v, d, i) => Together(v, d, i)'
    BY <2>1, PastStays
  <2>3. UnderWay'
    BY <2>1, <2>2 DEF QuoteInv, UnderWay, Message
  <2> QED BY <2>1, <2>3, BrokerStep
<1> QED BY <1>1, SendInv, DecodeResponseInv, HandleInv, ReadPartInv, BrokerQuoteInv, RespondInv,
           TickInv, RestartInv, ExtendPcrInv DEF Q!Next

LEMMA QuoteInit == Q!Init => QuoteInv
<1> SUFFICES ASSUME Q!Init PROVE QuoteInv
  OBVIOUS
<1>1. tpm \in TpmState
  BY DEF Q!Init, TpmState, Q!Zero
<1>2. past = <<tpm>>
  BY DEF Q!Init
<1>3. past \in Seq(TpmState) /\ Len(past) = 1 /\ past[1] = tpm /\ past # <<>>
  BY <1>1, <1>2
<1>4. NotAfter(tpm, tpm)
  BY <1>1, NotAfterReflexive
<1>5. PastInv
  BY <1>1, <1>3, <1>4 DEF PastInv
<1>6. UnderWay
  BY DEF Q!Init, UnderWay, Q!Idle, Q!NoWire
<1>7. Answered /\ Quoted
  BY DEF Q!Init, Answered, Quoted, Q!NoWire
<1> QED BY <1>5, <1>6, <1>7 DEF QuoteInv

\* A behaviour of the hand-over or of the broker keeps its invariant.
MeasurementHolds ==
    /\ part = "resume" => ResumeInv
    /\ part = "quote" => QuoteInv

(* A boot gives authority once, to a stage 2 that stands where its frame was *)
(* sealed; an answer of the broker is of one instant; the quotes a verifier  *)
(* takes together are of one boot that never left the baseline: for every    *)
(* set of bindings and connections, any clocks, extensions, losses, repeats  *)
(* and restarts.                                                             *)
THEOREM MeasurementIsSound == AllSpec => []MeasurementsHoldTogether
<1>1. AllInit => MeasurementHolds
  BY ResumeInit, QuoteInit DEF AllInit, MeasurementHolds
<1>2. MeasurementHolds /\ [AllNext]_all => MeasurementHolds'
  BY StepsOfParts, ResumeNext, QuoteNext DEF MeasurementHolds
<1>3. MeasurementHolds => MeasurementsHoldTogether
  BY ResumeProperty, QuoteProperty DEF MeasurementHolds, MeasurementsHoldTogether
<1> QED BY <1>1, <1>2, <1>3, PTL DEF AllSpec
-----------------------------------------------------------------------------
(* The channel.  The frames of one end stand in one order, by sequence and   *)
(* position; what is in flight goes from where the reader stands to where    *)
(* the writer stands, a repeated frame beside the one it repeats.            *)

IsChan(c) == c = [closed |-> c.closed, rx |-> c.rx, tx |-> c.tx, train |-> c.train,
                  pending |-> c.pending, out |-> c.out, got |-> c.got, ack |-> c.ack,
                  ackQueued |-> c.ackQueued, ready |-> c.ready, deadline |-> c.deadline,
                  overall |-> c.overall, said |-> c.said]

\* Where a frame begins and where it ends: sequence number, position, and how many
\* messages of its writer are complete there.
Point(seq, index, whole) == <<seq, index, whole>>
Begins(f) == Point(f.seq, f.index, IF f.kind = "ack" THEN f.said ELSE f.said - 1)
Finishes(f) == IF f.index = f.count - 1 THEN Point(f.seq + 1, 0, f.said)
               ELSE Point(f.seq, f.index + 1, f.said - 1)

\* Where a reader stands, and where a writer does.
TakenOf(c, d) == Len(d) + (IF c.ready # None THEN 1 ELSE 0)
ReaderOf(c, d) == Point(c.rx, c.train, TakenOf(c, d))
\* And where a reader gets with a frame.
NextRx(c, f) == IF f.index = f.count - 1 THEN c.rx + 1 ELSE c.rx
NextTrain(c, f) == IF f.index = f.count - 1 THEN 0 ELSE c.train + 1
NextTaken(c, d, f) == IF f.kind # "ack" /\ f.index = f.count - 1 THEN TakenOf(c, d) + 1
                      ELSE TakenOf(c, d)

\* What is ready with a chunk, and the acknowledgement of it.
Whole(f) == IF f.index = f.count - 1 THEN f.msg ELSE None
AckOf(c, f, got) == [kind |-> "ack", msg |-> f.msg, seq |-> c.tx, index |-> 0, count |-> 1,
                     acks |-> [seq |-> f.seq, msg |-> f.msg, so_far |-> Len(got)], said |-> c.said]

MidTrain(c) == c.out # None /\ c.out.index + 1 < Chunks[c.out.msg]
WriterOf(c) == IF c.pending # None THEN Begins(c.pending)
               ELSE IF MidTrain(c) THEN Point(c.tx, c.out.index + 1, c.said - 1)
               ELSE Point(c.tx, 0, c.said)

\* A point is before another one, or the same.
Before(x, y) == \/ x[1] < y[1]
                \/ x[1] = y[1] /\ x[2] < y[2]
                \/ x = y

\* A frame says what its writer was given to say: s.
Truthful(s, f) ==
    /\ f \in Frames /\ f.index < f.count /\ f.said <= Len(s)
    /\ f.kind # "chunk" => f.index = 0 /\ f.count = 1
    /\ f.kind # "ack" => f.said >= 1 /\ f.msg = s[f.said]
    /\ f.kind = "chunk" => f.count = Chunks[f.msg]
    /\ f.kind = "ack" => f.acks \in Acks

\* What an open end c knows of what it was given to say: s.
Talking(c, s) ==
    /\ c.tx \in Nat /\ c.said = Len(s)
    /\ c.pending # None =>
          /\ Truthful(s, c.pending) /\ c.pending.seq = c.tx /\ c.pending.said = c.said
          /\ c.pending.kind = "ack" <=> c.ackQueued
          /\ c.pending.kind = "chunk" <=> c.out # None
    /\ c.pending # None /\ c.out # None =>
          c.pending.index = c.out.index /\ c.pending.msg = c.out.msg /\ c.ack.seq = c.tx
    /\ c.out # None =>
          /\ c.said >= 1 /\ c.out.msg = s[c.said] /\ c.out.index \in Nat /\ c.ack.seq \in Nat
          /\ c.out.index < Chunks[c.out.msg]
          /\ c.ack = [seq |-> c.ack.seq, msg |-> c.out.msg, so_far |-> c.out.index + 1]
    /\ c.out # None /\ c.pending = None => c.tx = c.ack.seq + (IF MidTrain(c) THEN 0 ELSE 1)
    /\ c.out = None => c.ack = None

\* And of what it hears.
Listening(c) ==
    /\ c.rx \in Nat /\ c.train \in Nat /\ c.got \in Seq(Words) /\ c.ackQueued \in BOOLEAN
    /\ c.ackQueued => c.pending # None
    /\ c.out # None => c.got = <<>> /\ c.ready = None /\ ~c.ackQueued
    /\ c.ready = None => Len(c.got) = c.train
    /\ c.ready # None => c.train = 0 /\ (~c.ackQueued => c.got = <<>>)

\* It never waits without a deadline.
Timed(c) == c.out # None \/ c.got # <<>> \/ c.pending # None => c.deadline # None

\* Who acknowledges the last chunk of a train has read it.
AckTrue(rx, f) == f.kind = "ack" /\ f.acks.so_far = Chunks[f.acks.msg] =>
                      f.acks.seq \in Nat /\ f.acks.seq < rx
AcksTrue(c, w) == /\ \A i \in 1 .. Len(w) : AckTrue(c.rx, w[i])
                  /\ c.pending # None => AckTrue(c.rx, c.pending)

\* What is in flight from a writer that said s to a reader at r.
InFlight(w, s, r) ==
    /\ \A i \in 1 .. Len(w) : Truthful(s, w[i])
    /\ \A i \in 1 .. Len(w) - 1 : w[i + 1] = w[i] \/ Begins(w[i + 1]) = Finishes(w[i])
    /\ w # <<>> => r \in {Begins(w[1]), Finishes(w[1])}

\* And how it meets the writer, at x.
Meets(w, x, r) ==
    /\ w = <<>> => r = x
    /\ w # <<>> => Finishes(w[Len(w)]) = x
    /\ \A i \in 1 .. Len(w) : Before(Finishes(w[i]), x)

\* Who has let go of a train has it arrived.
LetGo(c, s, taken) == c.out = None /\ s # <<>> /\ s[Len(s)] \in Responses => taken = Len(s)

\* What was delivered, and is ready to be, is what was said.
Delivered(d, s) == Len(d) <= Len(s) /\ \A i \in 1 .. Len(d) : d[i] = s[i]
Arrived(c, d, s) == c.ready # None => Len(d) < Len(s) /\ c.ready = s[Len(d) + 1]

\* One end of the channel (its state, what it has delivered, what it has in flight and
\* what it was given to say), and the other (its state, deliveries and sayings).
EndIs(c, d, w, s, cp, dp, sp) ==
    /\ IsChan(c) /\ c.closed \in BOOLEAN
    /\ Delivered(d, sp)
    /\ ~c.closed => /\ Talking(c, s) /\ Listening(c) /\ Timed(c)
                    /\ AcksTrue(c, w) /\ Arrived(c, d, sp)
    /\ ~cp.closed => InFlight(w, s, ReaderOf(cp, dp))
    /\ ~c.closed /\ ~cp.closed => /\ Meets(w, WriterOf(c), ReaderOf(cp, dp))
                                  /\ LetGo(c, s, TakenOf(cp, dp))

EndInv(e) ==
    EndIs(chan[e], delivered[e], wire[e], sent[e],
          chan[M!Other(e)], delivered[M!Other(e)], sent[M!Other(e)])

ChannelInv ==
    /\ now \in Nat
    /\ sent \in [M!Ends -> Seq(Words)] /\ delivered \in [M!Ends -> Seq(Words)]
    /\ wire \in [M!Ends -> Seq(Frames)]
    /\ chan = [e \in M!Ends |-> chan[e]]
    /\ \A e \in M!Ends : EndInv(e)


LEMMA Points ==
    ASSUME NEW a, NEW b, NEW c, NEW x, NEW y, NEW z
    PROVE  /\ Point(a, b, c)[1] = a /\ Point(a, b, c)[2] = b
           /\ Point(a, b, c) = Point(x, y, z) <=> a = x /\ b = y /\ c = z
<1>1. Point(a, b, c)[1] = a /\ Point(a, b, c)[2] = b /\ Point(a, b, c)[3] = c
  BY DEF Point
<1>2. Point(x, y, z)[1] = x /\ Point(x, y, z)[2] = y /\ Point(x, y, z)[3] = z
  BY DEF Point
<1>3. Point(a, b, c) = Point(x, y, z) => a = x /\ b = y /\ c = z
  BY <1>1, <1>2
<1>4. a = x /\ b = y /\ c = z => Point(a, b, c) = Point(x, y, z)
  OBVIOUS
<1> QED BY <1>1, <1>3, <1>4

LEMMA Others ==
    ASSUME NEW e \in M!Ends
    PROVE  /\ M!Other(e) \in M!Ends /\ M!Other(e) # e /\ M!Other(M!Other(e)) = e
           /\ \A x \in M!Ends : x = e \/ x = M!Other(e)
  BY EndsAssumption DEF M!Ends, M!Other

LEMMA FrameFields ==
    ASSUME NEW f \in Frames
    PROVE  /\ f.kind \in {"plain", "chunk", "ack"} /\ f.msg \in Words /\ f.seq \in Nat
           /\ f.index \in Nat /\ f.count \in Nat /\ f.said \in Nat
  BY DEF Frames

(* Where a frame ends, and that it is after where it begins.                *)
LEMMA FrameEnds ==
    ASSUME NEW s, NEW f, Truthful(s, f)
    PROVE  Finishes(f)[1] \in Nat /\ Finishes(f)[2] \in Nat
<1>1. f.seq \in Nat /\ f.index \in Nat /\ f.count \in Nat /\ f.said \in Nat
  BY FrameFields DEF Truthful
<1>2. \/ Finishes(f)[1] = f.seq + 1 /\ Finishes(f)[2] = 0
      \/ Finishes(f)[1] = f.seq /\ Finishes(f)[2] = f.index + 1
  BY Points DEF Finishes
<1> QED BY <1>1, <1>2

LEMMA FrameMoves ==
    ASSUME NEW s, NEW f, Truthful(s, f), NEW x, Before(x, Begins(f)), x[1] \in Nat, x[2] \in Nat
    PROVE  Before(x, Finishes(f)) /\ Begins(f) # Finishes(f)
<1>1. f.seq \in Nat /\ f.index \in Nat /\ f.count \in Nat /\ f.said \in Nat
  BY FrameFields DEF Truthful
<1>2. Begins(f)[1] = f.seq /\ Begins(f)[2] = f.index
  BY Points DEF Begins
<1>3. \/ Finishes(f)[1] = f.seq + 1
      \/ Finishes(f)[1] = f.seq /\ Finishes(f)[2] = f.index + 1
  BY Points DEF Finishes
<1>4. Begins(f) # Finishes(f)
  BY <1>1, <1>2, <1>3
<1>5. CASE x = Begins(f)
  BY <1>1, <1>2, <1>3, <1>5 DEF Before
<1>6. CASE x[1] = f.seq /\ x[2] < f.index
  <2>1. Finishes(f)[1] = f.seq + 1 => x[1] < Finishes(f)[1]
    BY <1>1, <1>6
  <2>2. Finishes(f)[1] = f.seq /\ Finishes(f)[2] = f.index + 1 =>
          x[1] = Finishes(f)[1] /\ x[2] < Finishes(f)[2]
    BY <1>1, <1>6
  <2> QED BY <1>3, <1>4, <2>1, <2>2 DEF Before
<1>7. CASE x[1] < f.seq
  BY <1>1, <1>3, <1>4, <1>7 DEF Before
<1> QED BY <1>2, <1>4, <1>5, <1>6, <1>7 DEF Before

(* Sequences of frames.                                                     *)
LEMMA Tails ==
    ASSUME NEW w \in Seq(Frames), w # <<>>
    PROVE  /\ Tail(w) \in Seq(Frames) /\ Len(w) \in Nat /\ Len(w) >= 1 /\ Len(Tail(w)) = Len(w) - 1
           /\ \A i \in 1 .. Len(Tail(w)) : i + 1 \in 1 .. Len(w) /\ Tail(w)[i] = w[i + 1]
           /\ Tail(w) = <<>> <=> Len(w) = 1
           /\ Head(w) = w[1]
<1>1. Tail(w) \in Seq(Frames) /\ Len(w) \in Nat /\ Len(w) >= 1 /\ Len(Tail(w)) = Len(w) - 1
  OBVIOUS
<1>2. \A i \in 1 .. Len(Tail(w)) : i + 1 \in 1 .. Len(w) /\ Tail(w)[i] = w[i + 1]
  BY <1>1
<1>3. Tail(w) = <<>> <=> Len(w) = 1
  BY <1>1
<1>4. Head(w) = w[1]
  OBVIOUS
<1> QED BY <1>1, <1>2, <1>3, <1>4

LEMMA Appends ==
    ASSUME NEW S, NEW w \in Seq(S), NEW f \in S
    PROVE  /\ Append(w, f) \in Seq(S) /\ Append(w, f) # <<>> /\ Len(w) \in Nat
           /\ Len(Append(w, f)) = Len(w) + 1 /\ Append(w, f)[Len(w) + 1] = f
           /\ \A i \in 1 .. Len(w) : Append(w, f)[i] = w[i]
           /\ w = <<>> <=> Len(w) = 0
  OBVIOUS

(* Reading the first frame.                                                 *)
LEMMA Popped ==
    ASSUME NEW w \in Seq(Frames), NEW s, NEW r, NEW x, w # <<>>, InFlight(w, s, r)
    PROVE  /\ InFlight(Tail(w), s, Finishes(w[1]))
           /\ Meets(w, x, r) => Meets(Tail(w), x, Finishes(w[1]))
<1>1. /\ Len(w) \in Nat /\ Len(w) >= 1 /\ Len(Tail(w)) = Len(w) - 1
      /\ \A i \in 1 .. Len(Tail(w)) : i + 1 \in 1 .. Len(w) /\ Tail(w)[i] = w[i + 1]
      /\ Tail(w) = <<>> <=> Len(w) = 1
  BY Tails
<1>2. \A i \in 1 .. Len(Tail(w)) : Truthful(s, Tail(w)[i])
  BY <1>1 DEF InFlight
<1>3. ASSUME NEW i \in 1 .. Len(Tail(w)) - 1
      PROVE  Tail(w)[i + 1] = Tail(w)[i] \/ Begins(Tail(w)[i + 1]) = Finishes(Tail(w)[i])
  <2>1. i \in 1 .. Len(Tail(w)) /\ i + 1 \in 1 .. Len(Tail(w)) /\ i + 1 \in 1 .. Len(w) - 1
    BY <1>1
  <2>2. Tail(w)[i] = w[i + 1] /\ Tail(w)[i + 1] = w[i + 1 + 1]
    BY <1>1, <2>1
  <2> QED BY <2>1, <2>2 DEF InFlight
<1>4. Tail(w) # <<>> => Finishes(w[1]) \in {Begins(Tail(w)[1]), Finishes(Tail(w)[1])}
  <2> SUFFICES ASSUME Tail(w) # <<>>
               PROVE  Finishes(w[1]) \in {Begins(Tail(w)[1]), Finishes(Tail(w)[1])}
    OBVIOUS
  <2>1. 1 \in 1 .. Len(w) - 1 /\ 1 \in 1 .. Len(Tail(w)) /\ Tail(w)[1] = w[1 + 1]
    BY <1>1
  <2>2. w[1 + 1] = w[1] \/ Begins(w[1 + 1]) = Finishes(w[1])
    BY <2>1 DEF InFlight
  <2> QED BY <2>1, <2>2
<1>5. InFlight(Tail(w), s, Finishes(w[1]))
  BY <1>2, <1>3, <1>4 DEF InFlight
<1>6. ASSUME Meets(w, x, r) PROVE Meets(Tail(w), x, Finishes(w[1]))
  <2>1. Tail(w) = <<>> => Finishes(w[1]) = x
    BY <1>1, <1>6 DEF Meets
  <2>2. Tail(w) # <<>> => Finishes(Tail(w)[Len(Tail(w))]) = x
    <3>1. Tail(w) # <<>> => Len(Tail(w)) \in 1 .. Len(Tail(w)) /\ Len(Tail(w)) + 1 = Len(w)
      BY <1>1
    <3> QED BY <1>1, <1>6, <3>1 DEF Meets
  <2>3. \A i \in 1 .. Len(Tail(w)) : Before(Finishes(Tail(w)[i]), x)
    BY <1>1, <1>6 DEF Meets
  <2> QED BY <2>1, <2>2, <2>3 DEF Meets
<1> QED BY <1>5, <1>6

(* Writing a frame after the last.                                          *)
LEMMA Pushed ==
    ASSUME NEW w \in Seq(Frames), NEW s, NEW r, NEW f, InFlight(w, s, r), Truthful(s, f),
           Meets(w, Begins(f), r)
    PROVE  InFlight(Append(w, f), s, r) /\ Meets(Append(w, f), Finishes(f), r)
<1> DEFINE u == Append(w, f)
<1>0. f \in Frames
  BY DEF Truthful
<1>1. /\ Len(w) \in Nat /\ Len(u) = Len(w) + 1 /\ u[Len(w) + 1] = f /\ u # <<>>
      /\ \A i \in 1 .. Len(w) : u[i] = w[i]
      /\ w = <<>> <=> Len(w) = 0
  BY <1>0, Appends
<1> HIDE DEF u
<1>2. \A i \in 1 .. Len(u) : i \in 1 .. Len(w) \/ i = Len(w) + 1
  BY <1>1
<1>3. \A i \in 1 .. Len(u) : Truthful(s, u[i])
  BY <1>1, <1>2 DEF InFlight
<1>4. ASSUME NEW i \in 1 .. Len(u) - 1
      PROVE  u[i + 1] = u[i] \/ Begins(u[i + 1]) = Finishes(u[i])
  <2>1. i \in 1 .. Len(w)
    BY <1>1
  <2>2. CASE i = Len(w)
    <3>1. w # <<>> /\ Finishes(w[i]) = Begins(f)
      BY <1>1, <2>1, <2>2 DEF Meets
    <3> QED BY <1>1, <2>1, <2>2, <3>1
  <2>3. CASE i # Len(w)
    <3>1. i + 1 \in 1 .. Len(w) /\ i \in 1 .. Len(w) - 1
      BY <1>1, <2>1, <2>3
    <3> QED BY <1>1, <2>1, <3>1 DEF InFlight
  <2> QED BY <2>2, <2>3
<1>5. r \in {Begins(u[1]), Finishes(u[1])}
  <2>1. CASE w = <<>>
    BY <1>1, <2>1 DEF Meets
  <2>2. CASE w # <<>>
    BY <1>1, <2>2 DEF InFlight
  <2> QED BY <2>1, <2>2
<1>6. InFlight(u, s, r)
  BY <1>3, <1>4, <1>5 DEF InFlight
<1>7. \A i \in 1 .. Len(u) : Before(Finishes(u[i]), Finishes(f))
  <2>1. Before(Finishes(f), Finishes(f))
    BY DEF Before
  <2>2. ASSUME NEW i \in 1 .. Len(w) PROVE Before(Finishes(w[i]), Finishes(f))
    <3>1. Truthful(s, w[i]) /\ Before(Finishes(w[i]), Begins(f))
      BY DEF InFlight, Meets
    <3> QED BY <3>1, FrameEnds, FrameMoves
  <2> QED BY <1>1, <1>2, <2>1, <2>2
<1>8. Meets(u, Finishes(f), r)
  BY <1>1, <1>7 DEF Meets
<1> QED BY <1>6, <1>8 DEF u

(* Repeating the last one.                                                  *)
LEMMA Repeated ==
    ASSUME NEW w \in Seq(Frames), NEW s, NEW r, NEW x, w # <<>>, InFlight(w, s, r)
    PROVE  /\ InFlight(Append(w, w[Len(w)]), s, r)
           /\ Meets(w, x, r) => Meets(Append(w, w[Len(w)]), x, r)
<1> DEFINE f == w[Len(w)]
           u == Append(w, f)
<1>0. f \in Frames /\ Len(w) \in 1 .. Len(w)
  OBVIOUS
<1>1. /\ Len(w) \in Nat /\ Len(u) = Len(w) + 1 /\ u[Len(w) + 1] = f /\ u # <<>>
      /\ \A i \in 1 .. Len(w) : u[i] = w[i]
      /\ w = <<>> <=> Len(w) = 0
  BY <1>0, Appends
<1>2. f = w[Len(w)] /\ u = Append(w, w[Len(w)])
  OBVIOUS
<1> HIDE DEF u, f
<1>3. \A i \in 1 .. Len(u) : i \in 1 .. Len(w) \/ i = Len(w) + 1
  BY <1>1
<1>4. \A i \in 1 .. Len(u) : Truthful(s, u[i])
  BY <1>0, <1>1, <1>2, <1>3 DEF InFlight
<1>5. ASSUME NEW i \in 1 .. Len(u) - 1
      PROVE  u[i + 1] = u[i] \/ Begins(u[i + 1]) = Finishes(u[i])
  <2>1. i \in 1 .. Len(w)
    BY <1>1
  <2>2. CASE i = Len(w)
    BY <1>1, <1>2, <2>1, <2>2
  <2>3. CASE i # Len(w)
    <3>1. i + 1 \in 1 .. Len(w) /\ i \in 1 .. Len(w) - 1
      BY <1>1, <2>1, <2>3
    <3> QED BY <1>1, <2>1, <3>1 DEF InFlight
  <2> QED BY <2>2, <2>3
<1>6. r \in {Begins(u[1]), Finishes(u[1])}
  BY <1>0, <1>1 DEF InFlight
<1>7. InFlight(u, s, r)
  BY <1>4, <1>5, <1>6 DEF InFlight
<1>8. ASSUME Meets(w, x, r) PROVE Meets(u, x, r)
  <2>1. Finishes(u[Len(u)]) = x
    BY <1>1, <1>2, <1>8 DEF Meets
  <2>2. \A i \in 1 .. Len(u) : Before(Finishes(u[i]), x)
    BY <1>0, <1>1, <1>2, <1>3, <1>8 DEF Meets
  <2> QED BY <1>1, <2>1, <2>2 DEF Meets
<1> QED BY <1>2, <1>7, <1>8

(* A writer that is given more to say has not said anything else.           *)
LEMMA SaidMore ==
    ASSUME NEW s \in Seq(Words), NEW m \in Words
    PROVE  /\ \A f : Truthful(s, f) => Truthful(Append(s, m), f)
           /\ \A w, r : InFlight(w, s, r) => InFlight(w, Append(s, m), r)
           /\ \A d : Len(d) \in Nat /\ Delivered(d, s) => Delivered(d, Append(s, m))
           /\ \A c, d : Len(d) \in Nat /\ Arrived(c, d, s) => Arrived(c, d, Append(s, m))
<1>1. /\ Len(s) \in Nat /\ Len(Append(s, m)) = Len(s) + 1
      /\ \A i \in 1 .. Len(s) : Append(s, m)[i] = s[i]
  BY Appends
<1>2. ASSUME NEW f, Truthful(s, f) PROVE Truthful(Append(s, m), f)
  <2>1. f.said \in Nat
    BY <1>2, FrameFields DEF Truthful
  <2>2. f.said <= Len(s) + 1
    BY <1>1, <1>2, <2>1 DEF Truthful
  <2>3. f.kind # "ack" => f.said \in 1 .. Len(s)
    BY <1>1, <1>2, <2>1 DEF Truthful
  <2> QED BY <1>1, <1>2, <2>2, <2>3 DEF Truthful
<1>3. ASSUME NEW w, NEW r, InFlight(w, s, r) PROVE InFlight(w, Append(s, m), r)
  BY <1>2, <1>3 DEF InFlight
<1>4. ASSUME NEW d, Len(d) \in Nat, Delivered(d, s) PROVE Delivered(d, Append(s, m))
  BY <1>1, <1>4 DEF Delivered
<1>5. ASSUME NEW c, NEW d, Len(d) \in Nat, Arrived(c, d, s) PROVE Arrived(c, d, Append(s, m))
  <2>1. CASE c.ready = None
    BY <2>1 DEF Arrived
  <2>2. CASE c.ready # None
    <3>1. Len(d) < Len(s) /\ c.ready = s[Len(d) + 1]
      BY <1>5, <2>2 DEF Arrived
    <3>2. Len(d) + 1 \in 1 .. Len(s) /\ Len(d) < Len(s) + 1
      BY <1>1, <1>5, <3>1
    <3> QED BY <1>1, <3>1, <3>2 DEF Arrived
  <2> QED BY <2>1, <2>2
<1> QED BY <1>2, <1>3, <1>4, <1>5
(* Queueing a frame. *)
LEMMA QueuesPacket ==
    ASSUME NEW c, IsChan(c), NEW f, NEW b, b = M!Packet(c, f)
    PROVE  /\ IsChan(b)
           /\ b.closed = c.closed /\ b.rx = c.rx /\ b.tx = c.tx /\ b.train = c.train
           /\ b.out = c.out /\ b.got = c.got /\ b.ack = c.ack /\ b.ackQueued = c.ackQueued
           /\ b.ready = c.ready /\ b.overall = c.overall /\ b.said = c.said
           /\ b.pending = f
           /\ b.deadline = now + PacketTime
  BY DEF IsChan, M!Packet

(* Queueing a chunk. *)
LEMMA QueuesChunk ==
    ASSUME NEW c, IsChan(c), NEW m, NEW i, NEW b, b = M!NextChunk(c, m, i)
    PROVE  /\ IsChan(b)
           /\ b.closed = c.closed /\ b.rx = c.rx /\ b.tx = c.tx /\ b.train = c.train
           /\ b.got = c.got /\ b.ackQueued = c.ackQueued /\ b.ready = c.ready
           /\ b.overall = c.overall /\ b.said = c.said
           /\ b.pending = M!Frame(c, "chunk", m, i, Chunks[m], 0)
           /\ b.deadline = now + PacketTime
           /\ b.out = [msg |-> m, index |-> i]
           /\ b.ack = [seq |-> c.tx, msg |-> m, so_far |-> i + 1]
  BY DEF IsChan, M!Packet, M!NextChunk

(* Being given one more message. *)
LEMMA SaysMore ==
    ASSUME NEW c, IsChan(c), NEW b, b = [c EXCEPT !.said = @ + 1]
    PROVE  /\ IsChan(b)
           /\ b.closed = c.closed /\ b.rx = c.rx /\ b.tx = c.tx /\ b.train = c.train
           /\ b.pending = c.pending /\ b.out = c.out /\ b.got = c.got /\ b.ack = c.ack
           /\ b.ackQueued = c.ackQueued /\ b.ready = c.ready /\ b.deadline = c.deadline
           /\ b.overall = c.overall
           /\ b.said = c.said + 1
  BY DEF IsChan

(* Handing over what is ready. *)
LEMMA HandsOver ==
    ASSUME NEW c, IsChan(c), NEW b, b = [c EXCEPT !.ready = None]
    PROVE  /\ IsChan(b)
           /\ b.closed = c.closed /\ b.rx = c.rx /\ b.tx = c.tx /\ b.train = c.train
           /\ b.pending = c.pending /\ b.out = c.out /\ b.got = c.got /\ b.ack = c.ack
           /\ b.ackQueued = c.ackQueued /\ b.deadline = c.deadline /\ b.overall = c.overall
           /\ b.said = c.said
           /\ b.ready = None
  BY DEF IsChan

(* Moving on past a frame. *)
LEMMA Advances ==
    ASSUME NEW c, IsChan(c), NEW f, NEW b, b = M!Advance(c, f)
    PROVE  /\ IsChan(b)
           /\ b.closed = c.closed /\ b.tx = c.tx /\ b.pending = c.pending /\ b.out = c.out
           /\ b.got = c.got /\ b.ack = c.ack /\ b.ackQueued = c.ackQueued /\ b.ready = c.ready
           /\ b.deadline = c.deadline /\ b.overall = c.overall /\ b.said = c.said
           /\ b.rx = NextRx(c, f)
           /\ b.train = NextTrain(c, f)
  BY DEF IsChan, M!Advance, NextRx, NextTrain

(* Sending what was queued.                                                 *)
LEMMA Flushes ==
    ASSUME NEW c, IsChan(c), NEW b, b = M!Flushed(c), c.ackQueued \in BOOLEAN, Timed(c),
           c.pending # None, now \in Nat, c.ackQueued => c.out = None
    PROVE  /\ IsChan(b)
           /\ b.closed = c.closed /\ b.rx = c.rx /\ b.train = c.train /\ b.out = c.out
           /\ b.ack = c.ack /\ b.ready = c.ready /\ b.said = c.said
           /\ b.pending = None /\ b.ackQueued = FALSE
           /\ b.tx = (IF c.pending.index = c.pending.count - 1 THEN c.tx + 1 ELSE c.tx)
           /\ b.got = (IF c.ackQueued /\ c.ready # None THEN <<>> ELSE c.got)
           /\ Timed(b)
<1> DEFINE tx == IF c.pending.index = c.pending.count - 1 THEN c.tx + 1 ELSE c.tx
<1> HIDE DEF tx
<1> DEFINE d == [c EXCEPT !.pending = None, !.tx = tx]
<1>0. PICK x : x = d
  OBVIOUS
<1>1. /\ IsChan(d)
      /\ d.closed = c.closed /\ d.rx = c.rx /\ d.train = c.train /\ d.out = c.out
      /\ d.got = c.got /\ d.ack = c.ack /\ d.ready = c.ready /\ d.said = c.said
      /\ d.pending = None /\ d.tx = tx /\ d.ackQueued = c.ackQueued /\ d.deadline = c.deadline
  <2>1. /\ IsChan(x)
        /\ x.closed = c.closed /\ x.rx = c.rx /\ x.train = c.train /\ x.out = c.out
        /\ x.got = c.got /\ x.ack = c.ack /\ x.ready = c.ready /\ x.said = c.said
        /\ x.pending = None /\ x.tx = tx /\ x.ackQueued = c.ackQueued /\ x.deadline = c.deadline
    BY <1>0 DEF IsChan
  <2> HIDE DEF d
  <2> QED BY <1>0, <2>1
<1>2. b = CASE c.ackQueued /\ c.ready # None ->
                 [d EXCEPT !.ackQueued = FALSE, !.got = <<>>, !.overall = None, !.deadline = None]
            [] c.ackQueued /\ c.ready = None ->
                 [d EXCEPT !.ackQueued = FALSE, !.deadline = now + PacketTime]
            [] ~c.ackQueued /\ (c.out # None \/ c.got # <<>>) -> d
            [] OTHER -> [d EXCEPT !.deadline = None]
  BY DEF M!Flushed, tx
<1>3. now + PacketTime # None /\ c.deadline # None
  BY NoneAssumption, TimeAssumption DEF Timed
<1> HIDE DEF d
<1>4. CASE c.ackQueued /\ c.ready # None
  <2>1. b = [d EXCEPT !.ackQueued = FALSE, !.got = <<>>, !.overall = None, !.deadline = None]
    BY <1>2, <1>4
  <2>2. /\ IsChan(b)
        /\ b.closed = d.closed /\ b.rx = d.rx /\ b.train = d.train /\ b.out = d.out
        /\ b.ack = d.ack /\ b.ready = d.ready /\ b.said = d.said /\ b.tx = d.tx
        /\ b.pending = d.pending /\ b.ackQueued = FALSE /\ b.got = <<>>
    BY <1>1, <2>1 DEF IsChan
  <2>3. c.out = None => Timed(b)
    BY <1>1, <2>2 DEF Timed
  <2> QED BY <1>1, <1>4, <2>2, <2>3 DEF tx
<1>5. CASE c.ackQueued /\ c.ready = None
  <2>1. b = [d EXCEPT !.ackQueued = FALSE, !.deadline = now + PacketTime]
    BY <1>2, <1>5
  <2>2. /\ IsChan(b)
        /\ b.closed = d.closed /\ b.rx = d.rx /\ b.train = d.train /\ b.out = d.out
        /\ b.ack = d.ack /\ b.ready = d.ready /\ b.said = d.said /\ b.tx = d.tx
        /\ b.pending = d.pending /\ b.ackQueued = FALSE /\ b.got = d.got
        /\ b.deadline = now + PacketTime
    BY <1>1, <2>1 DEF IsChan
  <2> QED BY <1>1, <1>3, <1>5, <2>2 DEF tx, Timed
<1>6. CASE ~c.ackQueued /\ (c.out # None \/ c.got # <<>>)
  <2>1. b = d
    BY <1>2, <1>6
  <2> QED BY <1>1, <1>3, <1>6, <2>1 DEF tx, Timed
<1>7. CASE ~c.ackQueued /\ ~(c.out # None \/ c.got # <<>>)
  <2>1. b = [d EXCEPT !.deadline = None]
    BY <1>2, <1>7
  <2>2. /\ IsChan(b)
        /\ b.closed = d.closed /\ b.rx = d.rx /\ b.train = d.train /\ b.out = d.out
        /\ b.ack = d.ack /\ b.ready = d.ready /\ b.said = d.said /\ b.tx = d.tx
        /\ b.pending = d.pending /\ b.ackQueued = d.ackQueued /\ b.got = d.got
    BY <1>1, <2>1 DEF IsChan
  <2> QED BY <1>1, <1>7, <2>2 DEF tx, Timed
<1> QED BY <1>4, <1>5, <1>6, <1>7

(* Closing.                                                                 *)
LEMMA Closes ==
    ASSUME NEW c PROVE IsChan(M!Closed(c)) /\ M!Closed(c).closed
<1>1. IsChan(M!Fresh)
  BY DEF IsChan, M!Fresh
<1>3. IsChan(M!Closed(c))
  <2>1. PICK b : b = M!Closed(c)
    OBVIOUS
  <2>2. b = [M!Fresh EXCEPT !.closed = TRUE, !.rx = c.rx, !.tx = c.tx]
    BY <2>1 DEF M!Closed
  <2>3. IsChan(b)
    BY <1>1, <2>2 DEF IsChan
  <2> QED BY <2>1, <2>3
<1>2. M!Closed(c).closed
  BY DEF M!Closed, M!Fresh
<1> QED BY <1>2, <1>3

(* What an end is once it has heard a chunk: it has it, and an acknowledgement *)
(* is queued.                                                               *)
ChunkHeard(c, f, b) ==
    /\ IsChan(b)
    /\ b.closed = c.closed /\ b.rx = c.rx /\ b.tx = c.tx /\ b.train = c.train
    /\ b.out = c.out /\ b.ack = c.ack /\ b.said = c.said
    /\ b.got = Append(c.got, f.msg) /\ b.ackQueued = TRUE
    /\ b.ready = Whole(f) /\ b.deadline = now + PacketTime
    /\ b.pending = AckOf(c, f, Append(c.got, f.msg))

(* Hearing a chunk.                                                         *)
LEMMA HearsChunk ==
    ASSUME NEW c, IsChan(c), NEW f, NEW b, b = M!OnChunk(c, f),
           ~(M!Busy(c) \/ c.pending # None)
    PROVE  ChunkHeard(c, f, b)
<1> DEFINE got == Append(c.got, f.msg)
           last == IF f.index = f.count - 1 THEN f.msg ELSE None
           overall == IF c.overall = None THEN now + OverallTime ELSE c.overall
           so_far == [seq |-> f.seq, msg |-> f.msg, so_far |-> Len(got)]
<1> HIDE DEF got, last, overall, so_far
<1> DEFINE d == [c EXCEPT !.got = got, !.ackQueued = TRUE, !.overall = overall, !.ready = last]
<1>1. b = M!Packet(d, M!Frame(d, "ack", f.msg, 0, 1, so_far))
  BY DEF M!OnChunk, got, last, overall, so_far
<1>2. PICK x : x = d
  OBVIOUS
<1>3. /\ IsChan(x)
      /\ x.closed = c.closed /\ x.rx = c.rx /\ x.tx = c.tx /\ x.train = c.train
      /\ x.out = c.out /\ x.ack = c.ack /\ x.said = c.said
      /\ x.got = got /\ x.ackQueued = TRUE /\ x.ready = last
  BY <1>2 DEF IsChan
<1>4. PICK y : y = M!Frame(x, "ack", f.msg, 0, 1, so_far)
  OBVIOUS
<1> HIDE DEF d
<1>5. b = M!Packet(x, y)
  BY <1>1, <1>2, <1>4
<1>6. /\ IsChan(b)
      /\ b.closed = x.closed /\ b.rx = x.rx /\ b.tx = x.tx /\ b.train = x.train
      /\ b.out = x.out /\ b.ack = x.ack /\ b.said = x.said
      /\ b.got = x.got /\ b.ackQueued = x.ackQueued /\ b.ready = x.ready
      /\ b.deadline = now + PacketTime /\ b.pending = y
  BY <1>3, <1>5, QueuesPacket
<1>7. y = [kind |-> "ack", msg |-> f.msg, seq |-> c.tx, index |-> 0, count |-> 1,
           acks |-> so_far, said |-> c.said]
  BY <1>3, <1>4 DEF M!Frame
<1>8. /\ b.got = Append(c.got, f.msg) /\ b.ready = Whole(f)
      /\ b.pending = AckOf(c, f, Append(c.got, f.msg))
  BY <1>3, <1>6, <1>7 DEF got, last, so_far, Whole, AckOf
<1> QED BY <1>3, <1>6, <1>8 DEF ChunkHeard

(* The two ends together.                                                   *)
Pair(c, d, w, s, cp, dp, wp, sp) ==
    /\ s \in Seq(Words) /\ sp \in Seq(Words) /\ d \in Seq(Words) /\ dp \in Seq(Words)
    /\ w \in Seq(Frames) /\ wp \in Seq(Frames)
    /\ EndIs(c, d, w, s, cp, dp, sp) /\ EndIs(cp, dp, wp, sp, c, d, s)

(* An end closes, and what it read last is gone.                            *)
LEMMA ClosingKeeps ==
    ASSUME NEW c, NEW d, NEW w, NEW s, NEW cp, NEW dp, NEW wp, NEW sp,
           Pair(c, d, w, s, cp, dp, wp, sp), NEW a,
           NEW v \in Seq(Frames), AcksTrue(cp, wp) => AcksTrue(cp, v)
    PROVE  Pair(M!Closed(a), d, w, s, cp, dp, v, sp)
<1> DEFINE b == M!Closed(a)
<1>1. IsChan(b) /\ b.closed
  BY Closes
<1>2. b.closed \in BOOLEAN
  BY <1>1 DEF M!Closed, M!Fresh
<1> HIDE DEF b
<1>3. EndIs(b, d, w, s, cp, dp, sp)
  BY <1>1, <1>2 DEF Pair, EndIs
<1>4. EndIs(cp, dp, v, sp, b, d, s)
  BY <1>1 DEF Pair, EndIs
<1> QED BY <1>3, <1>4 DEF Pair, b

LEMMA ReadsAndCloses ==
    ASSUME NEW c, NEW d, NEW w, NEW s, NEW cp, NEW dp, NEW wp, NEW sp,
           Pair(c, d, w, s, cp, dp, wp, sp), NEW a, wp # <<>>
    PROVE  Pair(M!Closed(a), d, w, s, cp, dp, Tail(wp), sp)
<1>1. PICK v : v = Tail(wp)
  OBVIOUS
<1>2. v \in Seq(Frames) /\ (AcksTrue(cp, wp) => AcksTrue(cp, v))
  BY <1>1, Tails DEF AcksTrue, Pair
<1>3. Pair(M!Closed(a), d, w, s, cp, dp, v, sp)
  BY <1>2, ClosingKeeps
<1> QED BY <1>1, <1>3

(* A frame that comes next begins where the reader stands.                  *)
LEMMA ComesNext ==
    ASSUME NEW c, NEW d, NEW w \in Seq(Frames), NEW s, w # <<>>, InFlight(w, s, ReaderOf(c, d)),
           M!Continues(c, w[1])
    PROVE  Truthful(s, w[1]) /\ ReaderOf(c, d) = Begins(w[1])
<1>1. 1 \in 1 .. Len(w)
  BY Tails
<1>2. Truthful(s, w[1])
  BY <1>1 DEF InFlight
<1>3. w[1].seq \in Nat /\ w[1].index \in Nat
  BY <1>2, FrameFields DEF Truthful
<1>4. ReaderOf(c, d)[1] = w[1].seq /\ ReaderOf(c, d)[2] = w[1].index
  BY Points DEF ReaderOf, M!Continues
<1>5. \/ Finishes(w[1])[1] = w[1].seq + 1
      \/ Finishes(w[1])[2] = w[1].index + 1
  BY Points DEF Finishes
<1>6. ReaderOf(c, d) # Finishes(w[1])
  BY <1>3, <1>4, <1>5
<1> QED BY <1>2, <1>6 DEF InFlight

(* Whoever has read a frame, and not what comes after, stands at its end.   *)
LEMMA ReadsOn ==
    ASSUME NEW c, NEW d, NEW f, NEW s, Truthful(s, f), ReaderOf(c, d) = Begins(f), NEW b, NEW x,
           b.rx = NextRx(c, f),
           b.train = NextTrain(c, f),
           TakenOf(b, x) = NextTaken(c, d, f)
    PROVE  /\ ReaderOf(b, x) = Finishes(f)
           /\ c.rx = f.seq /\ c.train = f.index
           /\ TakenOf(c, d) = (IF f.kind = "ack" THEN f.said ELSE f.said - 1)
<1>1. /\ f.seq \in Nat /\ f.index \in Nat /\ f.count \in Nat /\ f.said \in Nat
      /\ f.kind = "ack" => f.index = f.count - 1
  BY FrameFields DEF Truthful
<1>2. c.rx = f.seq /\ c.train = f.index
  BY Points DEF ReaderOf, Begins
<1>3. TakenOf(c, d) = (IF f.kind = "ack" THEN f.said ELSE f.said - 1)
  BY Points DEF ReaderOf, Begins
<1>4. ReaderOf(b, x) = Finishes(f)
  BY <1>1, <1>2, <1>3 DEF ReaderOf, Finishes, NextRx, NextTrain, NextTaken
<1> QED BY <1>2, <1>3, <1>4

(* What an end that read a frame must be, to go on.                         *)
GoesOn(b, x, f, c, d, s, cp, dp, sp) ==
    /\ x \in Seq(Words) /\ IsChan(b) /\ b.closed = c.closed
    /\ b.rx = NextRx(c, f) /\ b.train = NextTrain(c, f) /\ TakenOf(b, x) = NextTaken(c, d, f)
    /\ Talking(b, s) /\ Listening(b) /\ Timed(b)
    /\ Delivered(x, sp) /\ Arrived(b, x, sp)
    /\ b.pending # None => AckTrue(b.rx, b.pending)
    /\ WriterOf(b) = WriterOf(c)
    /\ ~cp.closed => LetGo(b, s, TakenOf(cp, dp))

(* An end reads a frame and goes on.                                        *)
LEMMA ReadingKeeps ==
    ASSUME NEW c, NEW d, NEW w, NEW s, NEW cp, NEW dp, NEW wp, NEW sp,
           Pair(c, d, w, s, cp, dp, wp, sp), ~c.closed, wp # <<>>, M!Continues(c, wp[1]),
           NEW b, NEW x, NEW f, f = wp[1], GoesOn(b, x, f, c, d, s, cp, dp, sp)
    PROVE  Pair(b, x, w, s, cp, dp, Tail(wp), sp)
<1>1. EndIs(c, d, w, s, cp, dp, sp) /\ EndIs(cp, dp, wp, sp, c, d, s) /\ wp \in Seq(Frames)
  BY DEF Pair
<1>2. /\ Tail(wp) \in Seq(Frames) /\ Len(wp) \in Nat /\ Len(wp) >= 1
      /\ \A i \in 1 .. Len(Tail(wp)) : i + 1 \in 1 .. Len(wp) /\ Tail(wp)[i] = wp[i + 1]
  BY <1>1, Tails
<1>3. InFlight(wp, sp, ReaderOf(c, d))
  BY <1>1 DEF EndIs
<1>4. Truthful(sp, f) /\ ReaderOf(c, d) = Begins(f)
  BY <1>1, <1>3, ComesNext
<1>5. /\ ReaderOf(b, x) = Finishes(f)
      /\ TakenOf(c, d) = (IF f.kind = "ack" THEN f.said ELSE f.said - 1)
  BY <1>4, ReadsOn DEF GoesOn
<1>6. c.rx \in Nat /\ b.rx \in Nat /\ c.rx <= b.rx
  BY <1>1 DEF EndIs, Listening, NextRx, GoesOn
<1>7. AcksTrue(b, w)
  BY <1>1, <1>6 DEF EndIs, AcksTrue, AckTrue, GoesOn
<1>8. EndIs(b, x, w, s, cp, dp, sp)
  BY <1>1, <1>7 DEF EndIs, GoesOn
<1>9. InFlight(Tail(wp), sp, ReaderOf(b, x))
  BY <1>1, <1>3, <1>5, Popped
<1>10. ~cp.closed => Meets(Tail(wp), WriterOf(cp), ReaderOf(b, x))
  <2>1. ~cp.closed => Meets(wp, WriterOf(cp), ReaderOf(c, d))
    BY <1>1 DEF EndIs
  <2> QED BY <1>1, <1>3, <1>5, <2>1, Popped
<1>11. ~cp.closed => LetGo(cp, sp, TakenOf(b, x))
  <2>1. ~cp.closed => LetGo(cp, sp, TakenOf(c, d))
    BY <1>1 DEF EndIs
  <2>2. CASE f.kind # "ack" /\ f.index = f.count - 1
    <3>1. f.said \in Nat /\ f.said <= Len(sp) /\ Len(sp) \in Nat
      BY <1>4, FrameFields DEF Truthful, Pair
    <3> QED BY <1>5, <2>1, <2>2, <3>1 DEF LetGo, NextTaken, GoesOn
  <2>3. CASE ~(f.kind # "ack" /\ f.index = f.count - 1)
    BY <2>1, <2>3 DEF NextTaken, GoesOn
  <2> QED BY <2>2, <2>3
<1>12. ~cp.closed => AcksTrue(cp, Tail(wp))
  BY <1>1, <1>2 DEF EndIs, AcksTrue
<1>13. EndIs(cp, dp, Tail(wp), sp, b, x, s)
  BY <1>1, <1>9, <1>10, <1>11, <1>12 DEF EndIs
<1> QED BY <1>2, <1>8, <1>13 DEF Pair, GoesOn

(* Receiving an ordinary message.                                           *)
LEMMA PlainKeeps ==
    ASSUME NEW c, NEW d, NEW w, NEW s, NEW cp, NEW dp, NEW wp, NEW sp,
           Pair(c, d, w, s, cp, dp, wp, sp), ~c.closed, wp # <<>>, NEW f, f = wp[1],
           M!Continues(c, f), f.kind = "plain", NEW b, b = M!Advance(c, f), ~M!Busy(b), b.got = <<>>
    PROVE  Pair(b, Append(d, f.msg), w, s, cp, dp, Tail(wp), sp)
<1>1. EndIs(c, d, w, s, cp, dp, sp) /\ EndIs(cp, dp, wp, sp, c, d, s) /\ wp \in Seq(Frames)
  BY DEF Pair
<1>2. InFlight(wp, sp, ReaderOf(c, d)) /\ IsChan(c)
  BY <1>1 DEF EndIs
<1>3. Truthful(sp, f) /\ ReaderOf(c, d) = Begins(f)
  BY <1>1, <1>2, ComesNext
<1>4. /\ f.said \in Nat /\ f.index = 0 /\ f.count = 1 /\ f.msg \in Words /\ f.msg = sp[f.said]
      /\ f.said <= Len(sp) /\ f.said >= 1
  BY <1>3, FrameFields DEF Truthful
<1>5. /\ IsChan(b)
      /\ b.closed = c.closed /\ b.tx = c.tx /\ b.pending = c.pending /\ b.out = c.out
      /\ b.got = c.got /\ b.ack = c.ack /\ b.ackQueued = c.ackQueued /\ b.ready = c.ready
      /\ b.deadline = c.deadline /\ b.overall = c.overall /\ b.said = c.said
      /\ b.rx = NextRx(c, f) /\ b.train = NextTrain(c, f)
  BY <1>2, Advances
<1>20. f.index = f.count - 1 /\ b.rx = c.rx + 1 /\ b.train = 0
  BY <1>4, <1>5 DEF NextRx, NextTrain
<1>6. c.ready = None /\ b.ready = None /\ b.out = None /\ c.out = None /\ c.got = <<>>
  BY <1>5 DEF M!Busy
<1>7. d \in Seq(Words) /\ sp \in Seq(Words) /\ Len(d) \in Nat /\ Len(sp) \in Nat
  BY DEF Pair
<1>8. TakenOf(c, d) = Len(d) /\ f.said = Len(d) + 1
  <2>1. TakenOf(c, d) = Len(d)
    BY <1>6, <1>7 DEF TakenOf
  <2>2. TakenOf(c, d) = f.said - 1
    BY <1>3, Points DEF ReaderOf, Begins
  <2> QED BY <1>4, <1>7, <2>1, <2>2
<1>9. /\ Append(d, f.msg) \in Seq(Words) /\ Len(Append(d, f.msg)) = Len(d) + 1
      /\ Append(d, f.msg)[Len(d) + 1] = f.msg /\ \A i \in 1 .. Len(d) : Append(d, f.msg)[i] = d[i]
  BY <1>4, <1>7, Appends
<1>10. Delivered(Append(d, f.msg), sp)
  <2>1. Delivered(d, sp)
    BY <1>1 DEF EndIs
  <2>2. \A i \in 1 .. Len(d) + 1 : i \in 1 .. Len(d) \/ i = Len(d) + 1
    BY <1>7
  <2> QED BY <1>4, <1>7, <1>8, <1>9, <2>1, <2>2 DEF Delivered
<1>11. Talking(c, s) /\ Listening(c) /\ Timed(c) /\ AcksTrue(c, w)
  BY <1>1 DEF EndIs
<1>12. Talking(b, s)
  BY <1>5, <1>11 DEF Talking, MidTrain
<1>13. Listening(b) /\ Timed(b)
  BY <1>5, <1>6, <1>11, <1>20 DEF Listening, Timed
<1>14. Arrived(b, Append(d, f.msg), sp)
  BY <1>6 DEF Arrived
<1>15. b.pending # None => AckTrue(b.rx, b.pending)
  BY <1>5, <1>11, <1>20 DEF AcksTrue, AckTrue, Listening
<1>16. TakenOf(b, Append(d, f.msg)) = TakenOf(c, d) + 1
  BY <1>6, <1>7, <1>8, <1>9 DEF TakenOf
<1>17. WriterOf(b) = WriterOf(c)
  BY <1>5 DEF WriterOf, MidTrain
<1>18. ~cp.closed => LetGo(b, s, TakenOf(cp, dp))
  BY <1>1, <1>5 DEF EndIs, LetGo
<1>19. TakenOf(b, Append(d, f.msg)) = NextTaken(c, d, f)
  BY <1>4, <1>16 DEF NextTaken
<1>21. GoesOn(b, Append(d, f.msg), f, c, d, s, cp, dp, sp)
  BY <1>5, <1>9, <1>10, <1>12, <1>13, <1>14, <1>15, <1>17, <1>18, <1>19 DEF GoesOn
<1> QED BY <1>21, ReadingKeeps

(* Whoever has read past the last chunk of what was said has it all.        *)
LEMMA ReadItAll ==
    ASSUME NEW w \in Seq(Frames), NEW s, NEW c, NEW d, InFlight(w, s, ReaderOf(c, d)), c.rx \in Nat,
           NEW tx \in Nat, NEW said, Meets(w, Point(tx, 0, said), ReaderOf(c, d)), c.rx >= tx
    PROVE  TakenOf(c, d) = said
<1> DEFINE x == Point(tx, 0, said)
           r == ReaderOf(c, d)
<1>1. x[1] = tx /\ x[2] = 0 /\ r[1] = c.rx
  BY Points DEF ReaderOf
<1>2. r = x => TakenOf(c, d) = said
  BY Points DEF ReaderOf
<1>3. CASE w = <<>>
  BY <1>2, <1>3 DEF Meets
<1>4. CASE w # <<>>
  <2>1. /\ 1 \in 1 .. Len(w) /\ Truthful(s, w[1]) /\ r \in {Begins(w[1]), Finishes(w[1])}
        /\ Before(Finishes(w[1]), x)
    BY <1>4, Tails DEF InFlight, Meets
  <2>2. w[1].seq \in Nat /\ w[1].index \in Nat /\ Begins(w[1])[1] = w[1].seq
    BY <2>1, FrameFields, Points DEF Truthful, Begins
  <2>3. /\ \/ Finishes(w[1])[1] = w[1].seq + 1 /\ Finishes(w[1])[2] = 0
           \/ Finishes(w[1])[1] = w[1].seq /\ Finishes(w[1])[2] = w[1].index + 1
    BY Points DEF Finishes
  <2> HIDE DEF x, r
  <2>4. CASE r = Finishes(w[1])
    <3>1. Finishes(w[1]) = x
      BY <1>1, <2>1, <2>2, <2>3, <2>4 DEF Before
    <3> QED BY <1>2, <2>4, <3>1
  <2>5. CASE r = Begins(w[1])
    BY <1>1, <2>1, <2>2, <2>3, <2>5 DEF Before
  <2> QED BY <2>1, <2>4, <2>5
<1> QED BY <1>3, <1>4

(* Receiving an acknowledgement.                                            *)
LEMMA AckKeeps ==
    ASSUME NEW c, NEW d, NEW w, NEW s, NEW cp, NEW dp, NEW wp, NEW sp, now \in Nat,
           Pair(c, d, w, s, cp, dp, wp, sp), ~c.closed, wp # <<>>, NEW f, f = wp[1],
           M!Continues(c, f), f.kind = "ack", NEW a, a = M!Advance(c, f), NEW b, b = M!OnAck(a, f)
    PROVE  Pair(b, d, w, s, cp, dp, Tail(wp), sp)
<1>1. /\ EndIs(c, d, w, s, cp, dp, sp) /\ EndIs(cp, dp, wp, sp, c, d, s) /\ wp \in Seq(Frames)
      /\ w \in Seq(Frames) /\ s \in Seq(Words) /\ d \in Seq(Words)
  BY DEF Pair
<1>2. InFlight(wp, sp, ReaderOf(c, d)) /\ IsChan(c) /\ Delivered(d, sp) /\ Arrived(c, d, sp)
  BY <1>1 DEF EndIs
<1>3. Truthful(sp, f) /\ ReaderOf(c, d) = Begins(f)
  BY <1>1, <1>2, ComesNext
<1>4. f.index = 0 /\ f.count = 1 /\ f.acks \in Acks
  BY <1>3 DEF Truthful
<1>5. /\ IsChan(a)
      /\ a.closed = c.closed /\ a.tx = c.tx /\ a.pending = c.pending /\ a.out = c.out
      /\ a.got = c.got /\ a.ack = c.ack /\ a.ackQueued = c.ackQueued /\ a.ready = c.ready
      /\ a.deadline = c.deadline /\ a.overall = c.overall /\ a.said = c.said
      /\ a.rx = NextRx(c, f) /\ a.train = NextTrain(c, f)
  BY <1>2, Advances
<1>6. a.rx = c.rx + 1 /\ a.train = 0
  BY <1>4, <1>5 DEF NextRx, NextTrain
<1>7. Talking(c, s) /\ Listening(c) /\ Timed(c) /\ AcksTrue(c, w)
  BY <1>1 DEF EndIs
<1>9. CASE c.ack = None \/ c.pending # None \/ f.acks # c.ack
  <2>1. b = M!Closed(a)
    BY <1>5, <1>9 DEF M!OnAck
  <2>2. Pair(M!Closed(a), d, w, s, cp, dp, Tail(wp), sp)
    BY ReadsAndCloses
  <2> QED BY <2>1, <2>2
<1>10. CASE ~(c.ack = None \/ c.pending # None \/ f.acks # c.ack)
  <2> DEFINE next == c.out.index + 1
             m == c.out.msg
  <2>1. /\ c.pending = None /\ c.out # None /\ f.acks = c.ack
        /\ c.said = Len(s) /\ c.said >= 1 /\ m = s[c.said] /\ c.out.index \in Nat /\ c.tx \in Nat
        /\ c.ack.seq \in Nat /\ c.out.index < Chunks[m]
        /\ c.ack = [seq |-> c.ack.seq, msg |-> m, so_far |-> next]
        /\ c.tx = c.ack.seq + (IF MidTrain(c) THEN 0 ELSE 1)
    BY <1>7, <1>10 DEF Talking
  <2>2. m \in Words /\ Chunks[m] \in Nat
    BY <1>1, <2>1, TalkAssumption DEF Words
  <2>3. c.got = <<>> /\ c.ready = None /\ ~c.ackQueued /\ c.rx \in Nat
    BY <1>7, <2>1 DEF Listening
  <2>4. MidTrain(c) <=> next # Chunks[m]
    BY <2>1, <2>2 DEF MidTrain
  <2>5. CASE next = Chunks[m]
    <3>1. b = [a EXCEPT !.ack = None, !.out = None, !.deadline = None, !.overall = None]
      BY <1>5, <1>10, <2>5 DEF M!OnAck
    <3>2. /\ IsChan(b)
          /\ b.closed = c.closed /\ b.rx = a.rx /\ b.tx = c.tx /\ b.train = a.train
          /\ b.pending = c.pending /\ b.got = c.got /\ b.ackQueued = c.ackQueued
          /\ b.ready = c.ready /\ b.said = c.said
          /\ b.ack = None /\ b.out = None /\ b.deadline = None /\ b.overall = None
      <4>1. IsChan(a)
        BY <1>5
      <4>2. /\ IsChan(b)
            /\ b.closed = a.closed /\ b.rx = a.rx /\ b.tx = a.tx /\ b.train = a.train
            /\ b.pending = a.pending /\ b.got = a.got /\ b.ackQueued = a.ackQueued
            /\ b.ready = a.ready /\ b.said = a.said
            /\ b.ack = None /\ b.out = None /\ b.deadline = None /\ b.overall = None
        BY ONLY <3>1, <4>1 DEF IsChan
      <4> QED BY <1>5, <4>2
    <3>3. Talking(b, s)
      <4>1. b.pending = None /\ b.tx \in Nat /\ b.said = Len(s) /\ b.out = None /\ b.ack = None
        BY <2>1, <3>2
      <4> QED BY <4>1 DEF Talking
    <3>4. Listening(b)
      BY <1>6, <1>7, <2>3, <3>2 DEF Listening
    <3>5. Timed(b) /\ Arrived(b, d, sp)
      BY <2>1, <2>3, <3>2 DEF Timed, Arrived
    <3>6. TakenOf(b, d) = NextTaken(c, d, f)
      BY <3>2 DEF NextTaken, TakenOf
    <3>7. WriterOf(c) = Point(c.tx, 0, c.said) /\ WriterOf(b) = Point(c.tx, 0, c.said)
      BY <2>1, <2>4, <2>5, <3>2 DEF WriterOf, MidTrain
    <3>8. ~cp.closed => LetGo(b, s, TakenOf(cp, dp))
      <4> SUFFICES ASSUME ~cp.closed PROVE TakenOf(cp, dp) = Len(s)
        BY DEF LetGo
      <4>1. AckTrue(cp.rx, f)
        BY <1>1, Tails DEF EndIs, AcksTrue
      <4>2. cp.rx \in Nat
        BY <1>1 DEF EndIs, Listening
      <4>3. f.acks.so_far = Chunks[f.acks.msg] /\ f.acks.seq = c.ack.seq
        BY <2>1, <2>5
      <4>4. cp.rx >= c.tx
        BY <2>1, <2>4, <2>5, <4>1, <4>2, <4>3 DEF AckTrue
      <4>5. InFlight(w, s, ReaderOf(cp, dp)) /\ Meets(w, WriterOf(c), ReaderOf(cp, dp))
        BY <1>1 DEF EndIs
      <4> QED BY <1>1, <2>1, <3>7, <4>2, <4>4, <4>5, ReadItAll
    <3>9. GoesOn(b, d, f, c, d, s, cp, dp, sp)
      BY <1>1, <1>2, <1>5, <2>1, <3>2, <3>3, <3>4, <3>5, <3>6, <3>7, <3>8 DEF GoesOn
    <3> QED BY <3>9, ReadingKeeps
  <2>6. CASE next # Chunks[m]
    <3>1. b = M!NextChunk(a, m, next)
      BY <1>5, <1>10, <2>6 DEF M!OnAck
    <3>2. /\ IsChan(b)
          /\ b.closed = c.closed /\ b.rx = a.rx /\ b.tx = c.tx /\ b.train = a.train
          /\ b.got = c.got /\ b.ackQueued = c.ackQueued /\ b.ready = c.ready
          /\ b.said = c.said
          /\ b.pending = M!Frame(a, "chunk", m, next, Chunks[m], 0)
          /\ b.deadline = now + PacketTime
          /\ b.out = [msg |-> m, index |-> next]
          /\ b.ack = [seq |-> c.tx, msg |-> m, so_far |-> next + 1]
      BY <1>5, <3>1, QueuesChunk
    <3>3. b.pending = [kind |-> "chunk", msg |-> m, seq |-> c.tx, index |-> next,
                       count |-> Chunks[m], acks |-> 0, said |-> c.said]
      BY <1>5, <3>2 DEF M!Frame
    <3>4. /\ Truthful(s, b.pending) /\ b.pending.kind = "chunk"
          /\ b.out \in Positions /\ b.pending # None /\ b.out # None
      <4>1. b.pending \in Frames
        BY <2>1, <2>2, <3>3 DEF Frames
      <4>2. b.out \in Positions
        BY <2>1, <2>2, <3>2 DEF Positions
      <4>3. PICK q : q = b.pending
        OBVIOUS
      <4>4. /\ q \in Frames /\ q.kind = "chunk" /\ q.msg = m /\ q.index = next
            /\ q.count = Chunks[m] /\ q.said = c.said
        BY <3>3, <4>1, <4>3
      <4>5. Truthful(s, q)
        BY <2>1, <2>2, <2>6, <4>4 DEF Truthful
      <4>6. q # None /\ b.out # None
        BY <4>2, <4>4, NoneAssumption
      <4> QED BY <4>2, <4>3, <4>4, <4>5, <4>6
    <3>5. Talking(b, s)
      <4>1. PICK q : q = b.pending
        OBVIOUS
      <4>2. q.seq = c.tx /\ q.said = c.said /\ q.index = next /\ q.msg = m /\ q.kind = "chunk"
        BY <3>3, <4>1
      <4>3. b.out.msg = m /\ b.out.index = next /\ b.ack.seq = c.tx
        BY <3>2
      <4>4. /\ c.tx \in Nat /\ c.said = Len(s) /\ c.said >= 1 /\ m = s[c.said] /\ next \in Nat
            /\ next < Chunks[m]
        BY <2>1, <2>2, <2>6
      <4>5. b.tx = c.tx /\ b.said = c.said /\ b.ackQueued = c.ackQueued
            /\ b.ack = [seq |-> b.ack.seq, msg |-> b.out.msg, so_far |-> b.out.index + 1]
        BY <3>2, <4>3
      <4>6. Truthful(s, q) /\ q # None /\ b.out # None
        BY <3>4, <4>1
      <4> QED BY ONLY <2>3, <4>1, <4>2, <4>3, <4>4, <4>5, <4>6 DEF Talking
    <3>6. Listening(b)
      BY <1>5, <1>6, <1>7, <2>3, <3>2 DEF Listening
    <3>7. Timed(b) /\ Arrived(b, d, sp)
      BY <1>5, <2>3, <3>2, NoneAssumption, TimeAssumption DEF Timed, Arrived
    <3>8. TakenOf(b, d) = NextTaken(c, d, f)
      BY <1>5, <3>2 DEF NextTaken, TakenOf
    <3>9. WriterOf(b) = WriterOf(c)
      BY <2>1, <2>4, <2>6, <3>3, <3>4 DEF WriterOf, Begins, MidTrain
    <3>11. GoesOn(b, d, f, c, d, s, cp, dp, sp)
      BY <1>1, <1>2, <1>5, <3>2, <3>3, <3>4, <3>5, <3>6, <3>7, <3>8, <3>9
      DEF GoesOn, LetGo, AckTrue
    <3> QED BY <3>11, ReadingKeeps
  <2> QED BY <2>5, <2>6
<1> QED BY <1>9, <1>10

(* Receiving a chunk.                                                       *)
LEMMA ChunkKeeps ==
    ASSUME NEW c, NEW d, NEW w, NEW s, NEW cp, NEW dp, NEW wp, NEW sp, now \in Nat,
           Pair(c, d, w, s, cp, dp, wp, sp), ~c.closed, wp # <<>>, NEW f, f = wp[1],
           M!Continues(c, f), f.kind = "chunk", NEW a, a = M!Advance(c, f), NEW b, b = M!OnChunk(a, f)
    PROVE  Pair(b, d, w, s, cp, dp, Tail(wp), sp)
<1>1. /\ EndIs(c, d, w, s, cp, dp, sp) /\ EndIs(cp, dp, wp, sp, c, d, s) /\ wp \in Seq(Frames)
      /\ d \in Seq(Words) /\ Len(d) \in Nat /\ Len(s) \in Nat
  BY DEF Pair
<1>2. InFlight(wp, sp, ReaderOf(c, d)) /\ IsChan(c) /\ Delivered(d, sp) /\ Arrived(c, d, sp)
  BY <1>1 DEF EndIs
<1>3. Truthful(sp, f) /\ ReaderOf(c, d) = Begins(f)
  BY <1>1, <1>2, ComesNext
<1>4. /\ f.said \in Nat /\ f.seq \in Nat /\ f.index \in Nat /\ f.count \in Nat /\ f.msg \in Words
      /\ f.msg = sp[f.said] /\ f.said <= Len(sp) /\ f.said >= 1 /\ f.count = Chunks[f.msg]
  BY <1>3, FrameFields DEF Truthful
<1>5. /\ IsChan(a)
      /\ a.closed = c.closed /\ a.tx = c.tx /\ a.pending = c.pending /\ a.out = c.out
      /\ a.got = c.got /\ a.ack = c.ack /\ a.ackQueued = c.ackQueued /\ a.ready = c.ready
      /\ a.deadline = c.deadline /\ a.overall = c.overall /\ a.said = c.said
      /\ a.rx = NextRx(c, f) /\ a.train = NextTrain(c, f)
  BY <1>2, Advances
<1>6. Talking(c, s) /\ Listening(c) /\ AcksTrue(c, w)
  BY <1>1 DEF EndIs
<1>7. CASE M!Busy(a) \/ a.pending # None
  <2>1. b = M!Closed(a)
    BY <1>7 DEF M!OnChunk
  <2>2. Pair(M!Closed(a), d, w, s, cp, dp, Tail(wp), sp)
    BY ReadsAndCloses
  <2> QED BY <2>1, <2>2
<1>8. CASE ~(M!Busy(a) \/ a.pending # None)
  <2>1. c.out = None /\ c.ready = None /\ c.pending = None
    BY <1>5, <1>8 DEF M!Busy
  <2>2. /\ IsChan(b)
        /\ b.closed = c.closed /\ b.rx = NextRx(c, f) /\ b.tx = c.tx /\ b.train = NextTrain(c, f)
        /\ b.out = c.out /\ b.ack = c.ack /\ b.said = c.said
        /\ b.got = Append(c.got, f.msg) /\ b.ackQueued = TRUE
        /\ b.ready = Whole(f) /\ b.deadline = now + PacketTime
        /\ b.pending = AckOf(c, f, Append(c.got, f.msg))
    <3>1. ChunkHeard(a, f, b)
      <4>1. IsChan(a) /\ ~(M!Busy(a) \/ a.pending # None)
        BY <1>5, <1>8
      <4> QED BY ONLY <4>1, b = M!OnChunk(a, f), HearsChunk
    <3>2. AckOf(a, f, Append(a.got, f.msg)) = AckOf(c, f, Append(c.got, f.msg))
      BY <1>5 DEF AckOf
    <3> QED BY <1>5, <3>1, <3>2 DEF ChunkHeard
  <2>3. /\ c.tx \in Nat /\ c.said = Len(s) /\ c.ack = None /\ c.rx \in Nat /\ c.train \in Nat
        /\ c.got \in Seq(Words) /\ Len(c.got) = c.train
    BY <1>6, <2>1 DEF Talking, Listening
  <2>4. /\ c.rx = f.seq /\ c.train = f.index /\ TakenOf(c, d) = f.said - 1
        /\ TakenOf(c, d) = Len(d) /\ f.said = Len(d) + 1
    <3>1. c.rx = f.seq /\ c.train = f.index /\ TakenOf(c, d) = f.said - 1
      BY <1>3, Points DEF ReaderOf, Begins
    <3>2. TakenOf(c, d) = Len(d)
      BY <1>1, <2>1 DEF TakenOf
    <3> QED BY <1>1, <1>4, <3>1, <3>2
  <2>5. Append(c.got, f.msg) \in Seq(Words) /\ Len(Append(c.got, f.msg)) = f.index + 1
    BY <1>4, <2>3, <2>4, Appends
  <2>6. /\ b.pending \in Frames /\ b.pending.acks \in Acks /\ b.pending # None
        /\ b.pending.kind = "ack"
    <3>1. b.pending.acks \in Acks
      BY <1>4, <2>2, <2>5 DEF Acks, AckOf
    <3>2. b.pending \in Frames
      BY <1>1, <1>4, <2>2, <2>3, <3>1 DEF Frames, AckOf
    <3> QED BY <2>2, <3>1, <3>2, NoneAssumption DEF AckOf
  <2>7. Talking(b, s)
    <3>1. Truthful(s, b.pending)
      BY <1>1, <2>2, <2>3, <2>6 DEF Truthful, AckOf
    <3> QED BY <2>1, <2>2, <2>3, <2>6, <3>1 DEF Talking, AckOf
  <2>8. f.msg # None
    BY <1>4, NoneAssumption
  <2>9. Listening(b)
    <3>1. NextRx(c, f) \in Nat /\ NextTrain(c, f) \in Nat
      BY <2>3 DEF NextRx, NextTrain
    <3>2. f.index # f.count - 1 => Len(b.got) = b.train
      BY <1>4, <2>2, <2>4, <2>5 DEF NextTrain
    <3>3. f.index = f.count - 1 => b.train = 0
      BY <2>2 DEF NextTrain
    <3> QED BY <2>1, <2>2, <2>5, <2>6, <2>8, <3>1, <3>2, <3>3 DEF Listening, Whole
  <2>10. Timed(b)
    BY <2>2, NoneAssumption, TimeAssumption DEF Timed
  <2>11. Arrived(b, d, sp)
    BY <1>1, <1>4, <2>2, <2>4 DEF Arrived, Pair, Whole
  <2>12. TakenOf(b, d) = NextTaken(c, d, f)
    BY <1>1, <2>1, <2>2, <2>8 DEF TakenOf, NextTaken, Whole
  <2>13. AckTrue(b.rx, b.pending)
    <3>1. b.pending.acks = [seq |-> f.seq, msg |-> f.msg, so_far |-> f.index + 1]
      BY <2>2, <2>5 DEF AckOf
    <3>2. f.index + 1 = f.count => f.index = f.count - 1
      BY <1>4
    <3>3. f.index = f.count - 1 => b.rx = f.seq + 1
      BY <2>2, <2>4 DEF NextRx
    <3>4. f.seq < f.seq + 1
      BY <1>4
    <3> QED BY <1>4, <3>1, <3>2, <3>3, <3>4 DEF AckTrue
  <2>14. WriterOf(b) = WriterOf(c)
    <3>1. WriterOf(c) = Point(c.tx, 0, c.said)
      BY <2>1 DEF WriterOf, MidTrain
    <3>2. WriterOf(b) = Begins(b.pending)
      BY <2>6 DEF WriterOf
    <3>3. Begins(b.pending) = Point(c.tx, 0, c.said)
      BY <2>2 DEF Begins, AckOf
    <3> QED BY <3>1, <3>2, <3>3
  <2>15. ~cp.closed => LetGo(b, s, TakenOf(cp, dp))
    BY <1>1, <2>1, <2>2 DEF EndIs, LetGo
  <2>16. GoesOn(b, d, f, c, d, s, cp, dp, sp)
    BY <1>1, <1>2, <2>2, <2>7, <2>9, <2>10, <2>11, <2>12, <2>13, <2>14, <2>15 DEF GoesOn
  <2> QED BY <2>16, ReadingKeeps
<1> QED BY <1>7, <1>8

(* Handing over a response that is ready.                                   *)
LEMMA HandOverKeeps ==
    ASSUME NEW c, NEW d, NEW w, NEW s, NEW cp, NEW dp, NEW wp, NEW sp,
           Pair(c, d, w, s, cp, dp, wp, sp), ~c.closed, c.ready # None, ~c.ackQueued,
           NEW b, b = [c EXCEPT !.ready = None]
    PROVE  Pair(b, Append(d, c.ready), w, s, cp, dp, wp, sp)
<1>1. /\ EndIs(c, d, w, s, cp, dp, sp) /\ EndIs(cp, dp, wp, sp, c, d, s)
      /\ d \in Seq(Words) /\ sp \in Seq(Words) /\ Len(d) \in Nat /\ Len(sp) \in Nat
  BY DEF Pair
<1>2. /\ IsChan(c) /\ Talking(c, s) /\ Listening(c) /\ Timed(c) /\ AcksTrue(c, w)
      /\ Delivered(d, sp) /\ Len(d) < Len(sp) /\ c.ready = sp[Len(d) + 1]
  BY <1>1 DEF EndIs, Arrived
<1>3. /\ IsChan(b)
      /\ b.closed = c.closed /\ b.rx = c.rx /\ b.tx = c.tx /\ b.train = c.train
      /\ b.pending = c.pending /\ b.out = c.out /\ b.got = c.got /\ b.ack = c.ack
      /\ b.ackQueued = c.ackQueued /\ b.deadline = c.deadline /\ b.overall = c.overall
      /\ b.said = c.said /\ b.ready = None
  BY <1>2 DEF IsChan
<1>4. c.ready \in Words
  BY <1>1, <1>2
<1> DEFINE x == Append(d, c.ready)
<1>5. /\ x \in Seq(Words) /\ Len(x) = Len(d) + 1 /\ x[Len(d) + 1] = c.ready
      /\ \A i \in 1 .. Len(d) : x[i] = d[i]
  BY <1>1, <1>4, Appends
<1> HIDE DEF x
<1>6. Delivered(x, sp)
  <2>1. \A i \in 1 .. Len(d) + 1 : i \in 1 .. Len(d) \/ i = Len(d) + 1
    BY <1>1
  <2> QED BY <1>1, <1>2, <1>5, <2>1 DEF Delivered
<1>7. TakenOf(b, x) = TakenOf(c, d)
  BY <1>1, <1>3, <1>5 DEF TakenOf
<1>8. ReaderOf(b, x) = ReaderOf(c, d) /\ WriterOf(b) = WriterOf(c)
  BY <1>3, <1>7 DEF ReaderOf, WriterOf, MidTrain
<1>9. Talking(b, s) /\ Timed(b) /\ AcksTrue(b, w) /\ Arrived(b, x, sp)
  BY <1>2, <1>3 DEF Talking, MidTrain, Timed, AcksTrue, Arrived
<1>10. Listening(b)
  BY <1>2, <1>3 DEF Listening
<1>11. EndIs(b, x, w, s, cp, dp, sp)
  BY <1>1, <1>3, <1>6, <1>8, <1>9, <1>10 DEF EndIs, LetGo
<1>12. EndIs(cp, dp, wp, sp, b, x, s)
  BY <1>1, <1>3, <1>7, <1>8 DEF EndIs
<1> QED BY <1>5, <1>11, <1>12 DEF Pair, x

(* Whoever starts to send is where it was, with a frame to send.            *)
Starts(b, c, m, s) ==
    /\ IsChan(b)
    /\ b.closed = c.closed /\ b.rx = c.rx /\ b.tx = c.tx /\ b.train = c.train
    /\ b.got = c.got /\ b.ackQueued = c.ackQueued /\ b.ready = c.ready
    /\ b.said = c.said + 1 /\ b.deadline = now + PacketTime
    /\ b.pending = [kind |-> b.pending.kind, msg |-> m, seq |-> c.tx, index |-> 0,
                    count |-> Chunks[m], acks |-> 0, said |-> c.said + 1]
    /\ \/ /\ m \notin Responses /\ b.pending.kind = "plain" /\ b.out = c.out /\ b.ack = c.ack
       \/ /\ m \in Responses /\ b.pending.kind = "chunk" /\ b.out = [msg |-> m, index |-> 0]
          /\ b.ack = [seq |-> c.tx, msg |-> m, so_far |-> 1]

LEMMA StartsToSend ==
    ASSUME NEW c, IsChan(c), NEW m \in Words, NEW s, NEW a, a = [c EXCEPT !.said = @ + 1], NEW b,
           b = (IF m \in Responses THEN [M!NextChunk(a, m, 0) EXCEPT !.overall = now + OverallTime]
                ELSE M!Packet(a, M!Frame(a, "plain", m, 0, 1, 0)))
    PROVE  Starts(b, c, m, s)
<1>1. /\ IsChan(a)
      /\ a.closed = c.closed /\ a.rx = c.rx /\ a.tx = c.tx /\ a.train = c.train
      /\ a.pending = c.pending /\ a.out = c.out /\ a.got = c.got /\ a.ack = c.ack
      /\ a.ackQueued = c.ackQueued /\ a.ready = c.ready /\ a.said = c.said + 1
  BY DEF IsChan
<1>3. CASE m \in Responses
  <2>1. PICK x : x = M!NextChunk(a, m, 0)
    OBVIOUS
  <2>2. /\ IsChan(x)
        /\ x.closed = a.closed /\ x.rx = a.rx /\ x.tx = a.tx /\ x.train = a.train
        /\ x.got = a.got /\ x.ackQueued = a.ackQueued /\ x.ready = a.ready
        /\ x.overall = a.overall /\ x.said = a.said
        /\ x.pending = M!Frame(a, "chunk", m, 0, Chunks[m], 0)
        /\ x.deadline = now + PacketTime
        /\ x.out = [msg |-> m, index |-> 0]
        /\ x.ack = [seq |-> a.tx, msg |-> m, so_far |-> 0 + 1]
    <3>1. IsChan(a)
      BY <1>1
    <3> QED BY ONLY <2>1, <3>1, QueuesChunk
  <2>3. b = [x EXCEPT !.overall = now + OverallTime]
    BY <1>3, <2>1
  <2>4. /\ IsChan(b)
        /\ b.closed = x.closed /\ b.rx = x.rx /\ b.tx = x.tx /\ b.train = x.train
        /\ b.got = x.got /\ b.ackQueued = x.ackQueued /\ b.ready = x.ready
        /\ b.said = x.said /\ b.pending = x.pending /\ b.deadline = x.deadline
        /\ b.out = x.out /\ b.ack = x.ack
    BY <2>2, <2>3 DEF IsChan
  <2>5. x.pending = [kind |-> "chunk", msg |-> m, seq |-> c.tx, index |-> 0,
                     count |-> Chunks[m], acks |-> 0, said |-> c.said + 1]
    BY <1>1, <2>2 DEF M!Frame
  <2>6. b.pending.kind = "chunk"
    BY <2>4, <2>5
  <2> QED BY <1>1, <1>3, <2>2, <2>4, <2>5, <2>6 DEF Starts
<1>4. CASE m \notin Responses
  <2>1. PICK x : x = M!Frame(a, "plain", m, 0, 1, 0)
    OBVIOUS
  <2>2. b = M!Packet(a, x)
    BY <1>4, <2>1
  <2>3. /\ IsChan(b)
        /\ b.closed = a.closed /\ b.rx = a.rx /\ b.tx = a.tx /\ b.train = a.train
        /\ b.out = a.out /\ b.got = a.got /\ b.ack = a.ack /\ b.ackQueued = a.ackQueued
        /\ b.ready = a.ready /\ b.overall = a.overall /\ b.said = a.said
        /\ b.pending = x /\ b.deadline = now + PacketTime
    <3>1. IsChan(a)
      BY <1>1
    <3> QED BY ONLY <2>2, <3>1, QueuesPacket
  <2>4. Chunks[m] = 1
    BY <1>4, TalkAssumption
  <2>5. x = [kind |-> "plain", msg |-> m, seq |-> c.tx, index |-> 0,
             count |-> Chunks[m], acks |-> 0, said |-> c.said + 1]
    BY <1>1, <2>1, <2>4 DEF M!Frame
  <2>6. b.pending.kind = "plain"
    BY <2>3, <2>5
  <2> QED BY <1>1, <1>4, <2>3, <2>5, <2>6 DEF Starts
<1> QED BY <1>3, <1>4

(* Sending a message.                                                       *)
LEMMA SendKeeps ==
    ASSUME NEW c, NEW d, NEW w, NEW s, NEW cp, NEW dp, NEW wp, NEW sp, now \in Nat,
           Pair(c, d, w, s, cp, dp, wp, sp), ~c.closed, NEW m \in Words,
           c.out = None, c.got = <<>>, c.ready = None, c.pending = None,
           NEW b, Starts(b, c, m, s)
    PROVE  Pair(b, d, w, Append(s, m), cp, dp, wp, sp)
<1>1. /\ EndIs(c, d, w, s, cp, dp, sp) /\ EndIs(cp, dp, wp, sp, c, d, s) /\ s \in Seq(Words)
      /\ dp \in Seq(Words) /\ Len(dp) \in Nat
  BY DEF Pair
<1>2. Talking(c, s) /\ Listening(c) /\ AcksTrue(c, w) /\ Arrived(c, d, sp) /\ Delivered(d, sp)
  BY <1>1 DEF EndIs
<1>3. c.tx \in Nat /\ c.said = Len(s) /\ Len(s) \in Nat /\ Chunks[m] \in Nat \ {0}
  BY <1>1, <1>2, TalkAssumption DEF Talking
<1> DEFINE t == Append(s, m)
<1>4. t \in Seq(Words) /\ Len(t) = Len(s) + 1 /\ t[Len(s) + 1] = m /\ t # <<>>
  BY <1>1, Appends
<1>5. /\ \A f : Truthful(s, f) => Truthful(t, f)
      /\ \A u, r : InFlight(u, s, r) => InFlight(u, t, r)
      /\ \A x : Len(x) \in Nat /\ Delivered(x, s) => Delivered(x, t)
      /\ \A y, x : Len(x) \in Nat /\ Arrived(y, x, s) => Arrived(y, x, t)
  BY <1>1, SaidMore
<1> HIDE DEF t
<1>6. b.ackQueued = c.ackQueued /\ c.ackQueued \in BOOLEAN /\ ~c.ackQueued
  BY <1>2 DEF Listening, Starts
<1>7. /\ b.pending \in Frames /\ b.pending # None /\ b.pending.kind \in {"plain", "chunk"}
      /\ b.pending.msg = m /\ b.pending.seq = c.tx /\ b.pending.index = 0
      /\ b.pending.count = Chunks[m] /\ b.pending.said = Len(s) + 1
  <2>1. b.pending.kind \in {"plain", "chunk"}
    BY DEF Starts
  <2>2. b.pending = [kind |-> b.pending.kind, msg |-> m, seq |-> c.tx, index |-> 0,
                     count |-> Chunks[m], acks |-> 0, said |-> c.said + 1]
    BY DEF Starts
  <2>3. b.pending \in Frames
    BY <1>3, <2>1, <2>2 DEF Frames
  <2> QED BY <1>3, <2>1, <2>2, <2>3, NoneAssumption
<1>8. Truthful(t, b.pending)
  <2>1. b.pending.kind # "chunk" => Chunks[m] = 1
    BY TalkAssumption DEF Starts
  <2>2. b.pending.index < b.pending.count /\ b.pending.said <= Len(t) /\ b.pending.said >= 1
    BY <1>3, <1>4, <1>7
  <2> QED BY <1>3, <1>4, <1>7, <2>1, <2>2 DEF Truthful
<1>9. Talking(b, t)
  <2>1. CASE b.pending.kind = "plain"
    <3>1. b.out = None /\ b.ack = None
      BY <1>2, <2>1 DEF Starts, Talking
    <3> QED BY <1>3, <1>4, <1>6, <1>7, <1>8, <2>1, <3>1 DEF Talking, Starts
  <2>2. CASE b.pending.kind = "chunk"
    <3>1. /\ b.out = [msg |-> m, index |-> 0]
          /\ b.ack = [seq |-> c.tx, msg |-> m, so_far |-> 1]
      BY <2>2 DEF Starts
    <3>2. b.out \in Positions
      BY <3>1 DEF Positions
    <3>3. b.out # None
      BY <3>2, NoneAssumption
    <3>4. /\ b.out.msg = m /\ b.out.index = 0 /\ b.ack.seq = c.tx
          /\ b.ack = [seq |-> b.ack.seq, msg |-> b.out.msg, so_far |-> b.out.index + 1]
      BY <3>1
    <3> QED BY <1>3, <1>4, <1>6, <1>7, <1>8, <2>2, <3>1, <3>3, <3>4 DEF Talking, Starts
  <2> QED BY <1>7, <2>1, <2>2
<1>10. Listening(b)
  BY <1>2, <1>6 DEF Listening, Starts
<1>11. Timed(b) /\ Arrived(b, d, sp)
  BY NoneAssumption, TimeAssumption DEF Timed, Arrived, Starts
<1>12. AcksTrue(b, w)
  BY <1>2, <1>7 DEF AcksTrue, AckTrue, Starts
<1>13. TakenOf(b, d) = TakenOf(c, d) /\ ReaderOf(b, d) = ReaderOf(c, d)
  BY DEF TakenOf, ReaderOf, Starts
<1>14. WriterOf(b) = WriterOf(c)
  <2>1. WriterOf(c) = Point(c.tx, 0, c.said)
    BY DEF WriterOf, MidTrain
  <2>2. Begins(b.pending) = Point(c.tx, 0, c.said)
    BY <1>3, <1>7 DEF Begins
  <2> QED BY <1>7, <2>1, <2>2 DEF WriterOf
<1>15. ~cp.closed => LetGo(b, t, TakenOf(cp, dp))
  <2>1. b.out = None => m \notin Responses
    <3>1. [msg |-> m, index |-> 0] \in Positions
      BY DEF Positions
    <3> QED BY <3>1, NoneAssumption DEF Starts
  <2> QED BY <1>3, <1>4, <2>1 DEF LetGo
<1>16. IsChan(b) /\ b.closed = c.closed
  BY DEF Starts
<1>17. EndIs(b, d, w, t, cp, dp, sp)
  BY <1>1, <1>2, <1>5, <1>9, <1>10, <1>11, <1>12, <1>14, <1>15, <1>16 DEF EndIs
<1>18. EndIs(cp, dp, wp, sp, b, d, t)
  BY <1>1, <1>5, <1>13, <1>16 DEF EndIs
<1> QED BY <1>4, <1>17, <1>18 DEF Pair, t

(* Flushing a frame.                                                        *)
LEMMA FlushKeeps ==
    ASSUME NEW c, NEW d, NEW w, NEW s, NEW cp, NEW dp, NEW wp, NEW sp, now \in Nat,
           Pair(c, d, w, s, cp, dp, wp, sp), ~c.closed, ~cp.closed, c.pending # None,
           NEW b, b = M!Flushed(c)
    PROVE  Pair(b, d, Append(w, c.pending), s, cp, dp, wp, sp)
<1>1. /\ EndIs(c, d, w, s, cp, dp, sp) /\ EndIs(cp, dp, wp, sp, c, d, s) /\ w \in Seq(Frames)
      /\ s \in Seq(Words)
  BY DEF Pair
<1>2. /\ IsChan(c) /\ Talking(c, s) /\ Listening(c) /\ AcksTrue(c, w) /\ Arrived(c, d, sp)
      /\ Delivered(d, sp) /\ Timed(c) /\ InFlight(w, s, ReaderOf(cp, dp))
      /\ Meets(w, WriterOf(c), ReaderOf(cp, dp)) /\ LetGo(c, s, TakenOf(cp, dp))
  BY <1>1 DEF EndIs
<1>3. PICK f : f = c.pending
  OBVIOUS
<1>4. /\ Truthful(s, f) /\ f.seq = c.tx /\ f.said = c.said /\ (f.kind = "ack" <=> c.ackQueued)
      /\ (f.kind = "chunk" <=> c.out # None) /\ c.tx \in Nat /\ c.said = Len(s)
      /\ c.out # None => f.index = c.out.index /\ f.msg = c.out.msg /\ c.ack.seq = c.tx
  BY <1>2, <1>3 DEF Talking
<1>5. /\ f \in Frames /\ f.index \in Nat /\ f.count \in Nat /\ f.kind \in {"plain", "chunk", "ack"}
      /\ f.said \in Nat /\ f.index < f.count
      /\ (f.kind # "chunk" => f.index = 0 /\ f.count = 1)
      /\ (f.kind = "chunk" => f.count = Chunks[f.msg])
  BY <1>4, FrameFields DEF Truthful
<1>listen. c.ackQueued \in BOOLEAN /\ (c.ackQueued => c.out = None)
  BY <1>2 DEF Listening
<1>6. /\ IsChan(b)
      /\ b.closed = c.closed /\ b.rx = c.rx /\ b.train = c.train /\ b.out = c.out
      /\ b.ack = c.ack /\ b.ready = c.ready /\ b.said = c.said
      /\ b.pending = None /\ b.ackQueued = FALSE
      /\ b.got = (IF c.ackQueued /\ c.ready # None THEN <<>> ELSE c.got)
      /\ Timed(b)
  BY <1>2, <1>listen, Flushes
<1>7. b.tx = (IF f.index = f.count - 1 THEN c.tx + 1 ELSE c.tx)
  BY <1>2, <1>3, <1>listen, Flushes
<1>8. MidTrain(b) <=> f.kind = "chunk" /\ f.index # f.count - 1
  <2>1. f.kind = "chunk" => Chunks[f.msg] \in Nat
    BY <1>5
  <2> QED BY <1>4, <1>5, <1>6, <2>1 DEF MidTrain
<1>9. WriterOf(b) = Finishes(f)
  <2>1. CASE f.index = f.count - 1
    <3>1. WriterOf(b) = Point(c.tx + 1, 0, c.said)
      BY <1>6, <1>7, <1>8, <2>1 DEF WriterOf
    <3> QED BY <1>4, <2>1, <3>1 DEF Finishes
  <2>2. CASE f.index # f.count - 1
    <3>1. f.kind = "chunk"
      BY <1>5, <2>2
    <3>2. WriterOf(b) = Point(c.tx, c.out.index + 1, c.said - 1)
      BY <1>6, <1>7, <1>8, <2>2, <3>1 DEF WriterOf
    <3> QED BY <1>4, <2>2, <3>1, <3>2 DEF Finishes
  <2> QED BY <2>1, <2>2
<1>10. WriterOf(c) = Begins(f)
  BY <1>3 DEF WriterOf
<1>11. InFlight(Append(w, f), s, ReaderOf(cp, dp)) /\ Meets(Append(w, f), WriterOf(b), ReaderOf(cp, dp))
  BY <1>1, <1>2, <1>4, <1>9, <1>10, Pushed
<1>12. Talking(b, s)
  BY <1>2, <1>4, <1>5, <1>6, <1>7, <1>8 DEF Talking
<1>13. Listening(b)
  <2>1. c.ready # None /\ ~c.ackQueued => c.got = <<>>
    BY <1>2 DEF Listening
  <2>2. c.ready # None => b.got = <<>>
    BY <1>6, <2>1
  <2>3. c.ready = None => b.got = c.got
    BY <1>6
  <2>4. c.got = <<>> => b.got = <<>>
    BY <1>6
  <2>5. b.ackQueued \in BOOLEAN /\ ~b.ackQueued
    BY <1>6
  <2>6. b.got \in Seq(Words)
    BY <1>2, <1>6 DEF Listening
  <2> QED BY <1>2, <1>6, <2>2, <2>3, <2>4, <2>5, <2>6 DEF Listening
<1>14. AcksTrue(b, Append(w, f))
  <2>1. /\ Len(w) \in Nat /\ Len(Append(w, f)) = Len(w) + 1 /\ Append(w, f)[Len(w) + 1] = f
        /\ \A i \in 1 .. Len(w) : Append(w, f)[i] = w[i]
    BY <1>1, <1>5, Appends
  <2>2. \A i \in 1 .. Len(w) + 1 : i \in 1 .. Len(w) \/ i = Len(w) + 1
    BY <2>1
  <2> QED BY <1>2, <1>3, <1>6, <2>1, <2>2 DEF AcksTrue
<1>15. TakenOf(b, d) = TakenOf(c, d) /\ ReaderOf(b, d) = ReaderOf(c, d) /\ Arrived(b, d, sp)
  BY <1>2, <1>6 DEF TakenOf, ReaderOf, Arrived
<1>16. LetGo(b, s, TakenOf(cp, dp))
  BY <1>2, <1>6 DEF LetGo
<1>17. EndIs(b, d, Append(w, f), s, cp, dp, sp)
  BY <1>1, <1>2, <1>6, <1>11, <1>12, <1>13, <1>14, <1>15, <1>16 DEF EndIs
<1>18. EndIs(cp, dp, wp, sp, b, d, s)
  BY <1>1, <1>6, <1>15 DEF EndIs
<1>19. Append(w, f) \in Seq(Frames)
  BY <1>1, <1>5
<1> QED BY <1>3, <1>17, <1>18, <1>19 DEF Pair

(* Repeating the last frame.                                                *)
LEMMA RepeatKeeps ==
    ASSUME NEW c, NEW d, NEW w, NEW s, NEW cp, NEW dp, NEW wp, NEW sp,
           Pair(c, d, w, s, cp, dp, wp, sp), w # <<>>
    PROVE  Pair(c, d, Append(w, w[Len(w)]), s, cp, dp, wp, sp)
<1>1. /\ EndIs(c, d, w, s, cp, dp, sp) /\ EndIs(cp, dp, wp, sp, c, d, s) /\ w \in Seq(Frames)
  BY DEF Pair
<1>2. PICK u : u = Append(w, w[Len(w)])
  OBVIOUS
<1>3. Len(w) \in 1 .. Len(w) /\ w[Len(w)] \in Frames
  BY <1>1
<1>4. /\ u \in Seq(Frames) /\ Len(u) = Len(w) + 1 /\ u[Len(w) + 1] = w[Len(w)]
      /\ \A i \in 1 .. Len(w) : u[i] = w[i]
  BY <1>1, <1>2, <1>3, Appends
<1>5. AcksTrue(c, w) => AcksTrue(c, u)
  <2>1. \A i \in 1 .. Len(w) + 1 : i \in 1 .. Len(w) \/ i = Len(w) + 1
    BY <1>3
  <2> QED BY <1>3, <1>4, <2>1 DEF AcksTrue
<1>6. /\ ~cp.closed => InFlight(u, s, ReaderOf(cp, dp))
      /\ ~c.closed /\ ~cp.closed => Meets(u, WriterOf(c), ReaderOf(cp, dp))
  BY <1>1, <1>2, Repeated DEF EndIs
<1>7. EndIs(c, d, u, s, cp, dp, sp)
  BY <1>1, <1>5, <1>6 DEF EndIs
<1> QED BY <1>1, <1>2, <1>4, <1>7 DEF Pair

(* The two ends of the channel, and back.                                   *)
Both(e, p) == Pair(chan[e], delivered[e], wire[e], sent[e],
                   chan[p], delivered[p], wire[p], sent[p])
BothNext(e, p) == Pair(chan'[e], delivered'[e], wire'[e], sent'[e],
                       chan'[p], delivered'[p], wire'[p], sent'[p])

Shaped == /\ chan = [e \in M!Ends |-> chan[e]] /\ wire = [e \in M!Ends |-> wire[e]]
          /\ sent = [e \in M!Ends |-> sent[e]] /\ delivered = [e \in M!Ends |-> delivered[e]]

LEMMA Paired ==
    ASSUME ChannelInv, NEW e \in M!Ends
    PROVE  Both(e, M!Other(e)) /\ Shaped /\ now \in Nat
<1>1. M!Other(e) \in M!Ends /\ M!Other(M!Other(e)) = e
  BY Others
<1>2. EndInv(e) /\ EndInv(M!Other(e))
  BY <1>1 DEF ChannelInv
<1>3. /\ EndIs(chan[e], delivered[e], wire[e], sent[e],
               chan[M!Other(e)], delivered[M!Other(e)], sent[M!Other(e)])
      /\ EndIs(chan[M!Other(e)], delivered[M!Other(e)], wire[M!Other(e)], sent[M!Other(e)],
               chan[e], delivered[e], sent[e])
  BY <1>1, <1>2 DEF EndInv
<1>4. /\ sent \in [M!Ends -> Seq(Words)] /\ delivered \in [M!Ends -> Seq(Words)]
      /\ wire \in [M!Ends -> Seq(Frames)] /\ chan = [x \in M!Ends |-> chan[x]] /\ now \in Nat
  BY DEF ChannelInv
<1>5. Shaped
  BY <1>4 DEF Shaped
<1> QED BY <1>1, <1>3, <1>4, <1>5 DEF Both, Pair

LEMMA PrimedEnd ==
    ASSUME NEW e \in M!Ends
    PROVE  EndInv(e)' <=> EndIs(chan'[e], delivered'[e], wire'[e], sent'[e],
                                chan'[M!Other(e)], delivered'[M!Other(e)], sent'[M!Other(e)])
  BY DEF EndInv, EndIs, IsChan, Delivered, Talking, Listening, Timed, AcksTrue, AckTrue, Arrived,
         InFlight, Truthful, Meets, Before, Begins, Finishes, Point, ReaderOf, TakenOf, WriterOf,
         MidTrain, LetGo, Words, Frames, Acks, M!Other

LEMMA PairedNext ==
    ASSUME NEW e \in M!Ends, BothNext(e, M!Other(e)), Shaped', now' \in Nat
    PROVE  ChannelInv'
<1>1. /\ M!Other(e) \in M!Ends /\ M!Other(M!Other(e)) = e
      /\ \A x \in M!Ends : x = e \/ x = M!Other(e)
  BY Others
<1>2. EndInv(e)'
  BY PrimedEnd DEF BothNext, Pair
<1>3. EndInv(M!Other(e))'
  BY <1>1, PrimedEnd DEF BothNext, Pair
<1>4. /\ sent' = [x \in M!Ends |-> sent'[x]] /\ delivered' = [x \in M!Ends |-> delivered'[x]]
      /\ wire' = [x \in M!Ends |-> wire'[x]] /\ chan' = [x \in M!Ends |-> chan'[x]]
  BY DEF Shaped
<1>5. \A x \in M!Ends : sent'[x] \in Seq(Words) /\ delivered'[x] \in Seq(Words) /\ wire'[x] \in Seq(Frames)
  BY <1>1 DEF BothNext, Pair
<1>6. \A x \in M!Ends : EndInv(x)'
  BY <1>1, <1>2, <1>3
<1>7. /\ sent' \in [M!Ends -> Seq(Words)] /\ delivered' \in [M!Ends -> Seq(Words)]
      /\ wire' \in [M!Ends -> Seq(Frames)]
  BY <1>4, <1>5
<1> QED BY <1>4, <1>6, <1>7 DEF ChannelInv

LEMMA TickClosesInv == ASSUME ChannelInv, NEW e \in M!Ends, M!TickCloses(e) PROVE ChannelInv'
<1> DEFINE p == M!Other(e)
<1>1. Both(e, p) /\ Shaped /\ now \in Nat /\ p # e /\ p \in M!Ends
  BY Paired, Others
<1> HIDE DEF p
<1>2. /\ chan' = [chan EXCEPT ![e] = M!Closed(chan[e])]
      /\ wire' = wire /\ sent' = sent /\ delivered' = delivered /\ now' = now
  BY DEF M!TickCloses
<1>3. chan'[e] = M!Closed(chan[e]) /\ chan'[p] = chan[p] /\ Shaped'
  BY <1>1, <1>2 DEF Shaped
<1>4. wire[p] \in Seq(Frames)
  BY <1>1 DEF Both, Pair
<1>5. Pair(M!Closed(chan[e]), delivered[e], wire[e], sent[e], chan[p], delivered[p], wire[p], sent[p])
  BY <1>1, <1>4, ClosingKeeps DEF Both
<1>6. BothNext(e, p)
  BY <1>2, <1>3, <1>5 DEF BothNext
<1> QED BY <1>1, <1>2, <1>3, <1>6, PairedNext DEF p

LEMMA SendMessageInv == ASSUME ChannelInv, NEW e \in M!Ends, M!Send(e) PROVE ChannelInv'
<1> DEFINE p == M!Other(e)
<1>1. Both(e, p) /\ Shaped /\ now \in Nat /\ p # e /\ p \in M!Ends
  BY Paired, Others
<1> HIDE DEF p
<1>2. PICK m : m = Talk[e][Len(sent[e]) + 1]
  OBVIOUS
<1>3. PICK a : a = [chan[e] EXCEPT !.said = @ + 1]
  OBVIOUS
<1>4. PICK b : b = (IF m \in Responses THEN [M!NextChunk(a, m, 0) EXCEPT !.overall = now + OverallTime]
                    ELSE M!Packet(a, M!Frame(a, "plain", m, 0, 1, 0)))
  OBVIOUS
<1>5. /\ ~chan[e].closed /\ Len(sent[e]) < Len(Talk[e])
      /\ a.out = None /\ a.got = <<>> /\ a.ready = None /\ a.pending = None
      /\ chan' = [chan EXCEPT ![e] = b] /\ sent' = [sent EXCEPT ![e] = Append(sent[e], m)]
      /\ wire' = wire /\ delivered' = delivered /\ now' = now
  BY <1>2, <1>3, <1>4 DEF M!Send, M!Usable
<1>6. m \in Words
  <2>1. Talk[e] \in Seq(Words)
    BY TalkAssumption DEF M!Ends
  <2>2. Len(sent[e]) \in Nat
    BY <1>1 DEF Both, Pair
  <2> QED BY <1>2, <1>5, <2>1, <2>2
<1>7. IsChan(chan[e])
  BY <1>1 DEF Both, Pair, EndIs
<1>8. chan[e].out = None /\ chan[e].got = <<>> /\ chan[e].ready = None /\ chan[e].pending = None
  <2>1. PICK c : c = chan[e]
    OBVIOUS
  <2>2. a.out = c.out /\ a.got = c.got /\ a.ready = c.ready /\ a.pending = c.pending
    BY <1>3, <1>7, <2>1 DEF IsChan
  <2> QED BY <1>5, <2>1, <2>2
<1>9. Starts(b, chan[e], m, sent[e])
  BY <1>3, <1>4, <1>6, <1>7, StartsToSend
<1>10. Pair(b, delivered[e], wire[e], Append(sent[e], m), chan[p], delivered[p], wire[p], sent[p])
  BY <1>1, <1>5, <1>6, <1>8, <1>9, SendKeeps DEF Both
<1>11. /\ chan'[e] = b /\ chan'[p] = chan[p] /\ sent'[e] = Append(sent[e], m) /\ sent'[p] = sent[p]
       /\ Shaped'
  BY <1>1, <1>5 DEF Shaped
<1>12. BothNext(e, p)
  BY <1>5, <1>10, <1>11 DEF BothNext
<1> QED BY <1>1, <1>5, <1>11, <1>12, PairedNext DEF p

LEMMA FlushInv == ASSUME ChannelInv, NEW e \in M!Ends, M!Flush(e) PROVE ChannelInv'
<1> DEFINE p == M!Other(e)
<1>1. Both(e, p) /\ Shaped /\ now \in Nat /\ p # e /\ p \in M!Ends /\ p = M!Other(e)
  BY Paired, Others
<1> HIDE DEF p
<1>2. /\ ~chan[e].closed /\ chan[e].pending # None
      /\ sent' = sent /\ delivered' = delivered /\ now' = now
  BY DEF M!Flush, M!Usable
<1>3. CASE /\ ~chan[p].closed
           /\ wire' = [wire EXCEPT ![e] = Append(wire[e], chan[e].pending)]
           /\ chan' = [chan EXCEPT ![e] = M!Flushed(chan[e])]
  <2>1. /\ chan'[e] = M!Flushed(chan[e]) /\ chan'[p] = chan[p] /\ Shaped'
        /\ wire'[e] = Append(wire[e], chan[e].pending) /\ wire'[p] = wire[p]
    BY <1>1, <1>2, <1>3 DEF Shaped
  <2>2. Pair(M!Flushed(chan[e]), delivered[e], Append(wire[e], chan[e].pending), sent[e],
             chan[p], delivered[p], wire[p], sent[p])
    BY <1>1, <1>2, <1>3, FlushKeeps DEF Both
  <2>3. BothNext(e, p)
    BY <1>2, <2>1, <2>2 DEF BothNext
  <2> QED BY <1>1, <1>2, <2>1, <2>3, PairedNext
<1>4. CASE chan' = [chan EXCEPT ![e] = M!Closed(chan[e])] /\ wire' = wire
  <2>1. chan'[e] = M!Closed(chan[e]) /\ chan'[p] = chan[p] /\ Shaped'
    BY <1>1, <1>2, <1>4 DEF Shaped
  <2>2. wire[p] \in Seq(Frames)
    BY <1>1 DEF Both, Pair
  <2>3. Pair(M!Closed(chan[e]), delivered[e], wire[e], sent[e], chan[p], delivered[p], wire[p], sent[p])
    BY <1>1, <2>2, ClosingKeeps DEF Both
  <2>4. BothNext(e, p)
    BY <1>2, <1>4, <2>1, <2>3 DEF BothNext
  <2> QED BY <1>1, <1>2, <2>1, <2>4, PairedNext
<1> QED BY <1>1, <1>3, <1>4 DEF M!Flush

LEMMA ReceiveInv == ASSUME ChannelInv, NEW e \in M!Ends, M!Receive(e) PROVE ChannelInv'
<1> DEFINE p == M!Other(e)
           c == chan[e]
           w == wire[p]
           f == Head(w)
           a == M!Advance(c, f)
<1>1. Both(e, p) /\ Shaped /\ now \in Nat /\ p # e /\ p \in M!Ends /\ w \in Seq(Frames)
  BY Paired, Others DEF Both, Pair
<1>2. ~c.closed /\ sent' = sent /\ now' = now
  BY DEF M!Receive, M!Usable
<1>3. \/ /\ c.ready # None /\ ~c.ackQueued
         /\ chan' = [chan EXCEPT ![e].ready = None]
         /\ delivered' = [delivered EXCEPT ![e] = Append(delivered[e], c.ready)]
         /\ wire' = wire
      \/ /\ w # <<>> /\ wire' = [wire EXCEPT ![p] = Tail(w)]
         /\ \/ /\ M!Continues(c, f) /\ f.kind = "plain" /\ ~M!Busy(a) /\ a.got = <<>>
               /\ chan' = [chan EXCEPT ![e] = a]
               /\ delivered' = [delivered EXCEPT ![e] = Append(delivered[e], f.msg)]
            \/ /\ M!Continues(c, f) /\ f.kind = "ack" /\ delivered' = delivered
               /\ chan' = [chan EXCEPT ![e] = M!OnAck(a, f)]
            \/ /\ M!Continues(c, f) /\ f.kind = "chunk" /\ delivered' = delivered
               /\ chan' = [chan EXCEPT ![e] = M!OnChunk(a, f)]
            \/ chan' = [chan EXCEPT ![e] = M!Closed(c)] /\ delivered' = delivered
      \/ /\ chan' = [chan EXCEPT ![e] = M!Closed(c)] /\ wire' = wire /\ delivered' = delivered
  BY DEF M!Receive
<1>4. ASSUME NEW b, chan' = [chan EXCEPT ![e] = b], NEW x, NEW u,
             delivered' = [delivered EXCEPT ![e] = x] \/ (delivered' = delivered /\ x = delivered[e]),
             wire' = [wire EXCEPT ![p] = u] \/ (wire' = wire /\ u = wire[p]),
             Pair(b, x, wire[e], sent[e], chan[p], delivered[p], u, sent[p])
      PROVE  ChannelInv'
  <2> HIDE DEF p, c, w, f, a
  <2>1. chan'[e] = b /\ chan'[p] = chan[p] /\ chan' = [y \in M!Ends |-> chan'[y]]
    BY <1>1, <1>4 DEF Shaped
  <2>2. /\ delivered'[e] = x /\ delivered'[p] = delivered[p]
        /\ delivered' = [y \in M!Ends |-> delivered'[y]]
    BY <1>1, <1>4 DEF Shaped
  <2>3. wire'[e] = wire[e] /\ wire'[p] = u /\ wire' = [y \in M!Ends |-> wire'[y]]
    BY <1>1, <1>4 DEF Shaped
  <2>4. Shaped'
    BY <1>1, <1>2, <2>1, <2>2, <2>3 DEF Shaped
  <2>5. BothNext(e, p)
    BY <1>2, <1>4, <2>1, <2>2, <2>3 DEF BothNext
  <2> QED BY <1>1, <1>2, <2>4, <2>5, PairedNext DEF p
<1>5. w # <<>> => f = w[1]
  BY <1>1, Tails
<1>6. Pair(c, delivered[e], wire[e], sent[e], chan[p], delivered[p], w, sent[p])
  BY <1>1 DEF Both
<1> HIDE DEF p, w, f, a
<1>7. CASE /\ c.ready # None /\ ~c.ackQueued
           /\ chan' = [chan EXCEPT ![e].ready = None]
           /\ delivered' = [delivered EXCEPT ![e] = Append(delivered[e], c.ready)]
           /\ wire' = wire
  <2>1. PICK b : b = [c EXCEPT !.ready = None]
    OBVIOUS
  <2>2. chan' = [chan EXCEPT ![e] = b]
    BY <1>1, <1>7, <2>1 DEF Shaped
  <2> HIDE DEF c
  <2>3. Pair(b, Append(delivered[e], c.ready), wire[e], sent[e], chan[p], delivered[p], w, sent[p])
    BY <1>2, <1>6, <1>7, <2>1, HandOverKeeps
  <2> QED BY <1>4, <1>7, <2>2, <2>3 DEF w
<1>8. CASE /\ w # <<>> /\ wire' = [wire EXCEPT ![p] = Tail(w)]
           /\ M!Continues(c, f) /\ f.kind = "plain" /\ ~M!Busy(a) /\ a.got = <<>>
           /\ chan' = [chan EXCEPT ![e] = a]
           /\ delivered' = [delivered EXCEPT ![e] = Append(delivered[e], f.msg)]
  <2> HIDE DEF c
  <2>1. a = M!Advance(c, f)
    BY DEF a
  <2>2. Pair(a, Append(delivered[e], f.msg), wire[e], sent[e], chan[p], delivered[p], Tail(w), sent[p])
    BY <1>2, <1>5, <1>6, <1>8, <2>1, PlainKeeps
  <2> QED BY <1>4, <1>8, <2>2
<1>9. CASE /\ w # <<>> /\ wire' = [wire EXCEPT ![p] = Tail(w)]
           /\ M!Continues(c, f) /\ f.kind = "ack" /\ delivered' = delivered
           /\ chan' = [chan EXCEPT ![e] = M!OnAck(a, f)]
  <2> HIDE DEF c
  <2>1. a = M!Advance(c, f)
    BY DEF a
  <2>2. Pair(M!OnAck(a, f), delivered[e], wire[e], sent[e], chan[p], delivered[p], Tail(w), sent[p])
    BY <1>1, <1>2, <1>5, <1>6, <1>9, <2>1, AckKeeps
  <2> QED BY <1>4, <1>9, <2>2
<1>10. CASE /\ w # <<>> /\ wire' = [wire EXCEPT ![p] = Tail(w)]
            /\ M!Continues(c, f) /\ f.kind = "chunk" /\ delivered' = delivered
            /\ chan' = [chan EXCEPT ![e] = M!OnChunk(a, f)]
  <2> HIDE DEF c
  <2>1. a = M!Advance(c, f)
    BY DEF a
  <2>2. Pair(M!OnChunk(a, f), delivered[e], wire[e], sent[e], chan[p], delivered[p], Tail(w), sent[p])
    BY <1>1, <1>2, <1>5, <1>6, <1>10, <2>1, ChunkKeeps
  <2> QED BY <1>4, <1>10, <2>2
<1>11. CASE /\ w # <<>> /\ wire' = [wire EXCEPT ![p] = Tail(w)]
            /\ chan' = [chan EXCEPT ![e] = M!Closed(c)] /\ delivered' = delivered
  <2> HIDE DEF c
  <2>1. Pair(M!Closed(c), delivered[e], wire[e], sent[e], chan[p], delivered[p], Tail(w), sent[p])
    BY <1>6, <1>11, ReadsAndCloses
  <2> QED BY <1>4, <1>11, <2>1
<1>12. CASE chan' = [chan EXCEPT ![e] = M!Closed(c)] /\ wire' = wire /\ delivered' = delivered
  <2> HIDE DEF c
  <2>1. Pair(M!Closed(c), delivered[e], wire[e], sent[e], chan[p], delivered[p], w, sent[p])
    BY <1>1, <1>6, ClosingKeeps
  <2> QED BY <1>4, <1>12, <2>1 DEF w
<1> QED BY <1>3, <1>7, <1>8, <1>9, <1>10, <1>11, <1>12

LEMMA RepeatInv == ASSUME ChannelInv, NEW e \in M!Ends, M!Repeat(e) PROVE ChannelInv'
<1> DEFINE p == M!Other(e)
<1>1. Both(e, p) /\ Shaped /\ now \in Nat /\ p # e /\ p \in M!Ends
  BY Paired, Others
<1> HIDE DEF p
<1>2. /\ wire[e] # <<>> /\ wire' = [wire EXCEPT ![e] = Append(wire[e], wire[e][Len(wire[e])])]
      /\ chan' = chan /\ sent' = sent /\ delivered' = delivered /\ now' = now
  BY DEF M!Repeat
<1>3. wire'[e] = Append(wire[e], wire[e][Len(wire[e])]) /\ wire'[p] = wire[p] /\ Shaped'
  BY <1>1, <1>2 DEF Shaped
<1>4. Pair(chan[e], delivered[e], Append(wire[e], wire[e][Len(wire[e])]), sent[e],
           chan[p], delivered[p], wire[p], sent[p])
  BY <1>1, <1>2, RepeatKeeps DEF Both
<1>5. BothNext(e, p)
  BY <1>2, <1>3, <1>4 DEF BothNext
<1> QED BY <1>1, <1>2, <1>3, <1>5, PairedNext DEF p

LEMMA ChannelNext == ASSUME ChannelInv, [M!Next]_channel PROVE ChannelInv'
<1>1. CASE chan' = chan /\ wire' = wire /\ sent' = sent /\ delivered' = delivered /\ now' \in Nat
  <2>1. PICK e \in M!Ends : TRUE
    BY DEF M!Ends
  <2>2. Both(e, M!Other(e)) /\ Shaped
    BY Paired
  <2>3. Shaped' /\ BothNext(e, M!Other(e))
    BY <1>1, <2>2 DEF Shaped, Both, BothNext
  <2> QED BY <1>1, <2>3, PairedNext
<1>2. CASE M!Tick
  BY <1>1, <1>2 DEF M!Tick, ChannelInv
<1>3. CASE UNCHANGED channel
  BY <1>1, <1>3 DEF channel, ChannelInv
<1> QED BY <1>2, <1>3, TickClosesInv, SendMessageInv, FlushInv, ReceiveInv, RepeatInv DEF M!Next

LEMMA ChannelInit == M!Init => ChannelInv
<1> SUFFICES ASSUME M!Init PROVE ChannelInv
  OBVIOUS
<1> DEFINE c == M!Fresh
<1>1. IsChan(c)
  BY DEF IsChan, M!Fresh
<1>2. /\ c.closed = FALSE /\ c.rx = 1 /\ c.tx = 1 /\ c.train = 0 /\ c.pending = None /\ c.out = None
      /\ c.got = <<>> /\ c.ack = None /\ c.ackQueued = FALSE /\ c.ready = None /\ c.said = 0
  BY DEF M!Fresh
<1> HIDE DEF c
<1>3. Talking(c, <<>>)
  BY <1>2 DEF Talking
<1>4. Listening(c)
  <2>1. c.got \in Seq(Words) /\ Len(c.got) = 0
    BY <1>2
  <2>2. c.ackQueued \in BOOLEAN /\ ~c.ackQueued
    BY <1>2
  <2> QED BY <1>2, <2>1, <2>2 DEF Listening
<1>5. Timed(c) /\ AcksTrue(c, <<>>) /\ Arrived(c, <<>>, <<>>) /\ Delivered(<<>>, <<>>)
  BY <1>2 DEF Timed, AcksTrue, Arrived, Delivered
<1>6. InFlight(<<>>, <<>>, ReaderOf(c, <<>>))
  BY DEF InFlight
<1>7. WriterOf(c) = ReaderOf(c, <<>>)
  BY <1>2 DEF WriterOf, MidTrain, ReaderOf, TakenOf
<1>8. Meets(<<>>, WriterOf(c), ReaderOf(c, <<>>)) /\ LetGo(c, <<>>, TakenOf(c, <<>>))
  BY <1>7 DEF Meets, LetGo
<1>9. EndIs(c, <<>>, <<>>, <<>>, c, <<>>, <<>>)
  BY <1>1, <1>2, <1>3, <1>4, <1>5, <1>6, <1>8 DEF EndIs
<1>10. \A e \in M!Ends : EndInv(e)
  BY <1>9, Others DEF EndInv, M!Init, c
<1> QED BY <1>10 DEF ChannelInv, M!Init

(* What the invariant says of the channel.                                  *)
LEMMA ChannelProperty == ChannelInv => M!DeliveredInOrder
<1> SUFFICES ASSUME ChannelInv, NEW e \in M!Ends
             PROVE  LET p == M!Other(e)
                        c == chan[e]
                        peer == chan[p]
                    IN /\ M!IsPrefixOf(delivered[e], sent[p])
                       /\ (~c.closed /\ c.out = None /\ c.pending = None /\ ~peer.closed
                              /\ sent[e] # <<>> /\ sent[e][Len(sent[e])] \in Responses)
                            => \/ Len(delivered[p]) = Len(sent[e])
                               \/ peer.ready = sent[e][Len(sent[e])]
                       /\ ~c.closed /\ (c.out # None \/ c.got # <<>> \/ c.pending # None)
                            => c.deadline # None
  BY DEF M!DeliveredInOrder
<1> DEFINE p == M!Other(e)
           c == chan[e]
           peer == chan[p]
           d == delivered[e]
           s == sent[p]
<1>1. Both(e, p)
  BY Paired
<1> HIDE DEF p
<1>2. EndIs(c, d, wire[e], sent[e], peer, delivered[p], s)
  BY <1>1 DEF Both, Pair
<1>3. EndIs(peer, delivered[p], wire[p], s, c, d, sent[e])
  BY <1>1 DEF Both, Pair
<1>4. /\ d \in Seq(Words) /\ s \in Seq(Words) /\ delivered[p] \in Seq(Words)
      /\ sent[e] \in Seq(Words)
  BY <1>1 DEF Both, Pair
<1> HIDE DEF c, peer, d, s
<1>5. M!IsPrefixOf(d, s)
  <2>1. Len(d) <= Len(s) /\ \A i \in 1 .. Len(d) : d[i] = s[i]
    BY <1>2 DEF EndIs, Delivered
  <2>2. SubSeq(s, 1, Len(d)) = d
    BY <1>4, <2>1
  <2> QED BY <2>1, <2>2 DEF M!IsPrefixOf
<1>6. ASSUME ~c.closed, c.out = None, ~peer.closed, sent[e] # <<>>, sent[e][Len(sent[e])] \in Responses
      PROVE  Len(delivered[p]) = Len(sent[e]) \/ peer.ready = sent[e][Len(sent[e])]
  <2>1. TakenOf(peer, delivered[p]) = Len(sent[e])
    BY <1>2, <1>6 DEF EndIs, LetGo
  <2>2. Len(delivered[p]) \in Nat
    BY <1>4
  <2>3. CASE peer.ready = None
    BY <2>1, <2>2, <2>3 DEF TakenOf
  <2>4. CASE peer.ready # None
    <3>1. peer.ready = sent[e][Len(delivered[p]) + 1]
      BY <1>3, <1>6, <2>4 DEF EndIs, Arrived
    <3>2. Len(delivered[p]) + 1 = Len(sent[e])
      BY <2>1, <2>2, <2>4 DEF TakenOf
    <3> QED BY <3>1, <3>2
  <2> QED BY <2>3, <2>4
<1>7. ~c.closed /\ (c.out # None \/ c.got # <<>> \/ c.pending # None) => c.deadline # None
  BY <1>2 DEF EndIs, Timed
<1> QED BY <1>5, <1>6, <1>7 DEF p, c, peer, d, s

\* A behaviour of the channel keeps its invariant.
ChannelHolds == part = "channel" => ChannelInv

(* Each end of the channel delivers what the other sent, whole, once and in *)
(* order; a response let go of has arrived; and no end waits without a      *)
(* deadline: for every conversation of messages and responses, these of one *)
(* chunk or more, any buffer, clocks, crossings, closes and repeats.        *)
THEOREM ChannelIsInOrder == AllSpec => []DeliveredInOrder
<1>1. AllInit => ChannelHolds
  BY ChannelInit DEF AllInit, ChannelHolds
<1>2. ChannelHolds /\ [AllNext]_all => ChannelHolds'
  BY StepsOfParts, ChannelNext DEF ChannelHolds
<1>3. ChannelHolds => DeliveredInOrder
  BY ChannelProperty DEF ChannelHolds, DeliveredInOrder
<1> QED BY <1>1, <1>2, <1>3, PTL DEF AllSpec
-----------------------------------------------------------------------------
(* The serving authority.  Where a thread stands says what it must still do: *)
(* what it has called stands on its stack, which only a few shapes can have. *)
(* A wrapper being cleaned has one thread that cleans it; a complete one     *)
(* that is not being cleaned is published for a live binding, is about to    *)
(* be published, or a thread is on its way to clean it.                      *)

\* The labels a verification returns to, below it nothing; and the stacks it, a
\* refusal and a cleanup are called with.
Push(l, s) == <<l>> \o s
Callers == {"useChecked", "terminal", "called", "admitChecked", "admitCap", "admitReturn",
            "claim", "publish"}
Revoking == Push("idle", <<>>)
Revoked == Push("revokeDone", Revoking)
InFault == Push("fault", Revoked)
Verifying == {Push(r, <<>>) : r \in Callers} \cup {Push("revokeChecked", Revoking), InFault}
Refusing == Verifying \cup {Push("idle", <<>>), Push("unlock", <<>>)}
Cleans(s) == \/ \E b \in Verifying : s = Push("mismatch", b)
             \/ \E b \in Refusing : s = Push("reject", b)
             \/ s \in {Revoked, Push("abandon", <<>>)}

\* The labels where a thread has called nothing.
Uncalled == {"idle", "useChecked", "useLock", "useBody", "useRun", "useUnlock", "terminal",
             "called", "admitChecked", "admitCap", "admitPhase", "admitWait", "admitLock",
             "admitReturn", "unlock", "build", "claim", "finish", "publishLock", "publish",
             "undo", "abandon"}

\* b was called, and has got as far as a verification, or the refusal after it.
Below(s, b) == s \in {b, Push("mismatch", b), Push("reject", b)}

\* A thread at label l may have the stack s.
StandsAt(l, s) ==
    \/ l \in Uncalled /\ s = <<>>
    \/ l \in {"revoke", "revokeChecked", "revokeDone"} /\ s = Revoking
    \/ l = "verify" /\ s \in Verifying
    \/ l \in {"mismatch", "reject"} /\ s \in Refusing
    \/ l \in {"retire", "discard", "discardWait"} /\ \E b \in Verifying : s = Push("mismatch", b)
    \/ l \in {"clean", "cleanWait"} /\ Cleans(s)
    \/ l \in {"cleanRevoke", "cleanClose"} /\ Cleans(s) /\ ~Below(s, InFault)
    \/ l \in {"cleanFault", "fault"} /\ s = Revoked

\* It works on the capability cur, cleans the wrapper tgt, is about to publish.
HasCap(l, s) ==
    \/ l \in {"revoke", "revokeChecked", "build", "claim", "finish", "publishLock", "publish",
              "undo", "admitPhase", "useChecked", "useLock", "useBody", "useRun", "useUnlock"}
    \/ \E r \in {"claim", "publish", "useChecked"} : Below(s, Push(r, <<>>))
    \/ Below(s, Push("revokeChecked", Revoking))
Faults(l, s) == l \in {"cleanFault", "fault"} \/ Below(s, InFault)
IsCleaning(l, s) == l \in {"cleanRevoke", "cleanClose"} \/ Faults(l, s)
Publishes(l, s) == l \in {"publishLock", "publish", "undo"} \/ Below(s, Push("publish", <<>>))

\* The labels that are returned to.
Labels == Callers \cup {"idle", "unlock", "revokeChecked", "revokeDone", "fault", "mismatch",
                        "reject", "abandon"}
Stacks == Seq(Labels)
Returning == {"verify", "retire", "mismatch", "reject", "clean", "cleanWait", "cleanClose",
              "discard", "discardWait", "revoke", "revokeChecked", "revokeDone"}

LEMMA Pushing ==
    /\ <<>> \in Stacks
    /\ \A l \in Labels, s \in Stacks :
          /\ Push(l, s) \in Stacks /\ Push(l, s) # <<>>
          /\ Head(Push(l, s)) = l /\ Tail(Push(l, s)) = s
<1>1. <<>> \in Stacks
  BY DEF Stacks
<1>2. ASSUME NEW l \in Labels, NEW s \in Stacks
      PROVE  /\ Push(l, s) \in Stacks /\ Push(l, s) # <<>>
             /\ Head(Push(l, s)) = l /\ Tail(Push(l, s)) = s
  <2>1. PICK u : u = Push(l, s)
    OBVIOUS
  <2>0. s \in Seq(Labels) /\ <<l>> \in Seq(Labels) /\ Len(<<l>>) = 1 /\ <<l>>[1] = l
    BY DEF Stacks
  <2>2. u \in Seq(Labels) /\ Len(u) = Len(s) + 1 /\ u # <<>> /\ Head(u) = l
    <3>1. u \in Seq(Labels) /\ Len(u) = Len(s) + 1
      BY <2>0, <2>1 DEF Push
    <3>2. u[1] = l
      BY <2>0, <2>1 DEF Push
    <3>3. Len(s) \in Nat
      BY <2>0
    <3> QED BY <3>1, <3>2, <3>3
  <2>3. \A i \in 1 .. Len(s) : u[i + 1] = s[i]
    BY <2>1 DEF Push, Stacks
  <2>4. Tail(u) \in Seq(Labels) /\ Len(Tail(u)) = Len(s) /\ \A i \in 1 .. Len(s) : Tail(u)[i] = s[i]
    BY <2>2, <2>3 DEF Stacks
  <2>5. Tail(u) = s
    BY <2>4 DEF Stacks
  <2> QED BY <2>1, <2>2, <2>5 DEF Stacks
<1> QED BY <1>1, <1>2

LEMMA PushedOnce ==
    \A l \in Labels, s \in Stacks, m \in Labels, u \in Stacks :
        Push(l, s) = Push(m, u) <=> l = m /\ s = u
<1> SUFFICES ASSUME NEW l \in Labels, NEW s \in Stacks, NEW m \in Labels, NEW u \in Stacks,
                    Push(l, s) = Push(m, u)
             PROVE  l = m /\ s = u
  OBVIOUS
<1>1. /\ Head(Push(l, s)) = l /\ Tail(Push(l, s)) = s
      /\ Head(Push(m, u)) = m /\ Tail(Push(m, u)) = u
  BY Pushing
<1> QED BY <1>1

LEMMA Bases ==
    /\ Revoking \in Stacks /\ Revoked \in Stacks /\ InFault \in Stacks
    /\ Refusing \subseteq Stacks /\ Verifying \subseteq Refusing
<1>1. Revoking \in Stacks /\ Revoked \in Stacks /\ InFault \in Stacks
  BY Pushing DEF Revoking, Revoked, InFault, Labels
<1>2. Callers \subseteq Labels
  BY DEF Labels
<1>3. \A r \in Callers : Push(r, <<>>) \in Stacks
  BY <1>2, Pushing
<1>4. Push("revokeChecked", Revoking) \in Stacks /\ Push("unlock", <<>>) \in Stacks
        /\ Push("idle", <<>>) \in Stacks
  BY <1>1, Pushing DEF Labels
<1> QED BY <1>1, <1>3, <1>4 DEF Verifying, Refusing

LEMMA BelowWhat ==
    ASSUME NEW y \in Labels, NEW d \in Stacks
    PROVE  /\ ~Below(<<>>, Push(y, d))
           /\ \A x \in Labels, b \in Stacks :
                 Below(Push(x, b), Push(y, d)) <=> \/ x = y /\ b = d
                                                   \/ x \in {"mismatch", "reject"} /\ b = Push(y, d)
<1>1. /\ Push(y, d) \in Stacks /\ Push(y, d) # <<>>
      /\ Push("mismatch", Push(y, d)) # <<>> /\ Push("reject", Push(y, d)) # <<>>
      /\ "mismatch" \in Labels /\ "reject" \in Labels
  BY Pushing DEF Labels
<1>2. ~Below(<<>>, Push(y, d))
  BY <1>1 DEF Below
<1>3. ASSUME NEW x \in Labels, NEW b \in Stacks
      PROVE  Below(Push(x, b), Push(y, d)) <=> \/ x = y /\ b = d
                                               \/ x \in {"mismatch", "reject"} /\ b = Push(y, d)
  <2>1. Push(x, b) = Push(y, d) <=> x = y /\ b = d
    BY PushedOnce
  <2>2. Push(x, b) = Push("mismatch", Push(y, d)) <=> x = "mismatch" /\ b = Push(y, d)
    BY <1>1, PushedOnce
  <2>3. Push(x, b) = Push("reject", Push(y, d)) <=> x = "reject" /\ b = Push(y, d)
    BY <1>1, PushedOnce
  <2> QED BY <2>1, <2>2, <2>3 DEF Below
<1> QED BY <1>2, <1>3

LEMMA BelowThese ==
    /\ \A r \in Labels : ~Below(<<>>, Push(r, <<>>))
    /\ ~Below(<<>>, InFault) /\ ~Below(<<>>, Push("revokeChecked", Revoking))
    /\ \A x \in Labels, b \in Stacks :
          /\ Below(Push(x, b), InFault) <=> \/ x = "fault" /\ b = Revoked
                                            \/ x \in {"mismatch", "reject"} /\ b = InFault
          /\ Below(Push(x, b), Push("revokeChecked", Revoking)) <=>
                \/ x = "revokeChecked" /\ b = Revoking
                \/ x \in {"mismatch", "reject"} /\ b = Push("revokeChecked", Revoking)
          /\ \A r \in Labels : Below(Push(x, b), Push(r, <<>>)) <=>
                \/ x = r /\ b = <<>>
                \/ x \in {"mismatch", "reject"} /\ b = Push(r, <<>>)
<1>1. "fault" \in Labels /\ "revokeChecked" \in Labels
  BY DEF Labels
<1>2. Revoked \in Stacks /\ Revoking \in Stacks /\ <<>> \in Stacks
  BY Pushing, Bases
<1>3. ASSUME NEW r \in Labels
      PROVE  /\ ~Below(<<>>, Push(r, <<>>))
             /\ \A x \in Labels, b \in Stacks : Below(Push(x, b), Push(r, <<>>)) <=>
                  \/ x = r /\ b = <<>>
                  \/ x \in {"mismatch", "reject"} /\ b = Push(r, <<>>)
  BY <1>2, BelowWhat
<1>4. /\ ~Below(<<>>, InFault)
      /\ \A x \in Labels, b \in Stacks : Below(Push(x, b), InFault) <=>
           \/ x = "fault" /\ b = Revoked
           \/ x \in {"mismatch", "reject"} /\ b = InFault
  BY <1>1, <1>2, BelowWhat DEF InFault
<1>5. /\ ~Below(<<>>, Push("revokeChecked", Revoking))
      /\ \A x \in Labels, b \in Stacks : Below(Push(x, b), Push("revokeChecked", Revoking)) <=>
           \/ x = "revokeChecked" /\ b = Revoking
           \/ x \in {"mismatch", "reject"} /\ b = Push("revokeChecked", Revoking)
  BY <1>1, <1>2, BelowWhat
<1> QED BY <1>3, <1>4, <1>5

(* Nothing stands below a stack with at most a revocation on it.            *)
LEMMA BelowNone ==
    ASSUME NEW b \in {<<>>, Revoking, Revoked, Push("abandon", <<>>), Push("unlock", <<>>)}
    PROVE  /\ ~Below(b, InFault) /\ ~Below(b, Push("revokeChecked", Revoking))
           /\ \A r \in Callers : ~Below(b, Push(r, <<>>))
<1>1. /\ "idle" \in Labels /\ "revokeDone" \in Labels /\ "abandon" \in Labels /\ "unlock" \in Labels
      /\ Callers \subseteq Labels /\ "idle" \notin Callers /\ "revokeDone" \notin Callers
      /\ "abandon" \notin Callers /\ "unlock" \notin Callers
  BY DEF Labels, Callers
<1>2. <<>> \in Stacks /\ Revoking \in Stacks
  BY Pushing, Bases
<1>3. CASE b = <<>>
  BY <1>1, <1>3, BelowThese
<1>4. CASE b = Revoking
  BY <1>1, <1>2, <1>4, BelowThese DEF Revoking
<1>5. CASE b = Revoked
  BY <1>1, <1>2, <1>5, BelowThese DEF Revoked
<1>6. CASE b = Push("abandon", <<>>)
  BY <1>1, <1>2, <1>6, BelowThese
<1>7. CASE b = Push("unlock", <<>>)
  BY <1>1, <1>2, <1>7, BelowThese
<1> QED BY <1>3, <1>4, <1>5, <1>6, <1>7

(* A stack that a verification or a refusal is called with is itself.       *)
LEMMA BelowOnlyItself ==
    ASSUME NEW b \in Refusing
    PROVE  /\ Below(b, InFault) <=> b = InFault
           /\ Below(b, Push("revokeChecked", Revoking)) <=> b = Push("revokeChecked", Revoking)
           /\ \A r \in Callers : Below(b, Push(r, <<>>)) <=> b = Push(r, <<>>)
<1>1. /\ Callers \subseteq Labels /\ "mismatch" \notin Callers /\ "reject" \notin Callers
      /\ "fault" \in Labels /\ "revokeChecked" \in Labels /\ "idle" \in Labels /\ "unlock" \in Labels
  BY DEF Labels, Callers
<1>2. <<>> \in Stacks /\ Revoking \in Stacks /\ Revoked \in Stacks
  BY Pushing, Bases
<1>3. PICK x \in Labels \ {"mismatch", "reject"}, c \in Stacks : b = Push(x, c)
  <2>1. CASE \E r \in Callers : b = Push(r, <<>>)
    BY <1>1, <1>2, <2>1
  <2>2. CASE b \in {Push("revokeChecked", Revoking), InFault}
    BY <1>1, <1>2, <2>2 DEF InFault
  <2>3. CASE b \in {Push("idle", <<>>), Push("unlock", <<>>)}
    BY <1>1, <1>2, <2>3
  <2> QED BY <2>1, <2>2, <2>3 DEF Refusing, Verifying
<1>4. Below(b, InFault) <=> b = InFault
  BY <1>1, <1>2, <1>3, BelowThese, PushedOnce DEF InFault
<1>5. Below(b, Push("revokeChecked", Revoking)) <=> b = Push("revokeChecked", Revoking)
  BY <1>1, <1>2, <1>3, BelowThese, PushedOnce
<1>6. \A r \in Callers : Below(b, Push(r, <<>>)) <=> b = Push(r, <<>>)
  BY <1>1, <1>2, <1>3, BelowThese, PushedOnce
<1> QED BY <1>4, <1>5, <1>6

(* Where a thread that has called something stands.                         *)
LEMMA StandsWhere ==
    ASSUME NEW x \in Labels, NEW b, StandsAt(x, b)
    PROVE  \/ x \in Callers \cup {"idle", "unlock", "abandon"} /\ b = <<>>
           \/ x \in {"revokeChecked", "revokeDone"} /\ b = Revoking
           \/ x = "fault" /\ b = Revoked
           \/ x \in {"mismatch", "reject"} /\ b \in Refusing
  BY DEF StandsAt, Labels, Callers, Uncalled

LEMMA ReturnsTo ==
    ASSUME NEW l \in Returning, NEW x \in Labels, NEW b \in Stacks, StandsAt(l, Push(x, b)),
           StandsAt(x, b)
    PROVE  /\ IsCleaning(x, b) <=> Below(Push(x, b), InFault)
           /\ Faults(x, b) <=> Below(Push(x, b), InFault)
           /\ Publishes(x, b) <=> Below(Push(x, b), Push("publish", <<>>))
           /\ HasCap(x, b) => HasCap(l, Push(x, b))
<1> DEFINE s == Push(x, b)
<1>0. "publish" \in Callers /\ "claim" \in Callers /\ "useChecked" \in Callers /\ Callers \subseteq Labels
  BY DEF Callers, Labels
<1>1. /\ Below(s, InFault) <=> \/ x = "fault" /\ b = Revoked
                               \/ x \in {"mismatch", "reject"} /\ b = InFault
      /\ Below(s, Push("revokeChecked", Revoking)) <=>
            \/ x = "revokeChecked" /\ b = Revoking
            \/ x \in {"mismatch", "reject"} /\ b = Push("revokeChecked", Revoking)
      /\ \A r \in Callers : Below(s, Push(r, <<>>)) <=>
            \/ x = r /\ b = <<>>
            \/ x \in {"mismatch", "reject"} /\ b = Push(r, <<>>)
  BY <1>0, BelowThese
<1> HIDE DEF s
<1>2. CASE x \in {"mismatch", "reject"}
  <2>1. b \in Refusing
    BY <1>2, StandsWhere DEF Callers
  <2>2. /\ Below(b, InFault) <=> b = InFault
        /\ Below(b, Push("revokeChecked", Revoking)) <=> b = Push("revokeChecked", Revoking)
        /\ \A r \in Callers : Below(b, Push(r, <<>>)) <=> b = Push(r, <<>>)
    BY <2>1, BelowOnlyItself
  <2>3. Faults(x, b) <=> Below(s, InFault)
    BY <1>1, <1>2, <2>2 DEF Faults
  <2>4. IsCleaning(x, b) <=> Below(s, InFault)
    BY <1>2, <2>3 DEF IsCleaning
  <2>5. Publishes(x, b) <=> Below(s, Push("publish", <<>>))
    BY <1>0, <1>1, <1>2, <2>2 DEF Publishes
  <2>6. HasCap(x, b) => HasCap(l, s)
    BY <1>0, <1>1, <1>2, <2>2 DEF HasCap
  <2> QED BY <2>3, <2>4, <2>5, <2>6 DEF s
<1>3. CASE x \notin {"mismatch", "reject"}
  <2>1. \/ x \in Callers \cup {"idle", "unlock", "abandon"} /\ b = <<>>
        \/ x \in {"revokeChecked", "revokeDone"} /\ b = Revoking
        \/ x = "fault" /\ b = Revoked
    BY <1>3, StandsWhere
  <2>2. /\ ~Below(b, InFault) /\ ~Below(b, Push("revokeChecked", Revoking))
        /\ \A r \in Callers : ~Below(b, Push(r, <<>>))
    BY <2>1, BelowNone
  <2>3. Faults(x, b) <=> Below(s, InFault)
    BY <1>1, <1>3, <2>1, <2>2 DEF Faults, Callers
  <2>4. IsCleaning(x, b) <=> Below(s, InFault)
    BY <2>1, <2>3 DEF IsCleaning, Callers
  <2>5. Publishes(x, b) <=> Below(s, Push("publish", <<>>))
    BY <1>0, <1>1, <1>3, <2>1, <2>2 DEF Publishes, Callers
  <2>6. HasCap(x, b) => HasCap(l, s)
    BY <1>0, <1>1, <1>3, <2>1, <2>2 DEF HasCap, Callers
  <2> QED BY <2>3, <2>4, <2>5, <2>6 DEF s
<1> QED BY <1>2, <1>3

(* A thread that returns has somewhere to return to.                        *)
LEMMA Returns ==
    ASSUME NEW l \in Returning, NEW s, StandsAt(l, s)
    PROVE  /\ Head(s) \in Labels /\ Tail(s) \in Stacks /\ s = Push(Head(s), Tail(s))
           /\ StandsAt(Head(s), Tail(s))
<1> SUFFICES \E x \in Labels, b \in Stacks : s = Push(x, b) /\ StandsAt(x, b)
  BY Pushing
<1>1. /\ <<>> \in Stacks /\ Revoking \in Stacks /\ Revoked \in Stacks /\ InFault \in Stacks
      /\ Refusing \subseteq Stacks /\ Verifying \subseteq Refusing
  BY Pushing, Bases
<1>2. CASE s \in Refusing
  <2>1. CASE \E r \in Callers \cup {"idle", "unlock"} : s = Push(r, <<>>)
    BY <1>1, <2>1 DEF StandsAt, Labels, Callers, Uncalled
  <2>2. CASE s = Push("revokeChecked", Revoking)
    BY <1>1, <2>2 DEF StandsAt, Labels
  <2>3. CASE s = InFault
    BY <1>1, <2>3 DEF StandsAt, Labels, InFault
  <2> QED BY <1>2, <2>1, <2>2, <2>3 DEF Refusing, Verifying
<1>3. CASE \E b \in Refusing : s = Push("mismatch", b) \/ s = Push("reject", b)
  BY <1>1, <1>3 DEF StandsAt, Labels
<1>4. CASE s = Revoked
  BY <1>1, <1>4 DEF StandsAt, Labels, Revoked
<1>5. CASE s = Push("abandon", <<>>)
  BY <1>1, <1>5 DEF StandsAt, Labels, Uncalled
<1>6. Revoking \in Refusing
  BY DEF Revoking, Refusing
<1> QED BY <1>1, <1>2, <1>3, <1>4, <1>5, <1>6 DEF StandsAt, Returning, Cleans, Uncalled

IsWrapper(r) == r = [made |-> r.made, builder |-> r.builder, cancelled |-> r.cancelled,
                     phase |-> r.phase, owner |-> r.owner, mismatch |-> r.mismatch,
                     err |-> r.err, sessions |-> r.sessions, revokes |-> r.revokes]
IsCap(r) == /\ r = [phase |-> r.phase, owner |-> r.owner, retOwner |-> r.retOwner, con |-> r.con,
                    pub |-> r.pub, retired |-> r.retired]
            /\ r.phase \in {"none", "constructing", "admitted", "retired", "failed"}
IsRecord(r) == r = [live |-> r.live, cap |-> r.cap, minted |-> r.minted]
IsEngine(r) == r = [st |-> r.st, auth |-> r.auth, eligible |-> r.eligible, bar |-> r.bar]

\* A thread t at label l with stack s, capability c and target g, given the wrappers wraps,
\* the capabilities caps and the operation locks locks.
ThreadIs(t, l, s, c, g, wraps, caps, locks) ==
    /\ StandsAt(l, s) /\ s \in Stacks
    /\ HasCap(l, s) => c \in A!Caps
    /\ l \in {"clean", "cleanWait", "discard", "discardWait"} => g.w \in A!Caps
    /\ l = "retire" => g.w \in A!Caps \cup {A!Nil}
    /\ l \in {"retire", "discard", "discardWait"} => g.mm
    /\ IsCleaning(l, s) => /\ g.w \in A!Caps /\ wraps[g.w].phase = "cleaning" /\ wraps[g.w].owner = t
                           /\ l = "cleanRevoke" => wraps[g.w].revokes = 0
                           /\ l # "cleanRevoke" => wraps[g.w].revokes = 1 /\ wraps[g.w].sessions = 0
    /\ Faults(l, s) => caps[g.w].pub
    /\ l \in {"clean", "cleanRevoke"} /\ ~g.mm => caps[g.w].pub /\ s = Revoked
    /\ l = "cleanRevoke" /\ g.mm => wraps[g.w].mismatch
    /\ l \in {"useBody", "useRun", "useUnlock"} => locks[c] = t
    /\ l = "useRun" => wraps[c].revokes = 0

\* It will publish or clean the wrapper w.
MustClean(l, s, c, g, caps, w) ==
    \/ c = w /\ Publishes(l, s)
    \/ g.w = w /\ (l = "clean" \/ (l = "retire" /\ caps[w].pub))

\* A wrapper is cleaned once.
OneCleanup(r) ==
    /\ r.phase \in {"active", "cleaning", "complete"}
    /\ r.phase = "active" => r.revokes = 0
    /\ r.phase = "complete" => r.revokes = 1 /\ r.sessions = 0

Duty(t, w) == MustClean(pc[t], stk[t], cur[t], tgt[t], cap, w)

WrapperInv(w) ==
    /\ cap[w].pub => reg.cap = w /\ engine.auth = w /\ cap[w].phase \in {"admitted", "retired"}
    /\ OneCleanup(wr[w])
    /\ wr[w].phase = "cleaning" => /\ wr[w].owner \in Threads
                                   /\ IsCleaning(pc[wr[w].owner], stk[wr[w].owner])
                                   /\ tgt[wr[w].owner].w = w
    /\ wr[w].made = "complete" /\ wr[w].phase = "active" =>
          (reg.live /\ cap[w].pub) \/ \E t \in Threads : Duty(t, w)

ThreadInv(t) == ThreadIs(t, pc[t], stk[t], cur[t], tgt[t], wr, cap, oplock)

AdmissionTypes ==
    /\ wr = [w \in A!Caps |-> wr[w]] /\ \A w \in A!Caps : IsWrapper(wr[w])
    /\ cap = [w \in A!Caps |-> cap[w]] /\ \A w \in A!Caps : IsCap(cap[w])
    /\ oplock = [w \in A!Caps |-> oplock[w]]
    /\ pc = [t \in Threads |-> pc[t]] /\ stk = [t \in Threads |-> stk[t]]
    /\ cur = [t \in Threads |-> cur[t]] /\ tgt = [t \in Threads |-> tgt[t]]
    /\ IsEngine(engine) /\ IsRecord(reg)
    /\ reg.minted \in Nat /\ reg.cap \in A!Caps \cup {A!Nil}

Served == engine.auth # A!Nil => engine.auth \in A!Caps /\ cap[engine.auth].pub

AuthorityInv ==
    /\ AdmissionTypes /\ Served
    /\ \A t \in Threads : ThreadInv(t)
    /\ \A w \in A!Caps : WrapperInv(w)

LEMMA PrimedThread ==
    \A t : /\ ThreadInv(t)' <=> ThreadIs(t, pc'[t], stk'[t], cur'[t], tgt'[t], wr', cap', oplock')
           /\ \A w : Duty(t, w)' <=> MustClean(pc'[t], stk'[t], cur'[t], tgt'[t], cap', w)
  BY DEF ThreadInv, ThreadIs, StandsAt, HasCap, IsCleaning, Faults, Duty, MustClean, Publishes,
         Below, Cleans, Refusing, Verifying, InFault, Revoked, Revoking, Push, Callers, Uncalled,
         Stacks, Labels, A!Caps, A!Nil

LEMMA PrimedCleanup ==
    /\ \A w : OneCleanup(wr[w])' <=> OneCleanup(wr'[w])
    /\ \A t : IsCleaning(pc[t], stk[t])' <=> IsCleaning(pc'[t], stk'[t])
    /\ A!Caps' = A!Caps /\ A!Nil' = A!Nil
  BY DEF OneCleanup, IsCleaning, Faults, Below, InFault, Revoked, Revoking, Push, A!Caps, A!Nil

(* What thread t may do to the rest.                                        *)
Kept(t) ==
    /\ \A u \in Threads \ {t} :
          pc'[u] = pc[u] /\ stk'[u] = stk[u] /\ cur'[u] = cur[u] /\ tgt'[u] = tgt[u]
    /\ \A w \in A!Caps :
          /\ cap[w].pub => cap'[w].pub
          /\ wr[w].mismatch => wr'[w].mismatch
          /\ wr[w].phase = "cleaning" /\ wr[w].owner # t =>
                wr'[w].phase = "cleaning" /\ wr'[w].owner = wr[w].owner
          /\ wr'[w].revokes = wr[w].revokes \/ (oplock[w] = A!Nil /\ wr[w].owner = t)
          /\ wr'[w].sessions = wr[w].sessions \/ wr[w].revokes = 0
          /\ \A u \in Threads \ {t} : oplock[w] = u => oplock'[w] = u

\* And what must be true of a wrapper afterwards.
KeepsWrapper(t, w) ==
    /\ cap'[w].pub => reg'.cap = w /\ engine'.auth = w /\ cap'[w].phase \in {"admitted", "retired"}
    /\ OneCleanup(wr'[w])
    /\ wr'[w].phase = "cleaning" =>
          \/ wr'[w].owner = t /\ IsCleaning(pc'[t], stk'[t]) /\ tgt'[t].w = w
          \/ wr[w].phase = "cleaning" /\ wr'[w].owner = wr[w].owner /\ wr[w].owner # t
    /\ wr'[w].made = "complete" /\ wr'[w].phase = "active" =>
          \/ reg'.live /\ cap'[w].pub
          \/ MustClean(pc'[t], stk'[t], cur'[t], tgt'[t], cap', w)
          \/ /\ wr[w].made = "complete" /\ wr[w].phase = "active"
             /\ ~Duty(t, w) /\ ~(reg.live /\ cap[w].pub)

LEMMA OthersKeep ==
    ASSUME AuthorityInv, NEW t \in Threads, Kept(t), NEW u \in Threads, u # t
    PROVE  ThreadInv(u)'
<1> DEFINE l == pc[u]
           s == stk[u]
           c == cur[u]
           w == tgt[u].w
<1>1. ThreadIs(u, l, s, c, tgt[u], wr, cap, oplock)
  BY DEF AuthorityInv, ThreadInv
<1>2. pc'[u] = l /\ stk'[u] = s /\ cur'[u] = c /\ tgt'[u] = tgt[u] /\ u # A!Nil
  BY ThreadsAssumption DEF Kept, A!Nil
<1>3. s \in Stacks /\ StandsAt(l, s)
  BY <1>1 DEF ThreadIs
<1>4. IsCleaning(l, s) =>
         /\ w \in A!Caps /\ wr'[w].phase = "cleaning" /\ wr'[w].owner = u
         /\ l = "cleanRevoke" => wr'[w].revokes = 0
         /\ l # "cleanRevoke" => wr'[w].revokes = 1 /\ wr'[w].sessions = 0
  BY <1>1 DEF ThreadIs, Kept
<1>5. Faults(l, s) => cap'[w].pub
  <2>1. Faults(l, s) => IsCleaning(l, s)
    BY DEF IsCleaning
  <2> QED BY <1>1, <2>1 DEF ThreadIs, Kept
<1>6. l \in {"clean", "cleanRevoke"} => w \in A!Caps
  BY <1>1 DEF ThreadIs, IsCleaning
<1>7. l \in {"clean", "cleanRevoke"} /\ ~tgt[u].mm => cap'[w].pub /\ s = Revoked
  BY <1>1, <1>6 DEF ThreadIs, Kept
<1>8. l = "cleanRevoke" /\ tgt[u].mm => wr'[w].mismatch
  BY <1>1, <1>6 DEF ThreadIs, Kept
<1>9. l \in {"useBody", "useRun", "useUnlock"} => c \in A!Caps
  BY <1>1 DEF ThreadIs, HasCap
<1>10. l \in {"useBody", "useRun", "useUnlock"} => oplock'[c] = u
  BY <1>1, <1>9 DEF ThreadIs, Kept
<1>11. l = "useRun" => wr'[c].revokes = 0
  BY <1>1, <1>2, <1>9 DEF ThreadIs, Kept
<1>12. ThreadIs(u, l, s, c, tgt[u], wr', cap', oplock')
  BY <1>1, <1>4, <1>5, <1>7, <1>8, <1>10, <1>11 DEF ThreadIs
<1> QED BY <1>2, <1>12, PrimedThread

(* A step of thread t keeps the invariant.                                  *)
LEMMA ThreadStep ==
    ASSUME AuthorityInv, NEW t \in Threads, Kept(t), AdmissionTypes', Served',
           ThreadIs(t, pc'[t], stk'[t], cur'[t], tgt'[t], wr', cap', oplock'),
           \A w \in A!Caps : KeepsWrapper(t, w)
    PROVE  AuthorityInv'
<1>1. \A u \in Threads : ThreadInv(u)'
  BY OthersKeep, PrimedThread
<1>2. ASSUME NEW w \in A!Caps PROVE WrapperInv(w)'
  <2>1. KeepsWrapper(t, w) /\ WrapperInv(w)
    BY DEF AuthorityInv
  <2>2. wr'[w].phase = "cleaning" =>
           /\ wr'[w].owner \in Threads
           /\ IsCleaning(pc'[wr'[w].owner], stk'[wr'[w].owner])
           /\ tgt'[wr'[w].owner].w = w
    BY <2>1 DEF KeepsWrapper, WrapperInv, Kept
  <2>3. wr'[w].made = "complete" /\ wr'[w].phase = "active" =>
           (reg'.live /\ cap'[w].pub) \/ \E u \in Threads : Duty(u, w)'
    <3>1. CASE MustClean(pc'[t], stk'[t], cur'[t], tgt'[t], cap', w)
      BY <3>1, PrimedThread
    <3>2. CASE /\ wr[w].made = "complete" /\ wr[w].phase = "active"
               /\ ~Duty(t, w) /\ ~(reg.live /\ cap[w].pub)
      <4>1. PICK u \in Threads : Duty(u, w)
        BY <2>1, <3>2 DEF WrapperInv
      <4>2. u # t
        BY <3>2, <4>1
      <4>3. MustClean(pc'[u], stk'[u], cur'[u], tgt'[u], cap', w)
        BY <4>1, <4>2 DEF Kept, Duty, MustClean
      <4> QED BY <4>3, PrimedThread
    <3> QED BY <2>1, <3>1, <3>2 DEF KeepsWrapper
  <2> QED BY <2>1, <2>2, <2>3, PrimedCleanup DEF KeepsWrapper, WrapperInv
<1> QED BY <1>1, <1>2, PrimedCleanup DEF AuthorityInv

(* Where a thread goes, and what a step leaves as it was.                   *)
Moves(t, l, s, c, g) ==
    /\ pc' = [pc EXCEPT ![t] = l] /\ stk' = [stk EXCEPT ![t] = s]
    /\ cur' = [cur EXCEPT ![t] = c] /\ tgt' = [tgt EXCEPT ![t] = g]

Typed ==
    /\ wr' = [w \in A!Caps |-> wr'[w]] /\ \A w \in A!Caps : IsWrapper(wr'[w])
    /\ cap' = [w \in A!Caps |-> cap'[w]] /\ \A w \in A!Caps : IsCap(cap'[w])
    /\ oplock' = [w \in A!Caps |-> oplock'[w]]
    /\ IsEngine(engine') /\ IsRecord(reg')
    /\ reg'.minted \in Nat /\ reg'.cap \in A!Caps \cup {A!Nil}

Unused(w) ==
    /\ wr'[w].phase = wr[w].phase /\ wr'[w].owner = wr[w].owner
    /\ wr'[w].revokes = wr[w].revokes /\ wr'[w].sessions = wr[w].sessions
    /\ wr[w].mismatch => wr'[w].mismatch
    /\ wr'[w].made = "complete" => wr[w].made = "complete"

Authorised(w) ==
    /\ cap'[w].pub = cap[w].pub
    /\ cap[w].pub => cap'[w].phase \in {"admitted", "retired"} /\ reg'.cap = reg.cap

Quiet ==
    /\ Typed /\ oplock' = oplock /\ engine'.auth = engine.auth /\ reg'.live = reg.live
    /\ \A w \in A!Caps : Unused(w) /\ Authorised(w)

HandsOn(t, l, s, c, g) ==
    /\ IsCleaning(pc[t], stk[t]) => IsCleaning(l, s) /\ g.w = tgt[t].w
    /\ \A w \in A!Caps : Duty(t, w) /\ wr[w].phase = "active" => MustClean(l, s, c, g, cap', w)

LEMMA ThreadMoved ==
    ASSUME AuthorityInv, NEW t \in Threads, NEW l, NEW s, NEW c, NEW g, Moves(t, l, s, c, g)
    PROVE  /\ pc'[t] = l /\ stk'[t] = s /\ cur'[t] = c /\ tgt'[t] = g
           /\ \A u \in Threads \ {t} :
                 pc'[u] = pc[u] /\ stk'[u] = stk[u] /\ cur'[u] = cur[u] /\ tgt'[u] = tgt[u]
           /\ Typed => AdmissionTypes'
<1>1. /\ pc = [u \in Threads |-> pc[u]] /\ stk = [u \in Threads |-> stk[u]]
      /\ cur = [u \in Threads |-> cur[u]] /\ tgt = [u \in Threads |-> tgt[u]]
  BY DEF AuthorityInv, AdmissionTypes
<1>2. /\ pc' = [pc EXCEPT ![t] = l] /\ stk' = [stk EXCEPT ![t] = s]
      /\ cur' = [cur EXCEPT ![t] = c] /\ tgt' = [tgt EXCEPT ![t] = g]
  BY DEF Moves
<1>3. /\ pc'[t] = l /\ stk'[t] = s /\ cur'[t] = c /\ tgt'[t] = g
  BY <1>1, <1>2
<1>4. \A u \in Threads \ {t} :
         pc'[u] = pc[u] /\ stk'[u] = stk[u] /\ cur'[u] = cur[u] /\ tgt'[u] = tgt[u]
  BY <1>1, <1>2
<1>5. /\ pc' = [u \in Threads |-> pc'[u]] /\ stk' = [u \in Threads |-> stk'[u]]
      /\ cur' = [u \in Threads |-> cur'[u]] /\ tgt' = [u \in Threads |-> tgt'[u]]
  BY <1>1, <1>2
<1>6. Typed => AdmissionTypes'
  BY <1>5 DEF Typed, AdmissionTypes, IsWrapper, IsCap, IsEngine, IsRecord, A!Caps, A!Nil
<1> QED BY <1>3, <1>4, <1>6

LEMMA Unmoved ==
    ASSUME AuthorityInv, NEW t \in Threads
    PROVE  /\ stk = [stk EXCEPT ![t] = stk[t]] /\ cur = [cur EXCEPT ![t] = cur[t]]
           /\ tgt = [tgt EXCEPT ![t] = tgt[t]] /\ pc = [pc EXCEPT ![t] = pc[t]]
  BY DEF AuthorityInv, AdmissionTypes

LEMMA ServedPrimed == Served' <=> (engine'.auth # A!Nil => engine'.auth \in A!Caps /\ cap'[engine'.auth].pub)
  BY DEF Served, A!Caps, A!Nil

(* A step that leaves the authority as it was.                              *)
LEMMA QuietStep ==
    ASSUME AuthorityInv, NEW t \in Threads, NEW l, NEW s, NEW c, NEW g, Moves(t, l, s, c, g),
           Quiet, ThreadIs(t, l, s, c, g, wr', cap', oplock'), HandsOn(t, l, s, c, g)
    PROVE  AuthorityInv'
<1>1. /\ pc'[t] = l /\ stk'[t] = s /\ cur'[t] = c /\ tgt'[t] = g
      /\ \A u \in Threads \ {t} :
            pc'[u] = pc[u] /\ stk'[u] = stk[u] /\ cur'[u] = cur[u] /\ tgt'[u] = tgt[u]
      /\ AdmissionTypes'
  BY ThreadMoved DEF Quiet
<1>2. Kept(t)
  BY <1>1 DEF Kept, Quiet, Unused, Authorised
<1>3. Served'
  BY ServedPrimed DEF Quiet, Authorised, AuthorityInv, Served
<1>4. ASSUME NEW w \in A!Caps PROVE KeepsWrapper(t, w)
  <2>1. WrapperInv(w) /\ Unused(w) /\ Authorised(w) /\ engine'.auth = engine.auth /\ reg'.live = reg.live
    BY DEF AuthorityInv, Quiet
  <2>2. OneCleanup(wr'[w])
    BY <2>1 DEF WrapperInv, OneCleanup, Unused
  <2>3. cap'[w].pub => reg'.cap = w /\ engine'.auth = w /\ cap'[w].phase \in {"admitted", "retired"}
    BY <2>1 DEF WrapperInv, Authorised
  <2>4. wr'[w].phase = "cleaning" =>
          \/ wr'[w].owner = t /\ IsCleaning(pc'[t], stk'[t]) /\ tgt'[t].w = w
          \/ wr[w].phase = "cleaning" /\ wr'[w].owner = wr[w].owner /\ wr[w].owner # t
    BY <1>1, <2>1 DEF WrapperInv, Unused, HandsOn
  <2>5. wr'[w].made = "complete" /\ wr'[w].phase = "active" =>
          \/ reg'.live /\ cap'[w].pub
          \/ MustClean(pc'[t], stk'[t], cur'[t], tgt'[t], cap', w)
          \/ /\ wr[w].made = "complete" /\ wr[w].phase = "active"
             /\ ~Duty(t, w) /\ ~(reg.live /\ cap[w].pub)
    BY <1>1, <2>1 DEF Unused, Authorised, HandsOn
  <2> QED BY <2>2, <2>3, <2>4, <2>5 DEF KeepsWrapper
<1>5. ThreadIs(t, pc'[t], stk'[t], cur'[t], tgt'[t], wr', cap', oplock')
  BY <1>1
<1> QED BY <1>1, <1>2, <1>3, <1>4, <1>5, ThreadStep

LEMMA SameIsQuiet ==
    ASSUME AuthorityInv, UNCHANGED <<reg, cap, wr, oplock>>, IsEngine(engine'),
           engine'.auth = engine.auth
    PROVE  Quiet
  BY DEF AuthorityInv, AdmissionTypes, WrapperInv, Quiet, Typed, Unused, Authorised

(* Places a thread may go to.                                               *)
WithCap == {"revoke", "revokeChecked", "build", "claim", "finish", "publishLock", "publish",
            "undo", "admitPhase", "useChecked", "useLock", "useBody", "useRun", "useUnlock"}

LEMMA AtTop ==
    ASSUME NEW t, NEW l \in Uncalled, NEW c, NEW g, NEW wraps, NEW caps, NEW locks,
           l \in WithCap => c \in A!Caps,
           l \in {"useBody", "useRun", "useUnlock"} => locks[c] = t,
           l = "useRun" => wraps[c].revokes = 0
    PROVE  ThreadIs(t, l, <<>>, c, g, wraps, caps, locks)
<1>1. /\ ~Below(<<>>, InFault) /\ ~Below(<<>>, Push("revokeChecked", Revoking))
      /\ \A r \in Callers : ~Below(<<>>, Push(r, <<>>))
  BY BelowNone
<1>2. StandsAt(l, <<>>) /\ <<>> \in Stacks
  BY Pushing DEF StandsAt
<1>3. HasCap(l, <<>>) => c \in A!Caps
  BY <1>1 DEF HasCap, WithCap, Callers
<1>4. ~Faults(l, <<>>)
  BY <1>1 DEF Faults, Uncalled
<1>5. ~IsCleaning(l, <<>>)
  BY <1>4 DEF IsCleaning, Uncalled
<1> QED BY <1>2, <1>3, <1>4, <1>5 DEF ThreadIs, Uncalled

LEMMA AtVerify ==
    ASSUME NEW t, NEW r \in Callers, NEW c, NEW g, NEW wraps, NEW caps, NEW locks,
           r \in WithCap => c \in A!Caps
    PROVE  /\ ThreadIs(t, "verify", Push(r, <<>>), c, g, wraps, caps, locks)
           /\ r = "publish" => Publishes("verify", Push(r, <<>>))
<1> DEFINE s == Push(r, <<>>)
<1>1. s \in Refusing /\ s \in Verifying
  BY DEF Refusing, Verifying
<1>2. s \in Stacks
  BY <1>1, Bases
<1>3. /\ r \in Labels /\ "fault" \in Labels /\ "revokeChecked" \in Labels /\ Callers \subseteq Labels
      /\ <<>> \in Stacks /\ Revoking \in Stacks /\ Revoked \in Stacks
  BY Pushing, Bases DEF Labels
<1>4. s # InFault /\ s # Push("revokeChecked", Revoking) /\ \A q \in Callers : s = Push(q, <<>>) => q = r
  BY <1>3, PushedOnce DEF InFault, Callers
<1>5. /\ ~Below(s, InFault) /\ ~Below(s, Push("revokeChecked", Revoking))
      /\ \A q \in Callers : Below(s, Push(q, <<>>)) => q = r
  BY <1>1, <1>4, BelowOnlyItself
<1>6. StandsAt("verify", s)
  BY <1>1 DEF StandsAt
<1>7. r = "publish" => Publishes("verify", s)
  BY DEF Publishes, Below
<1> HIDE DEF s
<1>8. HasCap("verify", s) => c \in A!Caps
  BY <1>5 DEF HasCap, WithCap, Callers
<1>9. ~Faults("verify", s) /\ ~IsCleaning("verify", s)
  BY <1>5 DEF Faults, IsCleaning
<1> QED BY <1>2, <1>6, <1>7, <1>8, <1>9 DEF ThreadIs, s

LEMMA AtRevoke ==
    ASSUME NEW t, NEW l \in {"revoke", "revokeDone"}, NEW c, NEW g, NEW wraps, NEW caps, NEW locks,
           c \in A!Caps
    PROVE  ThreadIs(t, l, Revoking, c, g, wraps, caps, locks)
<1>1. /\ ~Below(Revoking, InFault) /\ ~Below(Revoking, Push("revokeChecked", Revoking))
      /\ \A r \in Callers : ~Below(Revoking, Push(r, <<>>))
  BY BelowNone
<1>2. StandsAt(l, Revoking) /\ Revoking \in Stacks
  BY Bases DEF StandsAt
<1>3. ~Faults(l, Revoking) /\ ~IsCleaning(l, Revoking)
  BY <1>1 DEF Faults, IsCleaning
<1> QED BY <1>2, <1>3 DEF ThreadIs

LEMMA AtRefusal ==
    ASSUME NEW t, NEW r \in {"idle", "unlock"}, NEW c, NEW g, NEW wraps, NEW caps, NEW locks
    PROVE  ThreadIs(t, "mismatch", Push(r, <<>>), c, g, wraps, caps, locks)
<1> DEFINE s == Push(r, <<>>)
<1>1. /\ ~Below(s, InFault) /\ ~Below(s, Push("revokeChecked", Revoking))
      /\ \A q \in Callers : ~Below(s, Push(q, <<>>))
  BY BelowNone DEF Revoking
<1>2. StandsAt("mismatch", s) /\ s \in Stacks
  BY Bases DEF StandsAt, Refusing
<1> HIDE DEF s
<1>3. ~HasCap("mismatch", s) /\ ~Faults("mismatch", s) /\ ~IsCleaning("mismatch", s)
  BY <1>1 DEF Faults, IsCleaning, HasCap, Callers
<1> QED BY <1>2, <1>3 DEF ThreadIs, s

(* A thread that has called nothing, or only a revocation, cleans nothing.   *)
LEMMA NothingToHandOn ==
    ASSUME AuthorityInv, NEW t \in Threads,
           pc[t] \in Uncalled \cup {"revoke", "revokeChecked", "revokeDone"},
           pc[t] \notin {"publishLock", "publish", "undo"}
    PROVE  /\ \A l, s, c, g : HandsOn(t, l, s, c, g)
           /\ pc[t] \in Uncalled => stk[t] = <<>>
           /\ pc[t] \in {"revoke", "revokeChecked", "revokeDone"} => stk[t] = Revoking
           /\ ~IsCleaning(pc[t], stk[t]) /\ \A w : ~Duty(t, w)
<1>1. StandsAt(pc[t], stk[t])
  BY DEF AuthorityInv, ThreadInv, ThreadIs
<1>2. /\ pc[t] \in Uncalled => stk[t] = <<>>
      /\ pc[t] \in {"revoke", "revokeChecked", "revokeDone"} => stk[t] = Revoking
  BY <1>1 DEF StandsAt, Uncalled
<1>3. ~Below(stk[t], InFault) /\ ~Below(stk[t], Push("publish", <<>>))
  BY <1>2, BelowNone DEF Callers
<1>4. ~IsCleaning(pc[t], stk[t])
  BY <1>3 DEF IsCleaning, Faults, Uncalled
<1>5. \A w : ~Duty(t, w)
  BY <1>3 DEF Duty, MustClean, Publishes, Uncalled
<1> QED BY <1>2, <1>4, <1>5 DEF HandsOn

(* A thread on its way to publish has only that to do.                      *)
LEMMA PublishToHandOn ==
    ASSUME AuthorityInv, NEW t \in Threads, pc[t] \in {"publishLock", "publish", "undo"}
    PROVE  /\ stk[t] = <<>> /\ ~IsCleaning(pc[t], <<>>) /\ cur[t] \in A!Caps
           /\ \A w : Duty(t, w) <=> cur[t] = w
<1>1. StandsAt(pc[t], stk[t]) /\ (HasCap(pc[t], stk[t]) => cur[t] \in A!Caps)
  BY DEF AuthorityInv, ThreadInv, ThreadIs
<1>2. stk[t] = <<>>
  BY <1>1 DEF StandsAt
<1>3. ~Below(<<>>, InFault)
  BY BelowNone
<1>4. ~IsCleaning(pc[t], <<>>)
  BY <1>3 DEF IsCleaning, Faults
<1>5. \A w : Duty(t, w) <=> cur[t] = w
  BY DEF Duty, MustClean, Publishes
<1> QED BY <1>1, <1>2, <1>4, <1>5 DEF HasCap

(* A thread that returns has what it needs, and what it had to do.          *)
LEMMA ReturnedThread ==
    ASSUME AuthorityInv, NEW t \in Threads, pc[t] \in Returning, Quiet
    PROVE  ThreadIs(t, Head(stk[t]), Tail(stk[t]), cur[t], tgt[t], wr', cap', oplock')
<1> DEFINE x == Head(stk[t])
           b == Tail(stk[t])
<1>1. ThreadIs(t, pc[t], stk[t], cur[t], tgt[t], wr, cap, oplock)
  BY DEF AuthorityInv, ThreadInv
<1>2. x \in Labels /\ b \in Stacks /\ stk[t] = Push(x, b) /\ StandsAt(x, b) /\ StandsAt(pc[t], Push(x, b))
  BY <1>1, Returns DEF ThreadIs
<1> HIDE DEF x, b
<1>3. /\ IsCleaning(x, b) <=> Below(stk[t], InFault)
      /\ Faults(x, b) <=> Below(stk[t], InFault)
      /\ HasCap(x, b) => HasCap(pc[t], stk[t])
  BY <1>2, ReturnsTo
<1>4. HasCap(x, b) => cur[t] \in A!Caps
  BY <1>1, <1>3 DEF ThreadIs
<1>5. Faults(x, b) => Faults(pc[t], stk[t]) /\ IsCleaning(pc[t], stk[t])
  BY <1>3 DEF Faults, IsCleaning
<1>6. IsCleaning(x, b) <=> Faults(x, b)
  BY <1>3
<1>7. pc[t] # "cleanRevoke"
  BY DEF Returning
<1>8. IsCleaning(x, b) => /\ tgt[t].w \in A!Caps /\ wr'[tgt[t].w].phase = "cleaning"
                          /\ wr'[tgt[t].w].owner = t /\ wr'[tgt[t].w].revokes = 1
                          /\ wr'[tgt[t].w].sessions = 0 /\ cap'[tgt[t].w].pub
  BY <1>1, <1>5, <1>6, <1>7 DEF ThreadIs, Quiet, Unused, Authorised
<1>9. x \notin {"clean", "cleanWait", "discard", "discardWait", "retire", "cleanRevoke", "useBody",
                "useRun", "useUnlock"}
  BY <1>2 DEF Labels, Callers
<1>10. ThreadIs(t, x, b, cur[t], tgt[t], wr', cap', oplock')
  BY <1>2, <1>4, <1>6, <1>8, <1>9 DEF ThreadIs
<1> QED BY <1>10 DEF x, b

(* A return, where what the thread had to clean has been cleaned.           *)
LEMMA ReturnStep ==
    ASSUME AuthorityInv, NEW t \in Threads, pc[t] \in Returning, pc[t] # "cleanClose",
           NEW raised, A!Return(t, raised), UNCHANGED <<cur, tgt>>, Quiet,
           pc[t] = "clean" => wr[tgt[t].w].phase # "active",
           pc[t] = "retire" => tgt[t].w = A!Nil \/ ~cap[tgt[t].w].pub
    PROVE  AuthorityInv'
<1> DEFINE x == Head(stk[t])
           b == Tail(stk[t])
<1>1. ThreadIs(t, x, b, cur[t], tgt[t], wr', cap', oplock')
  BY ReturnedThread
<1>2. Moves(t, x, b, cur[t], tgt[t])
  BY Unmoved DEF Moves, A!Return
<1>3. x \in Labels /\ b \in Stacks /\ stk[t] = Push(x, b) /\ StandsAt(x, b) /\ StandsAt(pc[t], Push(x, b))
  BY Returns DEF AuthorityInv, ThreadInv, ThreadIs
<1> HIDE DEF x, b
<1>4. /\ IsCleaning(x, b) <=> Below(stk[t], InFault)
      /\ Publishes(x, b) <=> Below(stk[t], Push("publish", <<>>))
  BY <1>3, ReturnsTo
<1>5. IsCleaning(pc[t], stk[t]) => IsCleaning(x, b)
  BY <1>4 DEF IsCleaning, Faults, Returning
<1>6. ASSUME NEW w \in A!Caps, Duty(t, w), wr[w].phase = "active"
      PROVE  MustClean(x, b, cur[t], tgt[t], cap', w)
  <2>1. cur[t] = w /\ Publishes(pc[t], stk[t])
    BY <1>6 DEF Duty, MustClean, A!Caps, A!Nil
  <2>2. Publishes(x, b)
    BY <1>4, <2>1 DEF Publishes, Returning
  <2> QED BY <2>1, <2>2 DEF MustClean
<1>7. HandsOn(t, x, b, cur[t], tgt[t])
  BY <1>5, <1>6 DEF HandsOn
<1> QED BY <1>1, <1>2, <1>7, QuietStep

(* A step of a thread that has nothing to clean or to publish.              *)
LEMMA TopStep ==
    ASSUME AuthorityInv, NEW t \in Threads,
           pc[t] \in Uncalled \cup {"revoke", "revokeChecked", "revokeDone"},
           pc[t] \notin {"publishLock", "publish", "undo"},
           NEW l, NEW s, NEW c, NEW g, Moves(t, l, s, c, g), Quiet,
           ThreadIs(t, l, s, c, g, wr', cap', oplock')
    PROVE  AuthorityInv'
<1>1. HandsOn(t, l, s, c, g)
  BY NothingToHandOn
<1> QED BY <1>1, QuietStep

(* It goes on, or calls the verification.                                   *)
LEMMA TopGoes ==
    ASSUME AuthorityInv, NEW t \in Threads, pc[t] \in Uncalled \ {"publishLock", "publish", "undo"},
           NEW l \in Uncalled, A!Goto(t, l), UNCHANGED tgt,
           NEW c, cur' = [cur EXCEPT ![t] = c], Quiet,
           l \in WithCap => c \in A!Caps,
           l \in {"useBody", "useRun", "useUnlock"} => oplock'[c] = t,
           l = "useRun" => wr'[c].revokes = 0
    PROVE  AuthorityInv'
<1>1. stk[t] = <<>>
  BY NothingToHandOn
<1>2. Moves(t, l, <<>>, c, tgt[t])
  BY <1>1, Unmoved DEF Moves, A!Goto
<1>3. ThreadIs(t, l, <<>>, c, tgt[t], wr', cap', oplock')
  BY AtTop
<1> QED BY <1>2, <1>3, TopStep

LEMMA TopVerifies ==
    ASSUME AuthorityInv, NEW t \in Threads, pc[t] \in Uncalled \ {"publishLock", "publish", "undo"},
           NEW r \in Callers, A!Call(t, "verify", r), UNCHANGED tgt,
           NEW c, cur' = [cur EXCEPT ![t] = c], Quiet,
           r \in WithCap => c \in A!Caps
    PROVE  AuthorityInv'
<1>1. stk[t] = <<>>
  BY NothingToHandOn
<1>2. Moves(t, "verify", Push(r, <<>>), c, tgt[t])
  <2>1. stk' = [stk EXCEPT ![t] = Push(r, stk[t])]
    BY DEF A!Call, Push
  <2> QED BY <1>1, <2>1, Unmoved DEF Moves, A!Call
<1>3. ThreadIs(t, "verify", Push(r, <<>>), c, tgt[t], wr', cap', oplock')
  BY AtVerify
<1> QED BY <1>2, <1>3, TopStep

LEMMA TopRevokes ==
    ASSUME AuthorityInv, NEW t \in Threads, pc[t] \in Uncalled \ {"publishLock", "publish", "undo"},
           A!Call(t, "revoke", "idle"), UNCHANGED tgt,
           NEW c \in A!Caps, cur' = [cur EXCEPT ![t] = c], Quiet
    PROVE  AuthorityInv'
<1>1. stk[t] = <<>>
  BY NothingToHandOn
<1>2. Moves(t, "revoke", Revoking, c, tgt[t])
  <2>1. stk' = [stk EXCEPT ![t] = Push("idle", stk[t])]
    BY DEF A!Call, Push
  <2> QED BY <1>1, <2>1, Unmoved DEF Moves, A!Call, Revoking
<1>3. ThreadIs(t, "revoke", Revoking, c, tgt[t], wr', cap', oplock')
  BY AtRevoke
<1> QED BY <1>2, <1>3, TopStep

LEMMA TopRefuses ==
    ASSUME AuthorityInv, NEW t \in Threads, pc[t] \in Uncalled \ {"publishLock", "publish", "undo"},
           NEW r \in {"idle", "unlock"}, A!Call(t, "mismatch", r), UNCHANGED <<cur, tgt>>, Quiet
    PROVE  AuthorityInv'
<1>1. stk[t] = <<>>
  BY NothingToHandOn
<1>2. Moves(t, "mismatch", Push(r, <<>>), cur[t], tgt[t])
  <2>1. stk' = [stk EXCEPT ![t] = Push(r, stk[t])]
    BY DEF A!Call, Push
  <2> QED BY <1>1, <2>1, Unmoved DEF Moves, A!Call
<1>3. ThreadIs(t, "mismatch", Push(r, <<>>), cur[t], tgt[t], wr', cap', oplock')
  BY AtRefusal
<1> QED BY <1>2, <1>3, TopStep

(* The engine keeps its shape.                                              *)
LEMMA EngineFails ==
    ASSUME NEW e, IsEngine(e)
    PROVE  /\ IsEngine(A!Failed(e)) /\ A!Failed(e).auth = e.auth
           /\ IsEngine(A!BarrierFailed(e)) /\ A!BarrierFailed(e).auth = e.auth
<1>1. IsEngine(A!Failed(e)) /\ A!Failed(e).auth = e.auth
  <2>1. PICK x : x = A!BarrierAfterFail(e.bar)
    OBVIOUS
  <2>2. PICK d : d = [e EXCEPT !.st = "failed", !.eligible = FALSE, !.bar = x]
    OBVIOUS
  <2>3. IsEngine(d) /\ d.auth = e.auth
    BY <2>2 DEF IsEngine
  <2> QED BY <2>1, <2>2, <2>3 DEF A!Failed
<1>2. IsEngine(A!BarrierFailed(e)) /\ A!BarrierFailed(e).auth = e.auth
  <2>1. PICK d : d = [e EXCEPT !.bar.st = "failed", !.bar.probe = FALSE]
    OBVIOUS
  <2>2. IsEngine(d) /\ d.auth = e.auth
    BY <2>1 DEF IsEngine
  <2> QED BY <2>1, <2>2 DEF A!BarrierFailed
<1> QED BY <1>1, <1>2

(* Nothing but the engine's state changes.                                  *)
LEMMA StillStep ==
    ASSUME AuthorityInv, UNCHANGED <<reg, cap, wr, oplock, pc, stk, cur, tgt>>, IsEngine(engine'),
           engine'.auth = engine.auth
    PROVE  AuthorityInv'
<1>1. ASSUME NEW u \in Threads PROVE ThreadInv(u)'
  BY PrimedThread DEF AuthorityInv, ThreadInv
<1>2. ASSUME NEW w \in A!Caps PROVE WrapperInv(w)'
  <2>1. WrapperInv(w)
    BY DEF AuthorityInv
  <2>2. \A u : Duty(u, w)' <=> Duty(u, w)
    BY PrimedThread DEF Duty
  <2>3. OneCleanup(wr'[w]) /\ (wr'[w].phase = "cleaning" =>
           /\ wr'[w].owner \in Threads
           /\ IsCleaning(pc'[wr'[w].owner], stk'[wr'[w].owner])
           /\ tgt'[wr'[w].owner].w = w)
    BY <2>1 DEF WrapperInv
  <2>4. wr'[w].made = "complete" /\ wr'[w].phase = "active" =>
           (reg'.live /\ cap'[w].pub) \/ \E u \in Threads : Duty(u, w)'
    BY <2>1, <2>2 DEF WrapperInv
  <2>5. cap'[w].pub => reg'.cap = w /\ engine'.auth = w /\ cap'[w].phase \in {"admitted", "retired"}
    BY <2>1 DEF WrapperInv
  <2> QED BY <2>3, <2>4, <2>5, PrimedCleanup DEF WrapperInv
<1>3. AdmissionTypes'
  BY DEF AuthorityInv, AdmissionTypes, IsWrapper, IsCap, IsEngine, IsRecord, A!Caps, A!Nil
<1>4. Served'
  BY ServedPrimed DEF AuthorityInv, Served
<1> QED BY <1>1, <1>2, <1>3, <1>4, PrimedCleanup DEF AuthorityInv

LEMMA CensusStep ==
    ASSUME AuthorityInv, NEW t \in Threads,
           \/ A!BeginCensus(t) \/ A!NextProbe(t) \/ A!AcceptResult(t) \/ A!Complete(t) \/ A!Consume(t)
    PROVE  AuthorityInv'
<1>1. IsEngine(engine)
  BY DEF AuthorityInv, AdmissionTypes
<1>2. IsEngine(engine') /\ engine'.auth = engine.auth
  <2>1. CASE A!BeginCensus(t)
    <3>1. PICK d : d = [engine EXCEPT !.bar.st = "collecting"]
      OBVIOUS
    <3> QED BY <1>1, <2>1, <3>1 DEF A!BeginCensus, A!Census, IsEngine
  <2>2. CASE A!NextProbe(t)
    <3>1. PICK d : d = [engine EXCEPT !.bar.probe = TRUE]
      OBVIOUS
    <3> QED BY <1>1, <2>2, <3>1 DEF A!NextProbe, A!Census, IsEngine
  <2>3. CASE A!AcceptResult(t)
    <3>1. PICK x : engine' = [engine EXCEPT !.bar = x]
      BY <2>3 DEF A!AcceptResult, A!Census
    <3>2. PICK d : d = [engine EXCEPT !.bar = x]
      OBVIOUS
    <3> QED BY <1>1, <3>1, <3>2 DEF IsEngine
  <2>4. CASE A!Complete(t)
    <3>1. PICK d : d = [engine EXCEPT !.bar.st = "complete"]
      OBVIOUS
    <3> QED BY <1>1, <2>4, <3>1 DEF A!Complete, A!Census, IsEngine
  <2>5. CASE A!Consume(t)
    <3>1. PICK d : d = [engine EXCEPT !.bar.st = "consumed", !.eligible = TRUE]
      OBVIOUS
    <3> QED BY <1>1, <2>5, <3>1 DEF A!Consume, A!Census, IsEngine
  <2> QED BY <2>1, <2>2, <2>3, <2>4, <2>5
<1>3. UNCHANGED <<reg, cap, wr, oplock, pc, stk, cur, tgt>>
  BY DEF A!BeginCensus, A!NextProbe, A!AcceptResult, A!Complete, A!Consume, A!Census, A!thr
<1> QED BY <1>2, <1>3, StillStep

LEMMA ChangeBindingStep ==
    ASSUME AuthorityInv, A!ChangeBinding \/ UNCHANGED admission
    PROVE  AuthorityInv'
<1>1. UNCHANGED <<engine, reg, cap, wr, oplock, pc, stk, cur, tgt>>
  BY DEF A!ChangeBinding, A!thr, admission
<1>2. IsEngine(engine') /\ engine'.auth = engine.auth
  BY <1>1 DEF AuthorityInv, AdmissionTypes
<1> QED BY <1>1, <1>2, StillStep

LEMMA CallsStep ==
    ASSUME AuthorityInv, NEW t \in Threads,
           \/ A!GlobalRevoke(t) \/ A!UseWrapper(t) \/ A!ReportTerminal(t) \/ A!EngineCall(t) \/ A!Admit(t)
    PROVE  AuthorityInv'
<1>1. UNCHANGED <<engine, reg, cap, wr, oplock, tgt>>
  BY DEF A!GlobalRevoke, A!UseWrapper, A!ReportTerminal, A!EngineCall, A!Admit, A!auth
<1>2. Quiet
  BY <1>1, SameIsQuiet DEF AuthorityInv, AdmissionTypes
<1>3. pc[t] \in Uncalled \ {"publishLock", "publish", "undo"}
  BY DEF A!GlobalRevoke, A!UseWrapper, A!ReportTerminal, A!EngineCall, A!Admit, A!Begin, A!At, Uncalled
<1>4. CASE A!GlobalRevoke(t)
  <2>1. PICK c \in A!Caps : cur' = [cur EXCEPT ![t] = c]
    BY <1>4 DEF A!GlobalRevoke
  <2>2. A!Call(t, "revoke", "idle")
    BY <1>4 DEF A!GlobalRevoke
  <2> QED BY <1>1, <1>2, <1>3, <2>1, <2>2, TopRevokes
<1>5. CASE A!UseWrapper(t)
  <2>1. PICK c \in A!Caps : cur' = [cur EXCEPT ![t] = c]
    BY <1>5 DEF A!UseWrapper
  <2>2. A!Call(t, "verify", "useChecked")
    BY <1>5 DEF A!UseWrapper, A!Begin
  <2> QED BY <1>1, <1>2, <1>3, <2>1, <2>2, TopVerifies DEF Callers
<1>6. CASE A!ReportTerminal(t) \/ A!EngineCall(t) \/ A!Admit(t)
  <2>1. cur' = [cur EXCEPT ![t] = cur[t]]
    BY <1>6, Unmoved DEF A!ReportTerminal, A!EngineCall, A!Admit
  <2>2. PICK r \in {"terminal", "called", "admitChecked"} : A!Call(t, "verify", r)
    BY <1>6 DEF A!ReportTerminal, A!EngineCall, A!Admit, A!Begin
  <2>3. r \in Callers /\ r \notin WithCap
    BY DEF Callers, WithCap
  <2> QED BY <1>1, <1>2, <1>3, <2>1, <2>2, <2>3, TopVerifies
<1> QED BY <1>4, <1>5, <1>6

(* Operations of a wrapper up to its lock, and the end of the locked calls. *)
LEMMA GuardStep ==
    ASSUME AuthorityInv, NEW t \in Threads, A!UseGuard(t) \/ A!UseGuardAfter(t) \/ A!Unlock(t)
    PROVE  AuthorityInv'
<1>1. UNCHANGED <<engine, reg, cap, wr, oplock, cur, tgt>>
  BY DEF A!UseGuard, A!UseGuardAfter, A!Unlock, A!auth, A!Same
<1>2. Quiet
  BY <1>1, SameIsQuiet DEF AuthorityInv, AdmissionTypes
<1>3. pc[t] \in Uncalled \ {"publishLock", "publish", "undo"}
  BY DEF A!UseGuard, A!UseGuardAfter, A!Unlock, A!At, Uncalled
<1>4. cur' = [cur EXCEPT ![t] = cur[t]]
  BY <1>1, Unmoved
<1>5. /\ pc[t] \in {"useChecked", "useBody"} => cur[t] \in A!Caps
      /\ pc[t] = "useBody" => oplock'[cur[t]] = t
  BY <1>1 DEF AuthorityInv, ThreadInv, ThreadIs, HasCap
<1>6. CASE A!UseGuard(t)
  <2>1. PICK l \in {"useLock", "idle"} : A!Goto(t, l)
    BY <1>6 DEF A!UseGuard
  <2>2. l \in Uncalled /\ pc[t] = "useChecked"
    BY <1>6 DEF Uncalled, A!UseGuard, A!At
  <2> QED BY <1>1, <1>2, <1>3, <1>4, <1>5, <2>1, <2>2, TopGoes
<1>7. CASE A!UseGuardAfter(t)
  <2>1. PICK l \in {"useRun", "useUnlock"} : A!Goto(t, l) /\ (l = "useRun" => wr[cur[t]].phase = "active")
    BY <1>7 DEF A!UseGuardAfter, A!GuardAfterLock
  <2>2. l \in Uncalled /\ pc[t] = "useBody"
    BY <1>7 DEF Uncalled, A!UseGuardAfter, A!At
  <2>3. l = "useRun" => wr'[cur[t]].revokes = 0
    BY <1>1, <1>5, <2>1, <2>2 DEF AuthorityInv, WrapperInv, OneCleanup
  <2> QED BY <1>1, <1>2, <1>3, <1>4, <1>5, <2>1, <2>2, <2>3, TopGoes
<1>8. CASE A!Unlock(t)
  <2>1. A!Goto(t, "idle") /\ "idle" \in Uncalled /\ "idle" \notin WithCap
    BY <1>8 DEF A!Unlock, Uncalled, WithCap
  <2> QED BY <1>1, <1>2, <1>3, <1>4, <2>1, TopGoes
<1> QED BY <1>6, <1>7, <1>8

LEMMA RevokesServed ==
    ASSUME AuthorityInv, NEW t \in Threads, pc[t] \in Uncalled \ {"publishLock", "publish", "undo"},
           A!RevokeServed(t), UNCHANGED tgt, Quiet
    PROVE  AuthorityInv'
<1>1. CASE engine.auth = A!Nil
  <2>1. A!Goto(t, "idle") /\ "idle" \in Uncalled /\ "idle" \notin WithCap
    BY <1>1 DEF A!RevokeServed, Uncalled, WithCap
  <2>2. cur' = [cur EXCEPT ![t] = cur[t]]
    BY <1>1, Unmoved DEF A!RevokeServed
  <2> QED BY <2>1, <2>2, TopGoes
<1>2. CASE engine.auth # A!Nil
  <2>1. engine.auth \in A!Caps
    BY <1>2 DEF AuthorityInv, Served
  <2>2. A!Call(t, "revoke", "idle") /\ cur' = [cur EXCEPT ![t] = engine.auth]
    BY <1>2 DEF A!RevokeServed
  <2> QED BY <2>1, <2>2, TopRevokes
<1> QED BY <1>1, <1>2

LEMMA TerminalStep ==
    ASSUME AuthorityInv, NEW t \in Threads, A!Terminal(t) \/ A!Called(t)
    PROVE  AuthorityInv'
<1>1. UNCHANGED <<reg, cap, wr, oplock, tgt>>
  BY DEF A!Terminal, A!Called
<1>2. IsEngine(engine)
  BY DEF AuthorityInv, AdmissionTypes
<1>3. engine' \in {engine, A!Failed(engine), A!BarrierFailed(A!Failed(engine))}
  BY DEF A!Terminal, A!Called
<1>4. IsEngine(engine') /\ engine'.auth = engine.auth
  BY <1>2, <1>3, EngineFails
<1>5. Quiet
  BY <1>1, <1>4, SameIsQuiet
<1>6. pc[t] \in Uncalled \ {"publishLock", "publish", "undo"}
  BY DEF A!Terminal, A!Called, A!At, Uncalled
<1>7. A!RevokeServed(t) \/ (A!Goto(t, "idle") /\ UNCHANGED cur)
  BY DEF A!Terminal, A!Called
<1>8. CASE A!Goto(t, "idle") /\ UNCHANGED cur
  <2>1. cur' = [cur EXCEPT ![t] = cur[t]] /\ "idle" \in Uncalled /\ "idle" \notin WithCap
    BY <1>8, Unmoved DEF Uncalled, WithCap
  <2> QED BY <1>1, <1>5, <1>6, <1>8, <2>1, TopGoes
<1>9. CASE A!RevokeServed(t)
  BY <1>1, <1>5, <1>6, <1>9, RevokesServed
<1> QED BY <1>7, <1>8, <1>9

(* A capability or a wrapper changes, in what the authority does not turn on.*)
LEMMA CapChanges ==
    ASSUME AuthorityInv, NEW c, NEW d, cap' = [cap EXCEPT ![c] = d],
           c \in A!Caps => /\ IsCap(d) /\ d.pub = cap[c].pub
                           /\ cap[c].pub => d.phase \in {"admitted", "retired"},
           UNCHANGED <<engine, wr, oplock>>, IsRecord(reg'), reg'.live = reg.live,
           reg'.minted \in Nat, reg'.cap \in A!Caps \cup {A!Nil},
           reg'.cap = reg.cap \/ \A w \in A!Caps : ~cap[w].pub
    PROVE  Quiet
<1>1. /\ cap = [w \in A!Caps |-> cap[w]] /\ \A w \in A!Caps : IsCap(cap[w])
      /\ wr = [w \in A!Caps |-> wr[w]] /\ \A w \in A!Caps : IsWrapper(wr[w])
      /\ oplock = [w \in A!Caps |-> oplock[w]] /\ IsEngine(engine)
      /\ \A w \in A!Caps : cap[w].pub => cap[w].phase \in {"admitted", "retired"}
  BY DEF AuthorityInv, AdmissionTypes, WrapperInv
<1>2. /\ cap' = [w \in A!Caps |-> cap'[w]]
      /\ \A w \in A!Caps : cap'[w] = IF w = c THEN d ELSE cap[w]
  BY <1>1
<1>3. ASSUME NEW w \in A!Caps PROVE IsCap(cap'[w]) /\ Authorised(w)
  BY <1>1, <1>2 DEF Authorised
<1>4. \A w \in A!Caps : Unused(w)
  BY DEF Unused
<1>5. Typed
  BY <1>1, <1>2, <1>3 DEF Typed
<1> QED BY <1>3, <1>4, <1>5 DEF Quiet

LEMMA WrapperChanges ==
    ASSUME AuthorityInv, NEW c \in A!Caps, NEW d, wr' = [wr EXCEPT ![c] = d], IsWrapper(d),
           d.phase = wr[c].phase, d.owner = wr[c].owner, d.revokes = wr[c].revokes,
           d.sessions = wr[c].sessions, wr[c].mismatch => d.mismatch,
           d.made = "complete" => wr[c].made = "complete",
           UNCHANGED <<reg, cap, oplock>>, IsEngine(engine'), engine'.auth = engine.auth
    PROVE  Quiet
<1>1. /\ cap = [w \in A!Caps |-> cap[w]] /\ \A w \in A!Caps : IsCap(cap[w])
      /\ wr = [w \in A!Caps |-> wr[w]] /\ \A w \in A!Caps : IsWrapper(wr[w])
      /\ oplock = [w \in A!Caps |-> oplock[w]] /\ IsRecord(reg)
      /\ reg.minted \in Nat /\ reg.cap \in A!Caps \cup {A!Nil}
      /\ \A w \in A!Caps : cap[w].pub => cap[w].phase \in {"admitted", "retired"}
  BY DEF AuthorityInv, AdmissionTypes, WrapperInv
<1>2. /\ wr' = [w \in A!Caps |-> wr'[w]]
      /\ \A w \in A!Caps : wr'[w] = IF w = c THEN d ELSE wr[w]
  BY <1>1
<1>3. ASSUME NEW w \in A!Caps PROVE IsWrapper(wr'[w]) /\ Unused(w)
  BY <1>1, <1>2 DEF Unused
<1>4. \A w \in A!Caps : Authorised(w)
  BY <1>1 DEF Authorised
<1>5. Typed
  BY <1>1, <1>2, <1>3 DEF Typed
<1> QED BY <1>3, <1>4, <1>5 DEF Quiet

LEMMA AdmitCheckedStep ==
    ASSUME AuthorityInv, NEW t \in Threads, A!AdmitChecked(t)
    PROVE  AuthorityInv'
<1>1. UNCHANGED <<reg, cap, wr, oplock, cur, tgt>>
  BY DEF A!AdmitChecked, A!Same
<1>2. IsEngine(engine)
  BY DEF AuthorityInv, AdmissionTypes
<1>3. engine' \in {engine, A!Failed(engine)}
  BY DEF A!AdmitChecked
<1>4. IsEngine(engine') /\ engine'.auth = engine.auth
  BY <1>2, <1>3, EngineFails
<1>5. Quiet
  BY <1>1, <1>4, SameIsQuiet
<1>6. pc[t] \in Uncalled \ {"publishLock", "publish", "undo"}
  BY DEF A!AdmitChecked, A!At, Uncalled
<1>7. cur' = [cur EXCEPT ![t] = cur[t]] /\ "idle" \in Uncalled /\ "idle" \notin WithCap
        /\ "admitCap" \in Callers /\ "admitCap" \notin WithCap
  BY <1>1, Unmoved DEF Uncalled, WithCap, Callers
<1>8. CASE A!Goto(t, "idle")
  BY <1>1, <1>5, <1>6, <1>7, <1>8, TopGoes
<1>9. CASE A!Call(t, "verify", "admitCap")
  BY <1>1, <1>5, <1>6, <1>7, <1>9, TopVerifies
<1> QED BY <1>8, <1>9 DEF A!AdmitChecked

LEMMA AdmitCapStep ==
    ASSUME AuthorityInv, NEW t \in Threads, A!AdmitCap(t)
    PROVE  AuthorityInv'
<1>1. UNCHANGED <<engine, cap, wr, oplock, tgt>>
  BY DEF A!AdmitCap
<1>2. /\ IsEngine(engine) /\ IsRecord(reg) /\ reg.minted \in Nat /\ reg.cap \in A!Caps \cup {A!Nil}
      /\ \A w \in A!Caps : IsCap(cap[w])
      /\ \A w \in A!Caps : cap[w].pub => reg.cap = w /\ cap[w].phase \in {"admitted", "retired"}
      /\ cap = [cap EXCEPT ![A!Nil] = cap[A!Nil]]
  BY DEF AuthorityInv, AdmissionTypes, WrapperInv
<1>3. pc[t] \in Uncalled \ {"publishLock", "publish", "undo"}
  BY DEF A!AdmitCap, A!At, Uncalled
<1>4. UNCHANGED reg => Quiet
  BY <1>1, <1>2, SameIsQuiet
<1>5. CASE A!Goto(t, "idle") /\ UNCHANGED <<reg, cur>>
  <2>1. cur' = [cur EXCEPT ![t] = cur[t]] /\ "idle" \in Uncalled /\ "idle" \notin WithCap
    BY <1>5, Unmoved DEF Uncalled, WithCap
  <2> QED BY <1>1, <1>3, <1>4, <1>5, <2>1, TopGoes
<1>6. CASE A!Call(t, "mismatch", "idle") /\ UNCHANGED <<reg, cur>>
  BY <1>1, <1>3, <1>4, <1>6, TopRefuses
<1>7. "admitPhase" \in Uncalled /\ "admitPhase" \notin {"useBody", "useRun", "useUnlock"}
  BY DEF Uncalled
<1>8. CASE reg.cap # A!Nil /\ cur' = [cur EXCEPT ![t] = reg.cap] /\ A!Goto(t, "admitPhase") /\ UNCHANGED reg
  <2>1. reg.cap \in A!Caps
    BY <1>2, <1>8
  <2> QED BY <1>1, <1>3, <1>4, <1>7, <1>8, <2>1, TopGoes
<1>9. CASE /\ reg.cap = A!Nil /\ reg.minted < MaxCaps
           /\ reg' = [reg EXCEPT !.cap = reg.minted + 1, !.minted = @ + 1]
           /\ cur' = [cur EXCEPT ![t] = reg.minted + 1] /\ A!Goto(t, "admitPhase")
  <2>1. reg.minted + 1 \in A!Caps /\ reg.minted + 1 \in Nat
    BY <1>2, <1>9, CapsAssumption DEF A!Caps
  <2>2. PICK n : n = reg.minted + 1
    OBVIOUS
  <2>3. PICK d : d = [reg EXCEPT !.cap = n, !.minted = n]
    OBVIOUS
  <2>4. IsRecord(d) /\ d.live = reg.live /\ d.minted = n /\ d.cap = n /\ reg' = d
    BY <1>2, <1>9, <2>2, <2>3 DEF IsRecord
  <2>5. \A w \in A!Caps : ~cap[w].pub
    BY <1>2, <1>9 DEF A!Caps, A!Nil
  <2>6. cap' = [cap EXCEPT ![A!Nil] = cap[A!Nil]] /\ A!Nil \notin A!Caps
    BY <1>1, <1>2 DEF A!Nil, A!Caps
  <2>7. /\ IsRecord(reg') /\ reg'.live = reg.live
        /\ reg'.minted \in Nat /\ reg'.cap \in A!Caps \cup {A!Nil}
    BY <2>1, <2>2, <2>4
  <2>8. Quiet
    BY <1>1, <2>5, <2>6, <2>7, CapChanges
  <2> QED BY <1>1, <1>3, <1>7, <1>9, <2>1, <2>8, TopGoes
<1> QED BY <1>5, <1>6, <1>8, <1>9 DEF A!AdmitCap

LEMMA AdmitPhaseStep ==
    ASSUME AuthorityInv, NEW t \in Threads, A!AdmitPhase(t)
    PROVE  AuthorityInv'
<1>1. UNCHANGED <<engine, reg, wr, oplock, cur, tgt>>
  BY DEF A!AdmitPhase, A!Same
<1>2. pc[t] = "admitPhase" /\ pc[t] \in Uncalled \ {"publishLock", "publish", "undo"}
  BY DEF A!AdmitPhase, A!At, Uncalled
<1>3. /\ IsEngine(engine) /\ IsRecord(reg) /\ reg.minted \in Nat /\ reg.cap \in A!Caps \cup {A!Nil}
      /\ \A w \in A!Caps : IsCap(cap[w])
      /\ \A w \in A!Caps : cap[w].pub => cap[w].phase \in {"admitted", "retired"}
      /\ cur[t] \in A!Caps
  BY <1>2 DEF AuthorityInv, AdmissionTypes, WrapperInv, ThreadInv, ThreadIs, HasCap
<1>4. cur' = [cur EXCEPT ![t] = cur[t]]
  BY <1>1, Unmoved
<1> DEFINE c == cur[t]
<1>5. cap[c].phase \in {"none", "constructing", "admitted", "retired", "failed"}
  BY <1>3 DEF IsCap
<1>6. CASE UNCHANGED cap
  <2>1. Quiet
    BY <1>1, <1>3, <1>6, SameIsQuiet
  <2>2. CASE A!Call(t, "verify", "admitCap")
    <3>1. "admitCap" \in Callers /\ "admitCap" \notin WithCap
      BY DEF Callers, WithCap
    <3> QED BY <1>1, <1>2, <1>4, <2>1, <2>2, <3>1, TopVerifies
  <2>3. ASSUME NEW l \in {"idle", "admitLock", "admitWait"}, A!Goto(t, l)
        PROVE  AuthorityInv'
    <3>1. l \in Uncalled /\ l \notin WithCap
      BY DEF Uncalled, WithCap
    <3> QED BY <1>1, <1>2, <1>4, <2>1, <2>3, <3>1, TopGoes
  <2>4. ASSUME A!Goto(t, "build")
        PROVE  AuthorityInv'
    <3>1. "build" \in Uncalled /\ "build" \notin {"useBody", "useRun", "useUnlock"}
      BY DEF Uncalled
    <3>2. "build" # "useRun" /\ cur[t] \in A!Caps
      BY <1>3
    <3> QED BY <1>1, <1>2, <1>4, <2>1, <2>4, <3>1, <3>2, TopGoes
  <2> QED BY <1>5, <2>2, <2>3, <2>4 DEF A!AdmitPhase
<1>7. CASE cap[c].phase = "none"
  <2>0. PICK r : r = cap[c]
    OBVIOUS
  <2>1. PICK d : d = [r EXCEPT !.phase = "constructing", !.owner = t, !.retOwner = A!Nil,
                               !.con = FALSE]
    OBVIOUS
  <2>2. IsCap(d) /\ d.pub = cap[c].pub /\ ~cap[c].pub
    <3>1. IsCap(r) /\ ~r.pub
      BY <1>3, <1>7, <2>0
    <3>2. IsCap(d) /\ d.pub = r.pub
      BY <3>1, <2>1 DEF IsCap
    <3> QED BY <2>0, <3>1, <3>2
  <2>3. cap' = [cap EXCEPT ![c] = d] /\ A!Goto(t, "build")
    BY <1>7, <2>0, <2>1 DEF A!AdmitPhase
  <2>4. Quiet
    BY <1>1, <1>3, <2>2, <2>3, CapChanges
  <2>5. "build" \in Uncalled /\ "build" \notin {"useBody", "useRun", "useUnlock"}
    BY DEF Uncalled
  <2>6. "build" # "useRun" /\ cur[t] \in A!Caps
    BY <1>3
  <2> QED BY <1>1, <1>2, <1>4, <2>3, <2>4, <2>5, <2>6, TopGoes
<1> QED BY <1>5, <1>6, <1>7 DEF A!AdmitPhase

LEMMA AdmitLockStep ==
    ASSUME AuthorityInv, NEW t \in Threads, A!AdmitLock(t) \/ A!AdmitWait(t)
    PROVE  AuthorityInv'
<1>1. UNCHANGED <<engine, reg, cap, wr, oplock, cur, tgt>>
  BY DEF A!AdmitLock, A!AdmitWait, A!auth, A!Same
<1>2. Quiet
  BY <1>1, SameIsQuiet DEF AuthorityInv, AdmissionTypes
<1>3. pc[t] \in Uncalled \ {"publishLock", "publish", "undo"}
  BY DEF A!AdmitLock, A!AdmitWait, A!At, Uncalled
<1>4. cur' = [cur EXCEPT ![t] = cur[t]]
  BY <1>1, Unmoved
<1>5. PICK r \in {"admitCap", "admitReturn"} : A!Call(t, "verify", r)
  BY DEF A!AdmitLock, A!AdmitWait
<1>6. r \in Callers /\ r \notin WithCap
  BY DEF Callers, WithCap
<1> QED BY <1>1, <1>2, <1>3, <1>4, <1>5, <1>6, TopVerifies

LEMMA AdmitReturnStep ==
    ASSUME AuthorityInv, NEW t \in Threads, A!AdmitReturn(t)
    PROVE  AuthorityInv'
<1>1. UNCHANGED <<reg, cap, wr, oplock, cur, tgt>>
  BY DEF A!AdmitReturn, A!Same
<1>2. /\ IsEngine(engine) /\ reg.cap \in A!Caps \cup {A!Nil}
      /\ \A w \in A!Caps : cap[w].pub => reg.cap = w /\ engine.auth = w
      /\ engine.auth # A!Nil => engine.auth \in A!Caps /\ cap[engine.auth].pub
  BY DEF AuthorityInv, AdmissionTypes, WrapperInv, Served
<1>3. IsEngine(engine') /\ engine'.auth = engine.auth
  <2>1. CASE engine' \in {engine, A!Failed(engine)}
    BY <1>2, <2>1, EngineFails
  <2>2. CASE engine' = [engine EXCEPT !.auth = cur[t]] /\ reg.cap = cur[t] /\ cap[cur[t]].pub
    <3>1. engine.auth = cur[t]
      BY <1>2, <2>2
    <3>2. PICK d : d = [engine EXCEPT !.auth = cur[t]]
      OBVIOUS
    <3>3. IsEngine(d) /\ d.auth = cur[t]
      BY <1>2, <3>2 DEF IsEngine
    <3> QED BY <2>2, <3>1, <3>2, <3>3
  <2> QED BY <2>1, <2>2 DEF A!AdmitReturn
<1>4. Quiet
  BY <1>1, <1>3, SameIsQuiet
<1>5. pc[t] \in Uncalled \ {"publishLock", "publish", "undo"}
  BY DEF A!AdmitReturn, A!At, Uncalled
<1>6. cur' = [cur EXCEPT ![t] = cur[t]] /\ "idle" \in Uncalled /\ "idle" \notin WithCap
  BY <1>1, Unmoved DEF Uncalled, WithCap
<1>7. CASE A!Goto(t, "idle")
  BY <1>1, <1>4, <1>5, <1>6, <1>7, TopGoes
<1>8. CASE A!Call(t, "mismatch", "unlock")
  BY <1>1, <1>4, <1>5, <1>8, TopRefuses
<1> QED BY <1>7, <1>8 DEF A!AdmitReturn

LEMMA BuildStep ==
    ASSUME AuthorityInv, NEW t \in Threads, A!Build(t)
    PROVE  AuthorityInv'
<1>1. UNCHANGED <<engine, reg, cap, oplock, cur, tgt>>
  BY DEF A!Build, A!Same
<1>2. pc[t] = "build" /\ pc[t] \in Uncalled \ {"publishLock", "publish", "undo"}
  BY DEF A!Build, A!At, Uncalled
<1>3. IsEngine(engine) /\ cur[t] \in A!Caps /\ IsWrapper(wr[cur[t]]) /\ wr = [w \in A!Caps |-> wr[w]]
  BY <1>2 DEF AuthorityInv, AdmissionTypes, ThreadInv, ThreadIs, HasCap
<1>4. cur' = [cur EXCEPT ![t] = cur[t]]
  BY <1>1, Unmoved
<1>5. PICK m \in {"building", "failed"} :
         wr' = [wr EXCEPT ![cur[t]].made = m, ![cur[t]].builder = t]
  BY DEF A!Build
<1>6. PICK c, r : c = cur[t] /\ r = wr[c]
  OBVIOUS
<1>7. PICK d : d = [r EXCEPT !.made = m, !.builder = t]
  OBVIOUS
<1>8. wr' = [wr EXCEPT ![c] = d]
  BY <1>3, <1>5, <1>6, <1>7 DEF IsWrapper
<1>9. /\ IsWrapper(d) /\ d.phase = r.phase /\ d.owner = r.owner /\ d.revokes = r.revokes
      /\ d.sessions = r.sessions /\ d.mismatch = r.mismatch /\ d.made = m
  BY <1>3, <1>6, <1>7 DEF IsWrapper
<1>10. Quiet
  BY <1>1, <1>3, <1>6, <1>8, <1>9, WrapperChanges
<1>11. CASE A!Call(t, "verify", "claim")
  <2>1. "claim" \in Callers
    BY DEF Callers
  <2> QED BY <1>1, <1>2, <1>3, <1>4, <1>10, <1>11, <2>1, TopVerifies
<1>12. CASE A!Goto(t, "abandon")
  <2>1. "abandon" \in Uncalled /\ "abandon" \notin WithCap
    BY DEF Uncalled, WithCap
  <2> QED BY <1>1, <1>2, <1>4, <1>10, <1>12, <2>1, TopGoes
<1> QED BY <1>11, <1>12 DEF A!Build

LEMMA ClaimStep ==
    ASSUME AuthorityInv, NEW t \in Threads, A!Claim(t)
    PROVE  AuthorityInv'
<1>1. UNCHANGED <<engine, reg, oplock, cur, tgt>>
  BY DEF A!Claim, A!Same
<1>2. pc[t] = "claim" /\ pc[t] \in Uncalled \ {"publishLock", "publish", "undo"}
  BY DEF A!Claim, A!At, Uncalled
<1>3. /\ IsEngine(engine) /\ cur[t] \in A!Caps /\ IsWrapper(wr[cur[t]])
      /\ wr = [w \in A!Caps |-> wr[w]] /\ cap = [w \in A!Caps |-> cap[w]]
      /\ IsCap(cap[cur[t]]) /\ (cap[cur[t]].pub => cap[cur[t]].phase \in {"admitted", "retired"})
      /\ IsRecord(reg) /\ reg.minted \in Nat /\ reg.cap \in A!Caps \cup {A!Nil}
  BY <1>2 DEF AuthorityInv, AdmissionTypes, ThreadInv, ThreadIs, HasCap, WrapperInv
<1>4. cur' = [cur EXCEPT ![t] = cur[t]]
  BY <1>1, Unmoved
<1>5. PICK c : c = cur[t]
  OBVIOUS
<1>6. CASE cap' = [cap EXCEPT ![cur[t]].con = TRUE] /\ A!Goto(t, "finish") /\ UNCHANGED wr
  <2>1. PICK r : r = cap[c]
    OBVIOUS
  <2>2. PICK d : d = [r EXCEPT !.con = TRUE]
    OBVIOUS
  <2>3. cap' = [cap EXCEPT ![c] = d]
    BY <1>3, <1>5, <1>6, <2>1, <2>2 DEF IsCap
  <2>4. IsCap(d) /\ d.pub = r.pub /\ d.phase = r.phase
    BY <1>3, <1>5, <2>1, <2>2 DEF IsCap
  <2>5. Quiet
    BY <1>1, <1>3, <1>5, <1>6, <2>1, <2>3, <2>4, CapChanges
  <2>6. "finish" \in Uncalled /\ "finish" \notin {"useBody", "useRun", "useUnlock"}
    BY DEF Uncalled
  <2>7. "finish" \in WithCap => cur[t] \in A!Caps
    BY <1>3
  <2>8. A!Goto(t, "finish") /\ UNCHANGED tgt
    BY <1>1, <1>6
  <2> QED BY <1>2, <1>4, <2>5, <2>6, <2>7, <2>8, TopGoes
<1>7. CASE wr' = [wr EXCEPT ![cur[t]].made = "failed"] /\ A!Goto(t, "abandon") /\ UNCHANGED cap
  <2>1. PICK r : r = wr[c]
    OBVIOUS
  <2>2. PICK d : d = [r EXCEPT !.made = "failed"]
    OBVIOUS
  <2>3. wr' = [wr EXCEPT ![c] = d]
    BY <1>3, <1>5, <1>7, <2>1, <2>2 DEF IsWrapper
  <2>4. /\ IsWrapper(d) /\ d.phase = r.phase /\ d.owner = r.owner /\ d.revokes = r.revokes
        /\ d.sessions = r.sessions /\ d.mismatch = r.mismatch /\ d.made = "failed"
    BY <1>3, <1>5, <2>1, <2>2 DEF IsWrapper
  <2>5. Quiet
    BY <1>1, <1>3, <1>5, <1>7, <2>1, <2>3, <2>4, WrapperChanges
  <2>6. "abandon" \in Uncalled /\ "abandon" \notin WithCap
    BY DEF Uncalled, WithCap
  <2> QED BY <1>1, <1>2, <1>4, <1>7, <2>5, <2>6, TopGoes
<1> QED BY <1>6, <1>7 DEF A!Claim

LEMMA AbandonStep ==
    ASSUME AuthorityInv, NEW t \in Threads, A!Abandon(t)
    PROVE  AuthorityInv'
<1>1. UNCHANGED <<engine, wr, oplock, cur, tgt>> /\ A!Goto(t, "idle")
  BY DEF A!Abandon, A!Same
<1>2. pc[t] \in Uncalled \ {"publishLock", "publish", "undo"}
  BY DEF A!Abandon, A!At, Uncalled
<1>3. /\ IsEngine(engine) /\ \A w \in A!Caps : IsCap(cap[w])
      /\ \A w \in A!Caps : cap[w].pub => cap[w].phase \in {"admitted", "retired"} /\ reg.cap = w
      /\ IsRecord(reg) /\ reg.minted \in Nat /\ reg.cap \in A!Caps \cup {A!Nil}
  BY DEF AuthorityInv, AdmissionTypes, WrapperInv
<1>4. cur' = [cur EXCEPT ![t] = cur[t]] /\ "idle" \in Uncalled /\ "idle" \notin WithCap
  BY <1>1, Unmoved DEF Uncalled, WithCap
<1>5. PICK c : c = cur[t]
  OBVIOUS
<1>6. PICK r : r = cap[c]
  OBVIOUS
<1>7. PICK mine \in BOOLEAN, current \in BOOLEAN :
         /\ mine = (r.phase = "constructing" /\ r.owner = t)
         /\ current = (reg.live /\ reg.cap = c)
  OBVIOUS
<1>8. PICK x : x = IF r.retOwner = t THEN A!Nil ELSE r.retOwner
  OBVIOUS
<1>9. PICK e : e = [r EXCEPT !.con = FALSE, !.retOwner = x]
  OBVIOUS
<1>10. PICK ph : ph = IF current THEN "failed" ELSE "retired"
  OBVIOUS
<1>11. PICK f : f = [e EXCEPT !.phase = ph, !.retired = ~current, !.owner = A!Nil]
  OBVIOUS
<1>12. PICK d : d = IF ~mine THEN e ELSE f
  OBVIOUS
<1>13. e = [r EXCEPT !.con = FALSE, !.retOwner = IF @ = t THEN A!Nil ELSE @]
  BY <1>8, <1>9
<1>14. cap' = [cap EXCEPT ![c] = d]
  BY <1>5, <1>6, <1>7, <1>10, <1>11, <1>12, <1>13 DEF A!Abandon
<1>15. c \in A!Caps => IsCap(r) /\ (r.pub => r.phase \in {"admitted", "retired"} /\ reg.cap = c)
  BY <1>3, <1>6
<1>16. c \in A!Caps => IsCap(e) /\ e.pub = r.pub /\ e.phase = r.phase
  BY <1>9, <1>15 DEF IsCap
<1>17. c \in A!Caps => IsCap(f) /\ f.pub = r.pub
  BY <1>10, <1>11, <1>16 DEF IsCap
<1>18. c \in A!Caps => IsCap(d) /\ d.pub = r.pub /\ (r.pub => d.phase \in {"admitted", "retired"})
  BY <1>7, <1>12, <1>15, <1>16, <1>17
<1>19. reg' = IF mine /\ current THEN [reg EXCEPT !.cap = A!Nil] ELSE reg
  BY <1>5, <1>6, <1>7 DEF A!Abandon
<1>20. CASE mine /\ current
  <2>1. PICK g : g = [reg EXCEPT !.cap = A!Nil]
    OBVIOUS
  <2>2. IsRecord(g) /\ g.live = reg.live /\ g.minted = reg.minted /\ g.cap = A!Nil
    BY <1>3, <2>1 DEF IsRecord
  <2>3. \A w \in A!Caps : ~cap[w].pub
    BY <1>3, <1>6, <1>7, <1>20
  <2>4. Quiet
    BY <1>1, <1>3, <1>6, <1>14, <1>18, <1>19, <1>20, <2>1, <2>2, <2>3, CapChanges
  <2> QED BY <1>1, <1>2, <1>4, <2>4, TopGoes
<1>21. CASE ~(mine /\ current)
  <2>1. Quiet
    BY <1>1, <1>3, <1>6, <1>14, <1>18, <1>19, <1>21, CapChanges
  <2> QED BY <1>1, <1>2, <1>4, <2>1, TopGoes
<1> QED BY <1>20, <1>21

LEMMA PublishLockStep ==
    ASSUME AuthorityInv, NEW t \in Threads, A!PublishLock(t)
    PROVE  AuthorityInv'
<1>1. UNCHANGED <<engine, reg, cap, wr, oplock, cur, tgt>> /\ pc[t] = "publishLock"
  BY DEF A!PublishLock, A!auth, A!Same, A!At
<1>2. Quiet
  BY <1>1, SameIsQuiet DEF AuthorityInv, AdmissionTypes
<1>3. /\ stk[t] = <<>> /\ ~IsCleaning(pc[t], <<>>) /\ cur[t] \in A!Caps
      /\ \A w : Duty(t, w) <=> cur[t] = w
  BY <1>1, PublishToHandOn
<1> DEFINE s == Push("publish", <<>>)
<1>4. Moves(t, "verify", s, cur[t], tgt[t])
  <2>1. stk' = [stk EXCEPT ![t] = Push("publish", stk[t])] /\ pc' = [pc EXCEPT ![t] = "verify"]
    BY DEF A!PublishLock, A!Call, Push
  <2> QED BY <1>1, <1>3, <2>1, Unmoved DEF Moves
<1>5. "publish" \in Callers
  BY DEF Callers
<1>6. ThreadIs(t, "verify", s, cur[t], tgt[t], wr', cap', oplock') /\ Publishes("verify", s)
  BY <1>3, <1>5, AtVerify
<1> HIDE DEF s
<1>7. HandsOn(t, "verify", s, cur[t], tgt[t])
  BY <1>3, <1>6 DEF HandsOn, MustClean
<1> QED BY <1>2, <1>4, <1>6, <1>7, QuietStep

LEMMA AtClean ==
    ASSUME NEW t, NEW s \in Stacks, NEW c, NEW g, NEW wraps, NEW caps, NEW locks,
           Cleans(s), ~Below(s, InFault), HasCap("clean", s) => c \in A!Caps,
           g.w \in A!Caps, ~g.mm => caps[g.w].pub /\ s = Revoked
    PROVE  ThreadIs(t, "clean", s, c, g, wraps, caps, locks)
<1>1. StandsAt("clean", s)
  BY DEF StandsAt
<1>2. ~Faults("clean", s) /\ ~IsCleaning("clean", s)
  BY DEF Faults, IsCleaning
<1> QED BY <1>1, <1>2 DEF ThreadIs

LEMMA AtAbandon ==
    ASSUME NEW t, NEW c, NEW x \in A!Caps, NEW wraps, NEW caps, NEW locks
    PROVE  ThreadIs(t, "clean", Push("abandon", <<>>), c, [w |-> x, mm |-> TRUE], wraps, caps, locks)
<1>0. PICK g : g = [w |-> x, mm |-> TRUE]
  OBVIOUS
<1> DEFINE s == Push("abandon", <<>>)
<1>1. /\ ~Below(s, InFault) /\ ~Below(s, Push("revokeChecked", Revoking))
      /\ \A r \in Callers : ~Below(s, Push(r, <<>>))
  BY BelowNone
<1>2. s \in Stacks /\ Cleans(s)
  BY Pushing DEF Labels, Cleans
<1> HIDE DEF s
<1>3. ~HasCap("clean", s)
  BY <1>1 DEF HasCap, Callers
<1>4. g.w = x /\ g.mm = TRUE
  BY <1>0
<1>5. ThreadIs(t, "clean", s, c, g, wraps, caps, locks)
  BY <1>1, <1>2, <1>3, <1>4, AtClean
<1> QED BY <1>0, <1>5 DEF s

(* The exception path of an admission.                                      *)
LEMMA UndoStep ==
    ASSUME AuthorityInv, NEW t \in Threads, A!Undo(t)
    PROVE  AuthorityInv'
<1>1. UNCHANGED <<engine, reg, cap, oplock, cur>> /\ pc[t] = "undo"
  BY DEF A!Undo, A!At
<1>2. /\ stk[t] = <<>> /\ ~IsCleaning(pc[t], <<>>) /\ cur[t] \in A!Caps
      /\ \A w : Duty(t, w) <=> cur[t] = w
  BY <1>1, PublishToHandOn
<1>3. IsEngine(engine) /\ IsWrapper(wr[cur[t]]) /\ wr = [w \in A!Caps |-> wr[w]]
  BY <1>2 DEF AuthorityInv, AdmissionTypes
<1>4. PICK c, r, g : c = cur[t] /\ r = wr[c] /\ g = [w |-> c, mm |-> TRUE]
  OBVIOUS
<1>5. PICK d : d = [r EXCEPT !.cancelled = TRUE]
  OBVIOUS
<1>6. wr' = [wr EXCEPT ![c] = d]
  BY <1>2, <1>3, <1>4, <1>5 DEF IsWrapper, A!Undo
<1>7. /\ IsWrapper(d) /\ d.phase = r.phase /\ d.owner = r.owner /\ d.revokes = r.revokes
      /\ d.sessions = r.sessions /\ d.mismatch = r.mismatch /\ d.made = r.made
  BY <1>3, <1>4, <1>5 DEF IsWrapper
<1>8. Quiet
  BY <1>1, <1>2, <1>3, <1>4, <1>6, <1>7, WrapperChanges
<1> DEFINE s == Push("abandon", <<>>)
<1>9. Moves(t, "clean", s, c, g)
  <2>1. stk' = [stk EXCEPT ![t] = Push("abandon", stk[t])] /\ pc' = [pc EXCEPT ![t] = "clean"]
          /\ tgt' = [tgt EXCEPT ![t] = g]
    BY <1>4 DEF A!Undo, A!Call, Push
  <2> QED BY <1>1, <1>2, <1>4, <2>1, Unmoved DEF Moves
<1>10. ThreadIs(t, "clean", s, c, g, wr', cap', oplock')
  BY <1>2, <1>4, AtAbandon
<1> HIDE DEF s
<1>11. g.w = c
  BY <1>4
<1>12. HandsOn(t, "clean", s, c, g)
  BY <1>2, <1>4, <1>11 DEF HandsOn, MustClean
<1> QED BY <1>8, <1>9, <1>10, <1>12, QuietStep

(* A step that changes one wrapper.                                         *)
KeepsOne(t, l, s, c, g, x, d) ==
    /\ wr[x].mismatch => d.mismatch
    /\ wr[x].phase = "cleaning" /\ wr[x].owner # t => d.phase = "cleaning" /\ d.owner = wr[x].owner
    /\ d.revokes = wr[x].revokes \/ (oplock[x] = A!Nil /\ wr[x].owner = t)
    /\ d.sessions = wr[x].sessions \/ wr[x].revokes = 0
    /\ OneCleanup(d)
    /\ d.phase = "cleaning" =>
          \/ d.owner = t /\ IsCleaning(l, s) /\ g.w = x
          \/ wr[x].phase = "cleaning" /\ d.owner = wr[x].owner /\ wr[x].owner # t
    /\ d.made = "complete" /\ d.phase = "active" =>
          \/ reg.live /\ cap[x].pub
          \/ MustClean(l, s, c, g, cap, x)
          \/ /\ wr[x].made = "complete" /\ wr[x].phase = "active"
             /\ ~Duty(t, x) /\ ~(reg.live /\ cap[x].pub)
    /\ IsCleaning(pc[t], stk[t]) => tgt[t].w = x \/ (IsCleaning(l, s) /\ g.w = tgt[t].w)
    /\ \A w \in A!Caps \ {x} :
          Duty(t, w) /\ wr[w].phase = "active" => MustClean(l, s, c, g, cap, w)

LEMMA OneWrapperStep ==
    ASSUME AuthorityInv, NEW t \in Threads, NEW l, NEW s, NEW c, NEW g, Moves(t, l, s, c, g),
           NEW x \in A!Caps, NEW d, IsWrapper(d), wr' = [wr EXCEPT ![x] = d],
           UNCHANGED <<engine, reg, cap, oplock>>,
           ThreadIs(t, l, s, c, g, wr', cap', oplock'), KeepsOne(t, l, s, c, g, x, d)
    PROVE  AuthorityInv'
<1>0. /\ cap = [w \in A!Caps |-> cap[w]] /\ \A w \in A!Caps : IsCap(cap[w])
      /\ wr = [w \in A!Caps |-> wr[w]] /\ \A w \in A!Caps : IsWrapper(wr[w])
      /\ oplock = [w \in A!Caps |-> oplock[w]] /\ IsRecord(reg) /\ IsEngine(engine)
      /\ reg.minted \in Nat /\ reg.cap \in A!Caps \cup {A!Nil}
  BY DEF AuthorityInv, AdmissionTypes
<1>1. /\ wr' = [w \in A!Caps |-> wr'[w]] /\ wr'[x] = d
      /\ \A w \in A!Caps \ {x} : wr'[w] = wr[w]
  BY <1>0
<1>2. Typed
  <2>1. \A w \in A!Caps : IsWrapper(wr'[w])
    BY <1>0, <1>1
  <2> QED BY <1>0, <1>1, <2>1 DEF Typed
<1>3. /\ pc'[t] = l /\ stk'[t] = s /\ cur'[t] = c /\ tgt'[t] = g
      /\ \A u \in Threads \ {t} :
            pc'[u] = pc[u] /\ stk'[u] = stk[u] /\ cur'[u] = cur[u] /\ tgt'[u] = tgt[u]
      /\ AdmissionTypes'
  BY <1>2, ThreadMoved
<1>4. Kept(t)
  <2>1. \A w \in A!Caps \ {x} : wr'[w] = wr[w]
    BY <1>1
  <2>2. /\ wr[x].mismatch => wr'[x].mismatch
        /\ wr[x].phase = "cleaning" /\ wr[x].owner # t =>
              wr'[x].phase = "cleaning" /\ wr'[x].owner = wr[x].owner
        /\ wr'[x].revokes = wr[x].revokes \/ (oplock[x] = A!Nil /\ wr[x].owner = t)
        /\ wr'[x].sessions = wr[x].sessions \/ wr[x].revokes = 0
    BY <1>1 DEF KeepsOne
  <2> QED BY <1>3, <2>1, <2>2 DEF Kept
<1>5. Served'
  BY ServedPrimed DEF AuthorityInv, Served
<1>6. ASSUME NEW w \in A!Caps, w # x PROVE KeepsWrapper(t, w)
  <2>1. WrapperInv(w) /\ wr'[w] = wr[w]
    BY <1>1, <1>6 DEF AuthorityInv
  <2>2. wr'[w].phase = "cleaning" =>
          \/ wr'[w].owner = t /\ IsCleaning(pc'[t], stk'[t]) /\ tgt'[t].w = w
          \/ wr[w].phase = "cleaning" /\ wr'[w].owner = wr[w].owner /\ wr[w].owner # t
    BY <1>3, <1>6, <2>1 DEF WrapperInv, KeepsOne
  <2>3. wr'[w].made = "complete" /\ wr'[w].phase = "active" =>
          \/ reg'.live /\ cap'[w].pub
          \/ MustClean(pc'[t], stk'[t], cur'[t], tgt'[t], cap', w)
          \/ /\ wr[w].made = "complete" /\ wr[w].phase = "active"
             /\ ~Duty(t, w) /\ ~(reg.live /\ cap[w].pub)
    BY <1>3, <1>6, <2>1 DEF KeepsOne
  <2> QED BY <2>1, <2>2, <2>3 DEF KeepsWrapper, WrapperInv
<1>7. KeepsWrapper(t, x)
  <2>1. WrapperInv(x)
    BY DEF AuthorityInv
  <2>2. cap'[x].pub => reg'.cap = x /\ engine'.auth = x /\ cap'[x].phase \in {"admitted", "retired"}
    BY <2>1 DEF WrapperInv
  <2>3. OneCleanup(wr'[x])
    BY <1>1 DEF KeepsOne
  <2>4. wr'[x].phase = "cleaning" =>
          \/ wr'[x].owner = t /\ IsCleaning(pc'[t], stk'[t]) /\ tgt'[t].w = x
          \/ wr[x].phase = "cleaning" /\ wr'[x].owner = wr[x].owner /\ wr[x].owner # t
    BY <1>1, <1>3 DEF KeepsOne
  <2>5. wr'[x].made = "complete" /\ wr'[x].phase = "active" =>
          \/ reg'.live /\ cap'[x].pub
          \/ MustClean(pc'[t], stk'[t], cur'[t], tgt'[t], cap', x)
          \/ /\ wr[x].made = "complete" /\ wr[x].phase = "active"
             /\ ~Duty(t, x) /\ ~(reg.live /\ cap[x].pub)
    BY <1>1, <1>3 DEF KeepsOne
  <2> QED BY <2>2, <2>3, <2>4, <2>5 DEF KeepsWrapper
<1>8. ThreadIs(t, pc'[t], stk'[t], cur'[t], tgt'[t], wr', cap', oplock')
  BY <1>3
<1>9. \A w \in A!Caps : KeepsWrapper(t, w)
  BY <1>6, <1>7
<1> QED BY <1>3, <1>4, <1>5, <1>8, <1>9, ThreadStep

LEMMA FinishStep ==
    ASSUME AuthorityInv, NEW t \in Threads, A!Finish(t)
    PROVE  AuthorityInv'
<1>1. UNCHANGED <<engine, reg, cap, oplock, cur>> /\ pc[t] = "finish"
  BY DEF A!Finish, A!At
<1>2. pc[t] \in Uncalled /\ pc[t] \notin {"publishLock", "publish", "undo"}
  BY <1>1 DEF Uncalled
<1>3. stk[t] = <<>> /\ ~IsCleaning(pc[t], stk[t]) /\ \A w : ~Duty(t, w)
  BY <1>2, NothingToHandOn
<1>4. cur[t] \in A!Caps /\ IsWrapper(wr[cur[t]]) /\ wr = [w \in A!Caps |-> wr[w]] /\ WrapperInv(cur[t])
  BY <1>1 DEF AuthorityInv, AdmissionTypes, ThreadInv, ThreadIs, HasCap
<1>5. PICK c, r, h : c = cur[t] /\ r = wr[c] /\ h = [w |-> c, mm |-> TRUE]
  OBVIOUS
<1>6. PICK d : d = [r EXCEPT !.made = "complete"]
  OBVIOUS
<1>7. wr' = [wr EXCEPT ![c] = d]
  BY <1>4, <1>5, <1>6 DEF IsWrapper, A!Finish
<1>8. /\ IsWrapper(d) /\ d.phase = r.phase /\ d.owner = r.owner /\ d.revokes = r.revokes
      /\ d.sessions = r.sessions /\ d.mismatch = r.mismatch
  BY <1>4, <1>5, <1>6 DEF IsWrapper
<1>9. OneCleanup(d) /\ (r.phase = "cleaning" => r.owner # t)
  BY <1>3, <1>4, <1>5, <1>8 DEF WrapperInv, OneCleanup
<1>10. \A l, s, g : MustClean(l, s, c, g, cap, c) => KeepsOne(t, l, s, c, g, c, d)
  BY <1>3, <1>5, <1>8, <1>9 DEF KeepsOne
<1>11. CASE tgt' = [tgt EXCEPT ![t] = [w |-> cur[t], mm |-> TRUE]] /\ A!Call(t, "clean", "abandon")
  <2> DEFINE s == Push("abandon", <<>>)
  <2>1. stk' = [stk EXCEPT ![t] = Push("abandon", stk[t])] /\ pc' = [pc EXCEPT ![t] = "clean"]
          /\ tgt' = [tgt EXCEPT ![t] = h]
    BY <1>5, <1>11 DEF A!Call, Push
  <2>2. Moves(t, "clean", s, c, h)
    BY <1>1, <1>3, <1>5, <2>1, Unmoved DEF Moves
  <2>3. ThreadIs(t, "clean", s, c, h, wr', cap', oplock')
    BY <1>4, <1>5, AtAbandon
  <2>4. h.w = c
    BY <1>5
  <2> HIDE DEF s
  <2>5. MustClean("clean", s, c, h, cap, c)
    BY <2>4 DEF MustClean
  <2> QED BY <1>1, <1>4, <1>5, <1>7, <1>8, <1>10, <2>2, <2>3, <2>5, OneWrapperStep
<1>12. CASE A!Goto(t, "publishLock") /\ UNCHANGED tgt
  <2>1. Moves(t, "publishLock", <<>>, c, tgt[t])
    BY <1>1, <1>3, <1>5, <1>12, Unmoved DEF Moves, A!Goto
  <2>2. "publishLock" \in Uncalled /\ "publishLock" \notin {"useBody", "useRun", "useUnlock"}
    BY DEF Uncalled
  <2>3. ThreadIs(t, "publishLock", <<>>, c, tgt[t], wr', cap', oplock')
    BY <1>4, <1>5, <2>2, AtTop
  <2>4. MustClean("publishLock", <<>>, c, tgt[t], cap, c)
    BY DEF MustClean, Publishes
  <2> QED BY <1>1, <1>4, <1>5, <1>7, <1>8, <1>10, <2>1, <2>3, <2>4, OneWrapperStep
<1> QED BY <1>11, <1>12 DEF A!Finish

LEMMA UseRunStep ==
    ASSUME AuthorityInv, NEW t \in Threads, A!UseRun(t)
    PROVE  AuthorityInv'
<1>1. UNCHANGED <<engine, reg, cap, oplock, cur, tgt>> /\ pc[t] = "useRun" /\ A!Goto(t, "useUnlock")
  BY DEF A!UseRun, A!At, A!Same
<1>2. pc[t] \in Uncalled /\ pc[t] \notin {"publishLock", "publish", "undo"}
  BY <1>1 DEF Uncalled
<1>3. stk[t] = <<>> /\ ~IsCleaning(pc[t], stk[t]) /\ \A w : ~Duty(t, w)
  BY <1>2, NothingToHandOn
<1>4. /\ cur[t] \in A!Caps /\ IsWrapper(wr[cur[t]]) /\ wr = [w \in A!Caps |-> wr[w]]
      /\ WrapperInv(cur[t]) /\ wr[cur[t]].revokes = 0 /\ oplock[cur[t]] = t
  BY <1>1 DEF AuthorityInv, AdmissionTypes, ThreadInv, ThreadIs, HasCap
<1>5. PICK c, r : c = cur[t] /\ r = wr[c]
  OBVIOUS
<1>6. PICK n : wr' = [wr EXCEPT ![cur[t]].sessions = n]
  BY DEF A!UseRun
<1>7. PICK d : d = [r EXCEPT !.sessions = n]
  OBVIOUS
<1>8. wr' = [wr EXCEPT ![c] = d]
  BY <1>4, <1>5, <1>6, <1>7 DEF IsWrapper
<1>9. /\ IsWrapper(d) /\ d.phase = r.phase /\ d.owner = r.owner /\ d.revokes = r.revokes
      /\ d.mismatch = r.mismatch /\ d.made = r.made
  BY <1>4, <1>5, <1>7 DEF IsWrapper
<1>10. OneCleanup(d) /\ (r.phase = "cleaning" => r.owner # t)
  BY <1>3, <1>4, <1>5, <1>9 DEF WrapperInv, OneCleanup
<1>11. KeepsOne(t, "useUnlock", <<>>, c, tgt[t], c, d)
  BY <1>3, <1>4, <1>5, <1>9, <1>10 DEF KeepsOne, WrapperInv
<1>12. Moves(t, "useUnlock", <<>>, c, tgt[t])
  BY <1>1, <1>3, <1>5, Unmoved DEF Moves, A!Goto
<1>13. "useUnlock" \in Uncalled
  BY DEF Uncalled
<1>14. ThreadIs(t, "useUnlock", <<>>, c, tgt[t], wr', cap', oplock')
  BY <1>1, <1>4, <1>5, <1>13, AtTop
<1> QED BY <1>1, <1>4, <1>5, <1>8, <1>9, <1>11, <1>12, <1>14, OneWrapperStep

(* The operation lock is taken and given back by its owner.                 *)
LEMMA UseLockStep ==
    ASSUME AuthorityInv, NEW t \in Threads, A!UseLock(t) \/ A!UseUnlock(t)
    PROVE  AuthorityInv'
<1>1. UNCHANGED <<engine, reg, cap, wr, cur, tgt>> /\ pc[t] \in {"useLock", "useUnlock"}
  BY DEF A!UseLock, A!UseUnlock, A!At, A!Same, A!auth
<1>2. pc[t] \in Uncalled /\ pc[t] \notin {"publishLock", "publish", "undo"}
  BY <1>1 DEF Uncalled
<1>3. stk[t] = <<>> /\ ~IsCleaning(pc[t], stk[t]) /\ \A w : ~Duty(t, w)
  BY <1>2, NothingToHandOn
<1>4. /\ cur[t] \in A!Caps /\ oplock = [w \in A!Caps |-> oplock[w]]
      /\ pc[t] = "useUnlock" => oplock[cur[t]] = t
  BY <1>1 DEF AuthorityInv, AdmissionTypes, ThreadInv, ThreadIs, HasCap
<1>5. PICK l \in {"useBody", "idle"}, o \in {t, A!Nil} :
         /\ A!Goto(t, l) /\ oplock' = [oplock EXCEPT ![cur[t]] = o]
         /\ l = "useBody" => o = t
         /\ oplock[cur[t]] \in {A!Nil, t}
  BY <1>4 DEF A!UseLock, A!UseUnlock, A!At
<1>6. Moves(t, l, <<>>, cur[t], tgt[t])
  BY <1>1, <1>3, <1>5, Unmoved DEF Moves, A!Goto
<1>7. /\ oplock' = [w \in A!Caps |-> oplock'[w]] /\ oplock'[cur[t]] = o
      /\ \A w \in A!Caps \ {cur[t]} : oplock'[w] = oplock[w]
  BY <1>4, <1>5
<1>8. l \in Uncalled /\ l # "useRun" /\ l # "useUnlock"
  BY DEF Uncalled
<1>9. ThreadIs(t, l, <<>>, cur[t], tgt[t], wr', cap', oplock')
  BY <1>4, <1>5, <1>7, <1>8, AtTop
<1>10. Typed
  BY <1>1, <1>7 DEF AuthorityInv, AdmissionTypes, Typed
<1>11. /\ pc'[t] = l /\ stk'[t] = <<>> /\ cur'[t] = cur[t] /\ tgt'[t] = tgt[t]
       /\ \A u \in Threads \ {t} :
             pc'[u] = pc[u] /\ stk'[u] = stk[u] /\ cur'[u] = cur[u] /\ tgt'[u] = tgt[u]
       /\ AdmissionTypes'
  BY <1>6, <1>10, ThreadMoved
<1>12. Kept(t)
  <2>1. \A w \in A!Caps, u \in Threads \ {t} : oplock[w] = u => oplock'[w] = u
    BY <1>5, <1>7, ThreadsAssumption DEF A!Nil
  <2> QED BY <1>1, <1>11, <2>1 DEF Kept
<1>13. Served'
  BY <1>1, ServedPrimed DEF AuthorityInv, Served
<1>14. ASSUME NEW w \in A!Caps PROVE KeepsWrapper(t, w)
  <2>1. WrapperInv(w)
    BY DEF AuthorityInv
  <2>2. wr[w].phase = "cleaning" => wr[w].owner # t
    BY <1>3, <2>1 DEF WrapperInv
  <2> QED BY <1>1, <1>3, <2>1, <2>2 DEF KeepsWrapper, WrapperInv
<1> QED BY <1>9, <1>11, <1>12, <1>13, <1>14, ThreadStep

(* A wrapper is published, or its admission undone.                         *)
LEMMA PublishStep ==
    ASSUME AuthorityInv, NEW t \in Threads, A!Publish(t)
    PROVE  AuthorityInv'
<1>1. UNCHANGED <<reg, wr, oplock, cur, tgt>> /\ pc[t] = "publish"
  BY DEF A!Publish, A!At, A!Same
<1>2. /\ stk[t] = <<>> /\ ~IsCleaning(pc[t], <<>>) /\ cur[t] \in A!Caps
      /\ \A w : Duty(t, w) <=> cur[t] = w
  BY <1>1, PublishToHandOn
<1>3. IsEngine(engine) /\ IsCap(cap[cur[t]]) /\ cap = [w \in A!Caps |-> cap[w]]
  BY <1>2 DEF AuthorityInv, AdmissionTypes
<1>4. CASE A!Goto(t, "undo") /\ UNCHANGED cap /\ engine' \in {engine, A!Failed(engine)}
  <2>1. IsEngine(engine') /\ engine'.auth = engine.auth
    BY <1>3, <1>4, EngineFails
  <2>2. Quiet
    BY <1>1, <1>4, <2>1, SameIsQuiet
  <2>3. Moves(t, "undo", <<>>, cur[t], tgt[t])
    BY <1>1, <1>2, <1>4, Unmoved DEF Moves, A!Goto
  <2>4. "undo" \in Uncalled /\ "undo" \notin {"useBody", "useRun", "useUnlock"}
    BY DEF Uncalled
  <2>5. ThreadIs(t, "undo", <<>>, cur[t], tgt[t], wr', cap', oplock')
    BY <1>2, <2>4, AtTop
  <2>6. HandsOn(t, "undo", <<>>, cur[t], tgt[t])
    BY <1>2 DEF HandsOn, MustClean, Publishes
  <2> QED BY <2>2, <2>3, <2>5, <2>6, QuietStep
<1>5. CASE /\ A!Goto(t, "idle") /\ reg.live /\ reg.cap = cur[t]
           /\ engine' = [engine EXCEPT !.auth = cur[t]]
           /\ cap' = [cap EXCEPT ![cur[t]] = [@ EXCEPT !.phase = "admitted", !.pub = TRUE, !.owner = A!Nil]]
  <2>1. PICK c, r : c = cur[t] /\ r = cap[c]
    OBVIOUS
  <2>2. PICK d : d = [r EXCEPT !.phase = "admitted", !.pub = TRUE, !.owner = A!Nil]
    OBVIOUS
  <2>3. IsCap(d) /\ d.pub = TRUE /\ d.phase = "admitted"
    BY <1>3, <2>1, <2>2 DEF IsCap
  <2>4. cap' = [cap EXCEPT ![c] = d]
    BY <1>5, <2>1, <2>2
  <2>5. /\ cap' = [w \in A!Caps |-> cap'[w]] /\ cap'[c] = d
        /\ \A w \in A!Caps \ {c} : cap'[w] = cap[w]
    BY <1>2, <1>3, <2>1, <2>4
  <2>6. PICK e : e = [engine EXCEPT !.auth = c]
    OBVIOUS
  <2>7. IsEngine(e) /\ e.auth = c /\ engine' = e
    BY <1>3, <1>5, <2>1, <2>6 DEF IsEngine
  <2>8. Typed
    <3>1. \A w \in A!Caps : IsCap(cap'[w])
      BY <2>3, <2>5 DEF AuthorityInv, AdmissionTypes
    <3> QED BY <1>1, <2>5, <2>7, <3>1 DEF AuthorityInv, AdmissionTypes, Typed
  <2>9. Moves(t, "idle", <<>>, c, tgt[t])
    BY <1>1, <1>2, <1>5, <2>1, Unmoved DEF Moves, A!Goto
  <2>10. /\ pc'[t] = "idle" /\ stk'[t] = <<>> /\ cur'[t] = c /\ tgt'[t] = tgt[t]
         /\ \A u \in Threads \ {t} :
               pc'[u] = pc[u] /\ stk'[u] = stk[u] /\ cur'[u] = cur[u] /\ tgt'[u] = tgt[u]
         /\ AdmissionTypes'
    BY <2>8, <2>9, ThreadMoved
  <2>11. Kept(t)
    BY <1>1, <2>3, <2>5, <2>10 DEF Kept
  <2>12. Served'
    BY <1>2, <2>1, <2>3, <2>5, <2>7, ServedPrimed
  <2>13. "idle" \in Uncalled /\ "idle" \notin WithCap
    BY DEF Uncalled, WithCap
  <2>14. ThreadIs(t, "idle", <<>>, c, tgt[t], wr', cap', oplock')
    BY <2>13, AtTop
  <2>15. ASSUME NEW w \in A!Caps PROVE KeepsWrapper(t, w)
    <3>1. WrapperInv(w)
      BY DEF AuthorityInv
    <3>2. wr[w].phase = "cleaning" => wr[w].owner # t
      BY <1>2, <3>1 DEF WrapperInv
    <3>3. cap'[w].pub => w = c /\ cap'[w].phase = "admitted"
      BY <1>5, <2>1, <2>3, <2>5, <3>1 DEF WrapperInv
    <3>4. cap'[w].pub => reg'.cap = w /\ engine'.auth = w /\ cap'[w].phase \in {"admitted", "retired"}
      BY <1>1, <1>5, <2>1, <2>7, <3>3
    <3>5. wr'[w].made = "complete" /\ wr'[w].phase = "active" =>
            \/ reg'.live /\ cap'[w].pub
            \/ /\ wr[w].made = "complete" /\ wr[w].phase = "active"
               /\ ~Duty(t, w) /\ ~(reg.live /\ cap[w].pub)
      <4>1. CASE w = c
        BY <1>1, <1>5, <2>3, <2>5, <4>1
      <4>2. CASE w # c
        <5>1. ~Duty(t, w)
          BY <1>2, <2>1, <4>2
        <5>2. cap'[w] = cap[w]
          BY <2>5, <4>2
        <5> QED BY <1>1, <5>1, <5>2
      <4> QED BY <4>1, <4>2
    <3> QED BY <1>1, <3>1, <3>2, <3>4, <3>5 DEF KeepsWrapper, WrapperInv
  <2> QED BY <2>10, <2>11, <2>12, <2>14, <2>15, ThreadStep
<1> QED BY <1>4, <1>5 DEF A!Publish

(* A revocation by the holder of the wrapper.                               *)
LEMMA AtRevokeCheck ==
    ASSUME NEW t, NEW c \in A!Caps, NEW g, NEW wraps, NEW caps, NEW locks
    PROVE  ThreadIs(t, "verify", Push("revokeChecked", Revoking), c, g, wraps, caps, locks)
<1> DEFINE s == Push("revokeChecked", Revoking)
<1>1. s \in Verifying /\ s \in Refusing /\ s \in Stacks
  BY Bases DEF Verifying, Refusing
<1>2. "fault" \in Labels /\ "revokeChecked" \in Labels /\ Revoking \in Stacks /\ Revoked \in Stacks
  BY Bases DEF Labels
<1>3. s # InFault
  BY <1>2, PushedOnce DEF InFault
<1>4. ~Below(s, InFault)
  BY <1>1, <1>3, BelowOnlyItself
<1>5. StandsAt("verify", s)
  BY <1>1 DEF StandsAt
<1> HIDE DEF s
<1>6. ~Faults("verify", s) /\ ~IsCleaning("verify", s)
  BY <1>4 DEF Faults, IsCleaning
<1> QED BY <1>1, <1>5, <1>6 DEF ThreadIs, s

LEMMA RevokeStep ==
    ASSUME AuthorityInv, NEW t \in Threads, A!Revoke(t) \/ A!RevokeChecked(t)
    PROVE  AuthorityInv'
<1>1. UNCHANGED <<engine, reg, cap, wr, oplock, cur>> /\ pc[t] \in {"revoke", "revokeChecked"}
  BY DEF A!Revoke, A!RevokeChecked, A!At, A!Same, A!auth
<1>2. Quiet
  BY <1>1, SameIsQuiet DEF AuthorityInv, AdmissionTypes
<1>3. cur[t] \in A!Caps
  BY <1>1 DEF AuthorityInv, ThreadInv, ThreadIs, HasCap
<1>4. stk[t] = Revoking
  BY <1>1, NothingToHandOn
<1>5. CASE A!Return(t, TRUE) /\ UNCHANGED tgt
  BY <1>1, <1>2, <1>5, ReturnStep DEF Returning
<1>6. CASE A!Call(t, "verify", "revokeChecked") /\ UNCHANGED tgt
  <2>1. stk' = [stk EXCEPT ![t] = Push("revokeChecked", stk[t])]
    BY <1>6 DEF A!Call, Push
  <2>2. Moves(t, "verify", Push("revokeChecked", Revoking), cur[t], tgt[t])
    BY <1>1, <1>4, <1>6, <2>1, Unmoved DEF Moves, A!Call
  <2>3. ThreadIs(t, "verify", Push("revokeChecked", Revoking), cur[t], tgt[t], wr', cap', oplock')
    BY <1>3, AtRevokeCheck
  <2> QED BY <1>1, <1>2, <2>2, <2>3, TopStep
<1>7. CASE /\ cap[cur[t]].pub /\ tgt' = [tgt EXCEPT ![t] = [w |-> cur[t], mm |-> FALSE]]
           /\ A!Call(t, "clean", "revokeDone")
  <2>0. PICK g : g = [w |-> cur[t], mm |-> FALSE]
    OBVIOUS
  <2>1. stk' = [stk EXCEPT ![t] = Push("revokeDone", stk[t])]
    BY <1>7 DEF A!Call, Push
  <2>2. Moves(t, "clean", Revoked, cur[t], g)
    BY <1>1, <1>4, <1>7, <2>0, <2>1, Unmoved DEF Moves, A!Call, Revoked
  <2>3. g.w = cur[t] /\ g.mm = FALSE
    BY <2>0
  <2>4. Revoked \in Stacks /\ Cleans(Revoked) /\ ~Below(Revoked, InFault)
    BY Bases, BelowNone DEF Cleans
  <2>5. ThreadIs(t, "clean", Revoked, cur[t], g, wr', cap', oplock')
    BY <1>1, <1>3, <1>7, <2>3, <2>4, AtClean
  <2> QED BY <1>1, <1>2, <2>2, <2>5, TopStep
<1> QED BY <1>5, <1>6, <1>7 DEF A!Revoke, A!RevokeChecked, A!Same

LEMMA RevokeDoneStep ==
    ASSUME AuthorityInv, NEW t \in Threads, A!RevokeDone(t)
    PROVE  AuthorityInv'
<1>1. UNCHANGED <<engine, reg, wr, oplock, cur, tgt>> /\ pc[t] = "revokeDone" /\ A!Return(t, exc[t])
  BY DEF A!RevokeDone, A!At, A!Same
<1>2. /\ IsRecord(reg) /\ reg.minted \in Nat /\ reg.cap \in A!Caps \cup {A!Nil}
      /\ cap = [w \in A!Caps |-> cap[w]] /\ \A w \in A!Caps : IsCap(cap[w])
  BY DEF AuthorityInv, AdmissionTypes
<1>3. PICK c, r : c = cur[t] /\ r = cap[c]
  OBVIOUS
<1>4. PICK d : d = [r EXCEPT !.phase = "retired", !.retired = TRUE, !.owner = A!Nil]
  OBVIOUS
<1>5. c \in A!Caps => IsCap(d) /\ d.pub = r.pub /\ d.phase = "retired"
  <2>1. c \in A!Caps => IsCap(r)
    BY <1>2, <1>3
  <2> QED BY <1>4, <2>1 DEF IsCap
<1>6. cap' = [cap EXCEPT ![c] = d]
  <2>1. cap' = [cap EXCEPT ![c].phase = "retired", ![c].retired = TRUE, ![c].owner = A!Nil]
    BY <1>3 DEF A!RevokeDone
  <2>2. CASE c \in A!Caps
    BY <1>2, <1>3, <1>4, <2>1, <2>2 DEF IsCap
  <2>3. CASE c \notin A!Caps
    BY <1>2, <2>1, <2>3
  <2> QED BY <2>2, <2>3
<1>7. Quiet
  BY <1>1, <1>2, <1>3, <1>5, <1>6, CapChanges
<1> QED BY <1>1, <1>7, ReturnStep DEF Returning

(* A refusal adds nothing to what it refuses.                               *)
LEMMA BelowRefusal ==
    ASSUME NEW s \in Refusing, NEW x \in {"mismatch", "reject"}
    PROVE  /\ Below(Push(x, s), InFault) <=> Below(s, InFault)
           /\ Below(Push(x, s), Push("revokeChecked", Revoking))
                 <=> Below(s, Push("revokeChecked", Revoking))
           /\ \A r \in Callers : Below(Push(x, s), Push(r, <<>>)) <=> Below(s, Push(r, <<>>))
<1>1. /\ s \in Stacks /\ x \in Labels /\ Callers \subseteq Labels
      /\ x \notin Callers /\ x # "fault" /\ x # "revokeChecked"
  BY Bases DEF Labels, Callers
<1>2. /\ Below(Push(x, s), InFault) <=> s = InFault
      /\ Below(Push(x, s), Push("revokeChecked", Revoking)) <=> s = Push("revokeChecked", Revoking)
      /\ \A r \in Callers : Below(Push(x, s), Push(r, <<>>)) <=> s = Push(r, <<>>)
  BY <1>1, BelowThese
<1> QED BY <1>2, BelowOnlyItself

(* A thread goes on below the same calls.                                   *)
LEMMA OnwardStep ==
    ASSUME AuthorityInv, NEW t \in Threads,
           pc[t] \in {"verify", "retire", "discard", "discardWait", "clean"},
           NEW l \in {"mismatch", "clean", "cleanWait", "discard", "discardWait"},
           pc' = [pc EXCEPT ![t] = l], UNCHANGED <<stk, cur, tgt>>, Quiet, StandsAt(l, stk[t]),
           l # "mismatch" => tgt[t].w \in A!Caps,
           l \in {"clean", "discard", "discardWait"} => tgt[t].mm,
           pc[t] = "retire" => l = "clean" \/ ~cap[tgt[t].w].pub,
           pc[t] = "clean" => wr[tgt[t].w].phase # "active"
    PROVE  AuthorityInv'
<1> DEFINE s == stk[t]
           g == tgt[t]
<1>1. ThreadIs(t, pc[t], s, cur[t], g, wr, cap, oplock)
  BY DEF AuthorityInv, ThreadInv
<1>2. Moves(t, l, s, cur[t], g)
  BY Unmoved DEF Moves
<1>3. /\ IsCleaning(pc[t], s) <=> Below(s, InFault)
      /\ Faults(pc[t], s) <=> Below(s, InFault)
      /\ IsCleaning(l, s) <=> Below(s, InFault)
      /\ Faults(l, s) <=> Below(s, InFault)
  BY DEF IsCleaning, Faults
<1>4. HasCap(l, s) => HasCap(pc[t], s)
  BY DEF HasCap
<1>5. Publishes(pc[t], s) => Publishes(l, s)
  BY DEF Publishes
<1>6. Below(s, InFault) =>
        /\ g.w \in A!Caps /\ wr'[g.w].phase = "cleaning" /\ wr'[g.w].owner = t
        /\ wr'[g.w].revokes = 1 /\ wr'[g.w].sessions = 0 /\ cap'[g.w].pub
  BY <1>1, <1>3 DEF ThreadIs, Quiet, Unused, Authorised
<1>7. s \in Stacks /\ (HasCap(l, s) => cur[t] \in A!Caps)
  BY <1>1, <1>4 DEF ThreadIs
<1>8. ThreadIs(t, l, s, cur[t], g, wr', cap', oplock')
  BY <1>3, <1>6, <1>7 DEF ThreadIs
<1>9. ASSUME NEW w \in A!Caps, Duty(t, w), wr[w].phase = "active"
      PROVE  MustClean(l, s, cur[t], g, cap', w)
  <2>1. CASE cur[t] = w /\ Publishes(pc[t], s)
    BY <1>5, <2>1 DEF MustClean
  <2>2. CASE g.w = w /\ pc[t] = "retire" /\ cap[w].pub
    BY <2>2 DEF MustClean
  <2> QED BY <1>9, <2>1, <2>2 DEF Duty, MustClean
<1>10. HandsOn(t, l, s, cur[t], g)
  BY <1>3, <1>9 DEF HandsOn
<1> QED BY <1>2, <1>8, <1>10, QuietStep

LEMMA RejectStep ==
    ASSUME AuthorityInv, NEW t \in Threads, A!Reject(t) \/ A!AwaitCleanup(t)
    PROVE  AuthorityInv'
<1>1. UNCHANGED <<engine, reg, cap, wr, oplock, cur, tgt>> /\ pc[t] \in {"reject", "cleanWait"}
  BY DEF A!Reject, A!AwaitCleanup, A!At, A!Same, A!auth
<1>2. Quiet
  BY <1>1, SameIsQuiet DEF AuthorityInv, AdmissionTypes
<1>3. PICK e : A!Return(t, e)
  BY DEF A!Reject, A!AwaitCleanup
<1> QED BY <1>1, <1>2, <1>3, ReturnStep DEF Returning

LEMMA AwaitDiscardStep ==
    ASSUME AuthorityInv, NEW t \in Threads, A!AwaitDiscard(t)
    PROVE  AuthorityInv'
<1>1. UNCHANGED <<engine, reg, cap, wr, oplock, cur, tgt>> /\ pc[t] = "discardWait"
  BY DEF A!AwaitDiscard, A!At, A!Same, A!auth
<1>2. Quiet
  BY <1>1, SameIsQuiet DEF AuthorityInv, AdmissionTypes
<1>3. CASE A!Return(t, FALSE)
  BY <1>1, <1>2, <1>3, ReturnStep DEF Returning
<1>4. CASE A!Goto(t, "clean")
  <2>1. /\ tgt[t].w \in A!Caps /\ tgt[t].mm
        /\ \E b \in Verifying : stk[t] = Push("mismatch", b)
    BY <1>1 DEF AuthorityInv, ThreadInv, ThreadIs, StandsAt, Uncalled
  <2>2. StandsAt("clean", stk[t])
    BY <2>1 DEF StandsAt, Cleans
  <2> QED BY <1>1, <1>2, <1>4, <2>1, <2>2, OnwardStep DEF A!Goto
<1> QED BY <1>3, <1>4 DEF A!AwaitDiscard

LEMMA DiscardStep ==
    ASSUME AuthorityInv, NEW t \in Threads, A!Discard(t)
    PROVE  AuthorityInv'
<1>1. UNCHANGED <<engine, reg, cap, oplock, cur, tgt>> /\ pc[t] = "discard"
  BY DEF A!Discard, A!At, A!Same
<1>2. /\ tgt[t].w \in A!Caps /\ tgt[t].mm
      /\ \E b \in Verifying : stk[t] = Push("mismatch", b)
  BY <1>1 DEF AuthorityInv, ThreadInv, ThreadIs, StandsAt, Uncalled
<1>3. IsEngine(engine) /\ IsWrapper(wr[tgt[t].w]) /\ wr = [w \in A!Caps |-> wr[w]]
  BY <1>2 DEF AuthorityInv, AdmissionTypes
<1>4. PICK c, r : c = tgt[t].w /\ r = wr[c]
  OBVIOUS
<1>5. PICK d : d = [r EXCEPT !.cancelled = TRUE]
  OBVIOUS
<1>6. wr' = [wr EXCEPT ![c] = d]
  BY <1>2, <1>3, <1>4, <1>5 DEF IsWrapper, A!Discard
<1>7. /\ IsWrapper(d) /\ d.phase = r.phase /\ d.owner = r.owner /\ d.revokes = r.revokes
      /\ d.sessions = r.sessions /\ d.mismatch = r.mismatch /\ d.made = r.made
  BY <1>3, <1>4, <1>5 DEF IsWrapper
<1>8. Quiet
  BY <1>1, <1>2, <1>3, <1>4, <1>6, <1>7, WrapperChanges
<1>9. CASE A!Return(t, FALSE)
  BY <1>1, <1>8, <1>9, ReturnStep DEF Returning
<1>10. CASE A!Goto(t, "discardWait")
  <2>1. StandsAt("discardWait", stk[t])
    BY <1>2 DEF StandsAt
  <2> QED BY <1>1, <1>2, <1>8, <1>10, <2>1, OnwardStep DEF A!Goto
<1> QED BY <1>9, <1>10 DEF A!Discard

LEMMA RetireStep ==
    ASSUME AuthorityInv, NEW t \in Threads, A!RetireAdmission(t)
    PROVE  AuthorityInv'
<1>1. UNCHANGED <<engine, reg, wr, oplock, cur, tgt>> /\ pc[t] = "retire"
  BY DEF A!RetireAdmission, A!At, A!Same
<1>2. /\ tgt[t].w \in A!Caps \cup {A!Nil} /\ tgt[t].mm
      /\ \E b \in Verifying : stk[t] = Push("mismatch", b)
  BY <1>1 DEF AuthorityInv, ThreadInv, ThreadIs, StandsAt, Uncalled
<1>3. /\ IsEngine(engine) /\ IsRecord(reg) /\ reg.minted \in Nat /\ reg.cap \in A!Caps \cup {A!Nil}
      /\ \A w \in A!Caps : IsCap(cap[w])
  BY DEF AuthorityInv, AdmissionTypes
<1>4. CASE tgt[t].w = A!Nil /\ A!Return(t, FALSE) /\ UNCHANGED cap
  <2>1. Quiet
    BY <1>1, <1>3, <1>4, SameIsQuiet
  <2> QED BY <1>1, <1>4, <2>1, ReturnStep DEF Returning
<1>5. CASE tgt[t].w # A!Nil
  <2>1. PICK c, r : c = tgt[t].w /\ r = cap[tgt[t].w]
    OBVIOUS
  <2>2. PICK d : d = [cap[tgt[t].w] EXCEPT
                        !.retOwner = IF cap[tgt[t].w].phase = "constructing"
                                     THEN cap[tgt[t].w].owner ELSE @,
                        !.retired = TRUE, !.phase = "retired", !.owner = A!Nil,
                        !.con = @ /\ cap[tgt[t].w].pub]
    OBVIOUS
  <2>3. cap' = [cap EXCEPT ![tgt[t].w] = d]
    BY <1>5, <2>2 DEF A!RetireAdmission
  <2>4. PICK x, y : d = [cap[tgt[t].w] EXCEPT !.retOwner = x, !.retired = TRUE, !.phase = "retired",
                                              !.owner = A!Nil, !.con = y]
    BY <2>2
  <2>5. c \in A!Caps /\ IsCap(r) /\ r = cap[c]
    BY <1>2, <1>3, <1>5, <2>1
  <2>6. IsCap(d) /\ d.pub = r.pub /\ d.phase = "retired"
    <3>1. d = [r EXCEPT !.retOwner = x, !.retired = TRUE, !.phase = "retired",
                        !.owner = A!Nil, !.con = y]
      BY <2>1, <2>4
    <3> QED BY <2>5, <3>1 DEF IsCap
  <2>7. cap' = [cap EXCEPT ![c] = d]
    BY <2>1, <2>3
  <2>8. Quiet
    BY <1>1, <1>3, <2>1, <2>5, <2>6, <2>7, CapChanges
  <2>9. CASE A!Return(t, FALSE) /\ ~r.pub
    BY <1>1, <2>1, <2>8, <2>9, ReturnStep DEF Returning
  <2>10. CASE A!Goto(t, "clean")
    <3>1. StandsAt("clean", stk[t])
      BY <1>2 DEF StandsAt, Cleans
    <3> QED BY <1>1, <1>2, <2>1, <2>5, <2>8, <2>10, <3>1, OnwardStep DEF A!Goto
  <2>11. CASE A!Goto(t, "discard") /\ ~r.pub
    <3>1. StandsAt("discard", stk[t])
      BY <1>2 DEF StandsAt
    <3> QED BY <1>1, <1>2, <2>1, <2>5, <2>8, <2>11, <3>1, OnwardStep DEF A!Goto
  <2> QED BY <1>5, <2>1, <2>9, <2>10, <2>11 DEF A!RetireAdmission
<1> QED BY <1>4, <1>5 DEF A!RetireAdmission

LEMMA VerifyPassStep ==
    ASSUME AuthorityInv, NEW t \in Threads, A!VerifyStep(t), UNCHANGED reg
    PROVE  AuthorityInv'
<1>1. UNCHANGED <<engine, wr, oplock, cur>> /\ pc[t] = "verify" /\ UNCHANGED cap
  BY DEF A!VerifyStep, A!At
<1>2. Quiet
  BY <1>1, SameIsQuiet DEF AuthorityInv, AdmissionTypes
<1>3. stk[t] \in Verifying /\ IsRecord(reg)
  BY <1>1 DEF AuthorityInv, AdmissionTypes, ThreadInv, ThreadIs, StandsAt, Uncalled
<1>4. CASE A!Return(t, FALSE) /\ UNCHANGED tgt
  BY <1>1, <1>2, <1>4, ReturnStep DEF Returning
<1>5. CASE pc' = [pc EXCEPT ![t] = "mismatch"] /\ UNCHANGED <<tgt, stk>>
  <2>1. StandsAt("mismatch", stk[t])
    BY <1>3, Bases DEF StandsAt
  <2> QED BY <1>1, <1>2, <1>5, <2>1, OnwardStep
<1>6. ~(reg.live /\ reg' = [reg EXCEPT !.live = FALSE])
  <2>1. PICK d : d = [reg EXCEPT !.live = FALSE]
    OBVIOUS
  <2>2. d.live = FALSE
    BY <1>3, <2>1 DEF IsRecord
  <2> QED BY <2>1, <2>2
<1> QED BY <1>4, <1>5, <1>6 DEF A!VerifyStep

(* A changed binding is tombstoned, and whoever finds it retires what was    *)
(* admitted for it.                                                         *)
LEMMA VerifyFindsStep ==
    ASSUME AuthorityInv, NEW t \in Threads, A!VerifyStep(t), ~UNCHANGED reg
    PROVE  AuthorityInv'
<1>1. /\ UNCHANGED <<engine, cap, wr, oplock, cur>> /\ pc[t] = "verify" /\ reg.live
      /\ reg' = [reg EXCEPT !.live = FALSE] /\ tgt' = [tgt EXCEPT ![t] = [w |-> reg.cap, mm |-> TRUE]]
      /\ A!Call(t, "retire", "mismatch")
  BY DEF A!VerifyStep, A!At
<1>2. ThreadIs(t, "verify", stk[t], cur[t], tgt[t], wr, cap, oplock)
  BY <1>1 DEF AuthorityInv, ThreadInv
<1>3. /\ stk[t] \in Verifying /\ stk[t] \in Refusing /\ stk[t] \in Stacks
      /\ "mismatch" \in Labels
  BY <1>2, Bases DEF ThreadIs, StandsAt, Uncalled, Labels
<1>4. IsRecord(reg) /\ reg.cap \in A!Caps \cup {A!Nil} /\ reg.minted \in Nat
  BY DEF AuthorityInv, AdmissionTypes
<1>5. PICK d : d = [reg EXCEPT !.live = FALSE]
  OBVIOUS
<1>6. IsRecord(d) /\ d.live = FALSE /\ d.cap = reg.cap /\ d.minted = reg.minted /\ reg' = d
  BY <1>1, <1>4, <1>5 DEF IsRecord
<1>7. PICK s, u, g : s = stk[t] /\ u = Push("mismatch", stk[t]) /\ g = [w |-> reg.cap, mm |-> TRUE]
  OBVIOUS
<1>8. g.w = reg.cap /\ g.mm = TRUE
  BY <1>7
<1>9. stk' = [stk EXCEPT ![t] = u] /\ Moves(t, "retire", u, cur[t], g)
  <2>1. stk' = [stk EXCEPT ![t] = Push("mismatch", stk[t])]
    BY <1>1 DEF A!Call, Push
  <2> QED BY <1>1, <1>7, <2>1, Unmoved DEF Moves, A!Call
<1>10. /\ Below(u, InFault) <=> Below(s, InFault)
       /\ Below(u, Push("revokeChecked", Revoking)) <=> Below(s, Push("revokeChecked", Revoking))
       /\ \A r \in Callers : Below(u, Push(r, <<>>)) <=> Below(s, Push(r, <<>>))
  BY <1>3, <1>7, BelowRefusal
<1>11. StandsAt("retire", u) /\ u \in Stacks
  BY <1>3, <1>7, Pushing DEF StandsAt
<1>12. /\ HasCap("retire", u) => HasCap("verify", s)
       /\ IsCleaning("retire", u) <=> Below(s, InFault)
       /\ Faults("retire", u) <=> Below(s, InFault)
       /\ IsCleaning("verify", s) <=> Below(s, InFault)
       /\ Faults("verify", s) <=> Below(s, InFault)
       /\ Publishes("verify", s) => Publishes("retire", u)
  BY <1>10 DEF HasCap, IsCleaning, Faults, Publishes, Callers
<1>13. Below(s, InFault) => /\ tgt[t].w \in A!Caps /\ cap[tgt[t].w].pub
                            /\ wr[tgt[t].w].phase = "cleaning" /\ wr[tgt[t].w].owner = t
                            /\ wr[tgt[t].w].revokes = 1 /\ wr[tgt[t].w].sessions = 0
  BY <1>2, <1>7, <1>12 DEF ThreadIs
<1>14. \A w \in A!Caps : cap[w].pub => reg.cap = w
  BY DEF AuthorityInv, WrapperInv
<1>15. Below(s, InFault) => g.w = tgt[t].w
  BY <1>8, <1>13, <1>14
<1>16. HasCap("retire", u) => cur[t] \in A!Caps
  BY <1>2, <1>7, <1>12 DEF ThreadIs
<1>17. ThreadIs(t, "retire", u, cur[t], g, wr', cap', oplock')
  BY <1>1, <1>4, <1>8, <1>11, <1>12, <1>13, <1>15, <1>16 DEF ThreadIs
<1>18. Typed
  BY <1>1, <1>4, <1>6 DEF AuthorityInv, AdmissionTypes, Typed
<1>19. /\ pc'[t] = "retire" /\ stk'[t] = u /\ cur'[t] = cur[t] /\ tgt'[t] = g
       /\ \A v \in Threads \ {t} :
             pc'[v] = pc[v] /\ stk'[v] = stk[v] /\ cur'[v] = cur[v] /\ tgt'[v] = tgt[v]
       /\ AdmissionTypes'
  BY <1>9, <1>18, ThreadMoved
<1>20. Kept(t)
  BY <1>1, <1>19 DEF Kept
<1>21. Served'
  BY <1>1, ServedPrimed DEF AuthorityInv, Served
<1>22. ASSUME NEW w \in A!Caps PROVE KeepsWrapper(t, w)
  <2>1. WrapperInv(w)
    BY DEF AuthorityInv
  <2>2. wr[w].phase = "cleaning" /\ wr[w].owner = t => IsCleaning("retire", u) /\ g.w = w
    BY <1>1, <1>7, <1>12, <1>15, <2>1 DEF WrapperInv
  <2>3. wr'[w].phase = "cleaning" =>
          \/ wr'[w].owner = t /\ IsCleaning(pc'[t], stk'[t]) /\ tgt'[t].w = w
          \/ wr[w].phase = "cleaning" /\ wr'[w].owner = wr[w].owner /\ wr[w].owner # t
    BY <1>1, <1>19, <2>2
  <2>4. MustClean("retire", u, cur[t], g, cap, w) \/ (~cap[w].pub /\ ~Duty(t, w))
    <3>1. CASE cap[w].pub
      BY <1>8, <1>14, <3>1 DEF MustClean
    <3>2. CASE ~cap[w].pub /\ Duty(t, w)
      BY <1>1, <1>7, <1>12, <3>2 DEF Duty, MustClean
    <3> QED BY <3>1, <3>2
  <2>5. wr'[w].made = "complete" /\ wr'[w].phase = "active" =>
          \/ MustClean(pc'[t], stk'[t], cur'[t], tgt'[t], cap', w)
          \/ /\ wr[w].made = "complete" /\ wr[w].phase = "active"
             /\ ~Duty(t, w) /\ ~(reg.live /\ cap[w].pub)
    BY <1>1, <1>19, <2>4
  <2>6. cap'[w].pub => reg'.cap = w /\ engine'.auth = w /\ cap'[w].phase \in {"admitted", "retired"}
    BY <1>1, <1>6, <2>1 DEF WrapperInv
  <2>7. OneCleanup(wr'[w])
    BY <1>1, <2>1 DEF WrapperInv
  <2> QED BY <2>3, <2>5, <2>6, <2>7 DEF KeepsWrapper
<1> QED BY <1>17, <1>19, <1>20, <1>21, <1>22, ThreadStep

LEMMA MismatchStep ==
    ASSUME AuthorityInv, NEW t \in Threads, A!MismatchCleanup(t)
    PROVE  AuthorityInv'
<1>1. UNCHANGED <<engine, reg, cap, wr, oplock, cur>> /\ pc[t] = "mismatch"
  BY DEF A!MismatchCleanup, A!At, A!auth
<1>2. Quiet
  BY <1>1, SameIsQuiet DEF AuthorityInv, AdmissionTypes
<1>3. CASE A!Return(t, TRUE) /\ UNCHANGED tgt
  BY <1>1, <1>2, <1>3, ReturnStep DEF Returning
<1>4. CASE /\ engine.auth # A!Nil
           /\ tgt' = [tgt EXCEPT ![t] = [w |-> engine.auth, mm |-> TRUE]]
           /\ A!Call(t, "clean", "reject")
  <2>1. PICK s, u, g : s = stk[t] /\ u = Push("reject", stk[t]) /\ g = [w |-> engine.auth, mm |-> TRUE]
    OBVIOUS
  <2>2. g.w = engine.auth /\ g.mm = TRUE /\ engine.auth \in A!Caps
    BY <1>4, <2>1 DEF AuthorityInv, Served
  <2>3. ThreadIs(t, "mismatch", s, cur[t], tgt[t], wr, cap, oplock)
    BY <1>1, <2>1 DEF AuthorityInv, ThreadInv
  <2>4. s \in Refusing /\ s \in Stacks /\ "reject" \in Labels
    BY <2>3, Bases DEF ThreadIs, StandsAt, Uncalled, Labels
  <2>5. Moves(t, "clean", u, cur[t], g)
    <3>1. stk' = [stk EXCEPT ![t] = Push("reject", stk[t])]
      BY <1>4 DEF A!Call, Push
    <3> QED BY <1>1, <1>4, <2>1, <3>1, Unmoved DEF Moves, A!Call
  <2>6. /\ Below(u, InFault) <=> Below(s, InFault)
        /\ Below(u, Push("revokeChecked", Revoking)) <=> Below(s, Push("revokeChecked", Revoking))
        /\ \A r \in Callers : Below(u, Push(r, <<>>)) <=> Below(s, Push(r, <<>>))
    BY <2>1, <2>4, BelowRefusal
  <2>7. StandsAt("clean", u) /\ u \in Stacks
    BY <2>1, <2>4, Pushing DEF StandsAt, Cleans
  <2>8. /\ HasCap("clean", u) => HasCap("mismatch", s)
        /\ IsCleaning("clean", u) <=> Below(s, InFault)
        /\ Faults("clean", u) <=> Below(s, InFault)
        /\ IsCleaning("mismatch", s) <=> Below(s, InFault)
        /\ Faults("mismatch", s) <=> Below(s, InFault)
        /\ Publishes("mismatch", s) => Publishes("clean", u)
    BY <2>6 DEF HasCap, IsCleaning, Faults, Publishes, Callers
  <2>9. Below(s, InFault) => /\ tgt[t].w \in A!Caps /\ cap[tgt[t].w].pub
                             /\ wr[tgt[t].w].phase = "cleaning" /\ wr[tgt[t].w].owner = t
                             /\ wr[tgt[t].w].revokes = 1 /\ wr[tgt[t].w].sessions = 0
    BY <2>3, <2>8 DEF ThreadIs
  <2>10. Below(s, InFault) => g.w = tgt[t].w
    BY <2>2, <2>9 DEF AuthorityInv, WrapperInv
  <2>11. HasCap("clean", u) => cur[t] \in A!Caps
    BY <2>3, <2>8 DEF ThreadIs
  <2>12. ThreadIs(t, "clean", u, cur[t], g, wr', cap', oplock')
    BY <1>1, <2>2, <2>7, <2>8, <2>9, <2>10, <2>11 DEF ThreadIs
  <2>13. \A w : Duty(t, w) => MustClean("clean", u, cur[t], g, cap', w)
    BY <1>1, <2>1, <2>8 DEF Duty, MustClean
  <2>14. HandsOn(t, "clean", u, cur[t], g)
    BY <1>1, <2>1, <2>8, <2>10, <2>13 DEF HandsOn
  <2> QED BY <1>2, <2>5, <2>12, <2>14, QuietStep
<1> QED BY <1>3, <1>4 DEF A!MismatchCleanup

(* A cleanup begins, or waits for the one that has.                         *)
LEMMA EnterCleanupStep ==
    ASSUME AuthorityInv, NEW t \in Threads, A!EnterCleanup(t)
    PROVE  AuthorityInv'
<1>1. UNCHANGED <<engine, reg, cap, oplock, cur, tgt>> /\ pc[t] = "clean"
  BY DEF A!EnterCleanup, A!At, A!Same
<1>2. ThreadIs(t, "clean", stk[t], cur[t], tgt[t], wr, cap, oplock)
  BY <1>1 DEF AuthorityInv, ThreadInv
<1>3. tgt[t].w \in A!Caps /\ Cleans(stk[t]) /\ stk[t] \in Stacks
  BY <1>2 DEF ThreadIs, StandsAt, Uncalled
<1>4. IsEngine(engine) /\ IsWrapper(wr[tgt[t].w]) /\ wr = [w \in A!Caps |-> wr[w]]
  BY <1>3 DEF AuthorityInv, AdmissionTypes
<1>5. PICK x, r, s, g : x = tgt[t].w /\ r = wr[x] /\ s = stk[t] /\ g = tgt[t]
  OBVIOUS
<1>6. PICK mm : mm = (wr[tgt[t].w].mismatch \/ tgt[t].mm)
  OBVIOUS
<1>7. (r.mismatch => mm) /\ (g.mm => mm)
  BY <1>5, <1>6
<1>8. CASE wr' = [wr EXCEPT ![tgt[t].w].mismatch = mm] /\ r.phase # "active"
  <2>1. PICK d : d = [r EXCEPT !.mismatch = mm]
    OBVIOUS
  <2>2. wr' = [wr EXCEPT ![x] = d]
    BY <1>3, <1>4, <1>5, <1>8, <2>1 DEF IsWrapper
  <2>3. /\ IsWrapper(d) /\ d.phase = r.phase /\ d.owner = r.owner /\ d.revokes = r.revokes
        /\ d.sessions = r.sessions /\ d.mismatch = mm /\ d.made = r.made
    BY <1>4, <1>5, <2>1 DEF IsWrapper
  <2>4. Quiet
    BY <1>1, <1>3, <1>4, <1>5, <1>7, <2>2, <2>3, WrapperChanges
  <2>5. ASSUME NEW e, A!Return(t, e) PROVE AuthorityInv'
    BY <1>1, <1>5, <1>8, <2>4, <2>5, ReturnStep DEF Returning
  <2>6. CASE A!Goto(t, "cleanWait")
    <3>1. StandsAt("cleanWait", stk[t])
      BY <1>3 DEF StandsAt
    <3> QED BY <1>1, <1>3, <1>5, <1>8, <2>4, <2>6, <3>1, OnwardStep DEF A!Goto
  <2> QED BY <1>5, <1>8, <2>5, <2>6 DEF A!EnterCleanup
<1>9. CASE /\ r.phase = "active" /\ A!Goto(t, "cleanRevoke")
           /\ wr' = [wr EXCEPT ![tgt[t].w].mismatch = mm, ![tgt[t].w].phase = "cleaning",
                               ![tgt[t].w].owner = t]
  <2>1. PICK d : d = [r EXCEPT !.mismatch = mm, !.phase = "cleaning", !.owner = t]
    OBVIOUS
  <2>2. wr' = [wr EXCEPT ![x] = d]
    BY <1>3, <1>4, <1>5, <1>9, <2>1 DEF IsWrapper
  <2>3. /\ IsWrapper(d) /\ d.phase = "cleaning" /\ d.owner = t /\ d.revokes = r.revokes
        /\ d.sessions = r.sessions /\ d.mismatch = mm /\ d.made = r.made
    BY <1>4, <1>5, <2>1 DEF IsWrapper
  <2>4. Moves(t, "cleanRevoke", s, cur[t], g)
    BY <1>1, <1>5, <1>9, Unmoved DEF Moves, A!Goto
  <2>5. ~Below(s, InFault)
    <3>1. Below(s, InFault) => IsCleaning("clean", s)
      BY DEF IsCleaning, Faults
    <3> QED BY <1>2, <1>5, <1>9, <3>1 DEF ThreadIs
  <2>6. /\ ~IsCleaning("clean", s) /\ ~Faults("cleanRevoke", s)
        /\ HasCap("cleanRevoke", s) => HasCap("clean", s)
        /\ Publishes("clean", s) => Publishes("cleanRevoke", s)
        /\ IsCleaning("cleanRevoke", s)
    BY <2>5 DEF IsCleaning, Faults, HasCap, Publishes
  <2>7. StandsAt("cleanRevoke", s) /\ s \in Stacks
    BY <1>3, <1>5, <2>5 DEF StandsAt
  <2>8. r.revokes = 0 /\ OneCleanup(d)
    BY <1>3, <1>5, <1>9, <2>3 DEF AuthorityInv, WrapperInv, OneCleanup
  <2>9. wr'[x] = d
    BY <1>3, <1>4, <1>5, <2>2
  <2>10. ThreadIs(t, "cleanRevoke", s, cur[t], g, wr', cap', oplock')
    <3>1. HasCap("cleanRevoke", s) => cur[t] \in A!Caps
      BY <1>2, <1>5, <2>6 DEF ThreadIs
    <3>2. ~g.mm => cap[x].pub /\ s = Revoked
      BY <1>2, <1>5 DEF ThreadIs
    <3> QED BY <1>1, <1>3, <1>5, <1>7, <2>3, <2>6, <2>7, <2>8, <2>9, <3>1, <3>2 DEF ThreadIs
  <2>11. \A w \in A!Caps \ {x} : Duty(t, w) => MustClean("cleanRevoke", s, cur[t], g, cap, w)
    BY <1>1, <1>5, <2>6 DEF Duty, MustClean
  <2>12. KeepsOne(t, "cleanRevoke", s, cur[t], g, x, d)
    BY <1>1, <1>5, <1>7, <1>9, <2>3, <2>6, <2>8, <2>11 DEF KeepsOne
  <2> QED BY <1>1, <1>3, <1>5, <2>2, <2>3, <2>4, <2>10, <2>12, OneWrapperStep
<1>10. \/ wr' = [wr EXCEPT ![tgt[t].w].mismatch = mm] /\ r.phase # "active"
       \/ /\ r.phase = "active" /\ A!Goto(t, "cleanRevoke")
          /\ wr' = [wr EXCEPT ![tgt[t].w].mismatch = mm, ![tgt[t].w].phase = "cleaning",
                              ![tgt[t].w].owner = t]
  BY <1>5, <1>6 DEF A!EnterCleanup
<1> QED BY <1>8, <1>9, <1>10

(* Under the operation lock, the wrapper's sessions go.                      *)
LEMMA CleanRevokeStep ==
    ASSUME AuthorityInv, NEW t \in Threads, A!CleanRevoke(t)
    PROVE  AuthorityInv'
<1>1. /\ UNCHANGED <<engine, reg, cap, oplock, cur, tgt>> /\ pc[t] = "cleanRevoke"
      /\ oplock[tgt[t].w] = A!Nil
      /\ wr' = [wr EXCEPT ![tgt[t].w].revokes = @ + 1, ![tgt[t].w].sessions = 0]
  BY DEF A!CleanRevoke, A!At, A!Same
<1>2. ThreadIs(t, "cleanRevoke", stk[t], cur[t], tgt[t], wr, cap, oplock)
  BY <1>1 DEF AuthorityInv, ThreadInv
<1>3. IsCleaning("cleanRevoke", stk[t])
  BY DEF IsCleaning
<1>4. /\ tgt[t].w \in A!Caps /\ Cleans(stk[t]) /\ ~Below(stk[t], InFault) /\ stk[t] \in Stacks
      /\ wr[tgt[t].w].phase = "cleaning" /\ wr[tgt[t].w].owner = t /\ wr[tgt[t].w].revokes = 0
  BY <1>2, <1>3 DEF ThreadIs, StandsAt, Uncalled
<1>5. IsWrapper(wr[tgt[t].w]) /\ wr = [w \in A!Caps |-> wr[w]]
  BY <1>4 DEF AuthorityInv, AdmissionTypes
<1>6. PICK x, r, s, g : x = tgt[t].w /\ r = wr[x] /\ s = stk[t] /\ g = tgt[t]
  OBVIOUS
<1>7. PICK d : d = [r EXCEPT !.revokes = 1, !.sessions = 0]
  OBVIOUS
<1>8. wr' = [wr EXCEPT ![x] = d]
  <2>1. r.revokes + 1 = 1
    BY <1>4, <1>6
  <2>2. wr' = [wr EXCEPT ![x].revokes = r.revokes + 1, ![x].sessions = 0]
    BY <1>1, <1>6
  <2>3. wr' = [wr EXCEPT ![x].revokes = 1, ![x].sessions = 0]
    BY <2>1, <2>2
  <2> QED BY <1>4, <1>5, <1>6, <1>7, <2>3 DEF IsWrapper
<1>9. /\ IsWrapper(d) /\ d.phase = "cleaning" /\ d.owner = t /\ d.revokes = 1
      /\ d.sessions = 0 /\ d.mismatch = r.mismatch /\ d.made = r.made
  BY <1>4, <1>5, <1>6, <1>7 DEF IsWrapper
<1>10. wr'[x] = d
  BY <1>4, <1>5, <1>6, <1>8
<1>11. OneCleanup(d)
  BY <1>9 DEF OneCleanup
<1>12. PICK l \in {"cleanClose", "cleanFault"} : A!Goto(t, l) /\ (l = "cleanFault" => ~r.mismatch)
  BY <1>6 DEF A!CleanRevoke
<1>13. l = "cleanFault" => cap[x].pub /\ s = Revoked
  BY <1>2, <1>6, <1>12 DEF ThreadIs
<1>14. StandsAt(l, s) /\ s \in Stacks
  BY <1>4, <1>6, <1>12, <1>13 DEF StandsAt
<1>15. /\ HasCap(l, s) => HasCap("cleanRevoke", s)
       /\ Publishes("cleanRevoke", s) => Publishes(l, s)
       /\ IsCleaning(l, s) /\ (Faults(l, s) <=> l = "cleanFault")
  BY <1>4, <1>6, <1>12 DEF IsCleaning, Faults, HasCap, Publishes
<1>16. ThreadIs(t, l, s, cur[t], g, wr', cap', oplock')
  <2>1. HasCap(l, s) => cur[t] \in A!Caps
    BY <1>2, <1>6, <1>15 DEF ThreadIs
  <2> QED BY <1>1, <1>4, <1>6, <1>9, <1>10, <1>13, <1>14, <1>15, <2>1 DEF ThreadIs
<1>17. Moves(t, l, s, cur[t], g)
  BY <1>1, <1>6, <1>12, Unmoved DEF Moves, A!Goto
<1>18. \A w \in A!Caps : Duty(t, w) => MustClean(l, s, cur[t], g, cap, w)
  BY <1>1, <1>6, <1>15 DEF Duty, MustClean
<1>19. KeepsOne(t, l, s, cur[t], g, x, d)
  BY <1>1, <1>4, <1>6, <1>9, <1>11, <1>15, <1>18 DEF KeepsOne
<1> QED BY <1>1, <1>4, <1>6, <1>8, <1>9, <1>16, <1>17, <1>19, OneWrapperStep

(* The global fault of a cleanup that is no mismatch.                       *)
LEMMA CleanFaultStep ==
    ASSUME AuthorityInv, NEW t \in Threads, A!CleanFault(t) \/ A!CleanFaulted(t)
    PROVE  AuthorityInv'
<1>1. /\ UNCHANGED <<reg, cap, oplock, cur, tgt>> /\ pc[t] \in {"cleanFault", "fault"}
  BY DEF A!CleanFault, A!CleanFaulted, A!At, A!Same, A!auth
<1>2. ThreadIs(t, pc[t], stk[t], cur[t], tgt[t], wr, cap, oplock)
  BY DEF AuthorityInv, ThreadInv
<1>3. stk[t] = Revoked
  BY <1>1, <1>2 DEF ThreadIs, StandsAt, Uncalled
<1>4. Faults(pc[t], Revoked) /\ IsCleaning(pc[t], Revoked)
  BY <1>1 DEF Faults, IsCleaning
<1>5. /\ tgt[t].w \in A!Caps /\ wr[tgt[t].w].phase = "cleaning" /\ wr[tgt[t].w].owner = t
      /\ wr[tgt[t].w].revokes = 1 /\ wr[tgt[t].w].sessions = 0 /\ cap[tgt[t].w].pub
  BY <1>1, <1>2, <1>3, <1>4 DEF ThreadIs
<1>6. /\ ~Below(Revoked, InFault) /\ ~Below(Revoked, Push("revokeChecked", Revoking))
      /\ \A r \in Callers : ~Below(Revoked, Push(r, <<>>))
  BY BelowNone
<1>7. \A w : ~Duty(t, w)
  BY <1>1, <1>3, <1>6 DEF Duty, MustClean, Publishes, Callers
<1>8. IsEngine(engine) /\ IsWrapper(wr[tgt[t].w]) /\ wr = [w \in A!Caps |-> wr[w]]
  BY <1>5 DEF AuthorityInv, AdmissionTypes
<1>9. CASE A!CleanFault(t)
  <2>1. UNCHANGED <<engine, wr>> /\ A!Call(t, "verify", "fault")
    BY <1>9 DEF A!CleanFault, A!auth
  <2>2. Quiet
    BY <1>1, <1>8, <2>1, SameIsQuiet
  <2>3. stk' = [stk EXCEPT ![t] = Push("fault", stk[t])]
    BY <2>1 DEF A!Call, Push
  <2>4. Moves(t, "verify", InFault, cur[t], tgt[t])
    BY <1>1, <1>3, <2>1, <2>3, Unmoved DEF Moves, A!Call, InFault
  <2>5. InFault \in Verifying /\ InFault \in Refusing /\ InFault \in Stacks
    BY Bases DEF Verifying, Refusing
  <2>6. /\ "fault" \in Labels /\ "revokeChecked" \in Labels /\ Revoking \in Stacks
        /\ Revoked \in Stacks /\ <<>> \in Stacks /\ Callers \subseteq Labels /\ "fault" \notin Callers
    BY Bases, Pushing DEF Labels, Callers
  <2>7. InFault # Push("revokeChecked", Revoking) /\ \A r \in Callers : InFault # Push(r, <<>>)
    BY <2>6, PushedOnce DEF InFault
  <2>8. /\ Below(InFault, InFault) /\ ~Below(InFault, Push("revokeChecked", Revoking))
        /\ \A r \in Callers : ~Below(InFault, Push(r, <<>>))
    BY <2>5, <2>7, BelowOnlyItself
  <2>9. Faults("verify", InFault) /\ IsCleaning("verify", InFault) /\ ~HasCap("verify", InFault)
    BY <2>8 DEF Faults, IsCleaning, HasCap, Callers
  <2>10. StandsAt("verify", InFault)
    BY <2>5 DEF StandsAt
  <2>11. ThreadIs(t, "verify", InFault, cur[t], tgt[t], wr', cap', oplock')
    BY <1>1, <1>5, <2>1, <2>5, <2>9, <2>10 DEF ThreadIs
  <2>12. HandsOn(t, "verify", InFault, cur[t], tgt[t])
    BY <1>7, <2>9 DEF HandsOn
  <2> QED BY <2>2, <2>4, <2>11, <2>12, QuietStep
<1>10. CASE A!CleanFaulted(t)
  <2>1. PICK e : wr' = [wr EXCEPT ![tgt[t].w].err = e]
    BY <1>10 DEF A!CleanFaulted
  <2>2. PICK x, r : x = tgt[t].w /\ r = wr[x]
    OBVIOUS
  <2>3. PICK d : d = [r EXCEPT !.err = e]
    OBVIOUS
  <2>4. wr' = [wr EXCEPT ![x] = d]
    BY <1>5, <1>8, <2>1, <2>2, <2>3 DEF IsWrapper
  <2>5. /\ IsWrapper(d) /\ d.phase = r.phase /\ d.owner = r.owner /\ d.revokes = r.revokes
        /\ d.sessions = r.sessions /\ d.mismatch = r.mismatch /\ d.made = r.made
    BY <1>8, <2>2, <2>3 DEF IsWrapper
  <2>6. engine' \in {engine, A!Failed(engine)}
    BY <1>10 DEF A!CleanFaulted
  <2>7. IsEngine(engine') /\ engine'.auth = engine.auth
    BY <1>8, <2>6, EngineFails
  <2>8. Quiet
    <3>1. x \in A!Caps
      BY <1>5, <2>2
    <3>2. /\ d.phase = wr[x].phase /\ d.owner = wr[x].owner /\ d.revokes = wr[x].revokes
          /\ d.sessions = wr[x].sessions /\ d.mismatch = wr[x].mismatch /\ d.made = wr[x].made
      BY <2>2, <2>5
    <3> QED BY <1>1, <2>4, <2>5, <2>7, <3>1, <3>2, WrapperChanges
  <2>9. A!Goto(t, "cleanClose")
    BY <1>10 DEF A!CleanFaulted
  <2>10. Moves(t, "cleanClose", Revoked, cur[t], tgt[t])
    BY <1>1, <1>3, <2>9, Unmoved DEF Moves, A!Goto
  <2>11. StandsAt("cleanClose", Revoked) /\ Revoked \in Stacks
    BY <1>6, Bases DEF StandsAt, Cleans
  <2>12. /\ ~Faults("cleanClose", Revoked) /\ IsCleaning("cleanClose", Revoked)
         /\ ~HasCap("cleanClose", Revoked)
    BY <1>6 DEF Faults, IsCleaning, HasCap, Callers
  <2>13. ThreadIs(t, "cleanClose", Revoked, cur[t], tgt[t], wr', cap', oplock')
    BY <1>5, <2>8, <2>11, <2>12 DEF ThreadIs, Quiet, Unused
  <2>14. HandsOn(t, "cleanClose", Revoked, cur[t], tgt[t])
    BY <1>7, <2>12 DEF HandsOn
  <2> QED BY <2>8, <2>10, <2>13, <2>14, QuietStep
<1> QED BY <1>9, <1>10

(* And the end of a cleanup.                                                *)
LEMMA CleanCloseStep ==
    ASSUME AuthorityInv, NEW t \in Threads, A!CleanClose(t)
    PROVE  AuthorityInv'
<1>1. UNCHANGED <<engine, reg, cap, oplock, cur, tgt>> /\ pc[t] = "cleanClose"
  BY DEF A!CleanClose, A!At, A!Same
<1>2. ThreadIs(t, "cleanClose", stk[t], cur[t], tgt[t], wr, cap, oplock)
  BY <1>1 DEF AuthorityInv, ThreadInv
<1>3. IsCleaning("cleanClose", stk[t])
  BY DEF IsCleaning
<1>4. /\ tgt[t].w \in A!Caps /\ ~Below(stk[t], InFault) /\ StandsAt("cleanClose", stk[t])
      /\ wr[tgt[t].w].phase = "cleaning" /\ wr[tgt[t].w].owner = t
      /\ wr[tgt[t].w].revokes = 1 /\ wr[tgt[t].w].sessions = 0
  BY <1>2, <1>3 DEF ThreadIs, StandsAt, Uncalled
<1>5. IsWrapper(wr[tgt[t].w]) /\ wr = [w \in A!Caps |-> wr[w]]
  BY <1>4 DEF AuthorityInv, AdmissionTypes
<1>6. PICK raised \in BOOLEAN :
        LET mm == wr[tgt[t].w].mismatch \/ tgt[t].mm
            err == (wr[tgt[t].w].err \/ raised) /\ ~mm IN
        /\ wr' = [wr EXCEPT ![tgt[t].w].mismatch = mm, ![tgt[t].w].err = err,
                            ![tgt[t].w].phase = "complete", ![tgt[t].w].owner = A!Nil]
        /\ A!Return(t, err)
  BY DEF A!CleanClose
<1>7. PICK m, e : /\ wr' = [wr EXCEPT ![tgt[t].w].mismatch = m, ![tgt[t].w].err = e,
                                      ![tgt[t].w].phase = "complete", ![tgt[t].w].owner = A!Nil]
                  /\ A!Return(t, e) /\ (wr[tgt[t].w].mismatch => m)
  BY <1>6
<1>8. PICK x, r, g : x = tgt[t].w /\ r = wr[x] /\ g = tgt[t]
  OBVIOUS
<1>9. PICK d : d = [r EXCEPT !.mismatch = m, !.err = e, !.phase = "complete", !.owner = A!Nil]
  OBVIOUS
<1>10. wr' = [wr EXCEPT ![x] = d]
  BY <1>4, <1>5, <1>7, <1>8, <1>9 DEF IsWrapper
<1>11. /\ IsWrapper(d) /\ d.phase = "complete" /\ d.revokes = 1 /\ d.sessions = 0 /\ d.mismatch = m
  BY <1>4, <1>5, <1>8, <1>9 DEF IsWrapper
<1> DEFINE l == Head(stk[t])
           b == Tail(stk[t])
<1>12. Moves(t, l, b, cur[t], g)
  BY <1>1, <1>7, <1>8, Unmoved DEF Moves, A!Return
<1>13. "cleanClose" \in Returning
  BY DEF Returning
<1>14. /\ l \in Labels /\ b \in Stacks /\ stk[t] = Push(l, b) /\ StandsAt(l, b)
       /\ StandsAt("cleanClose", Push(l, b))
  BY <1>4, <1>13, Returns
<1> HIDE DEF l, b
<1>15. /\ ~IsCleaning(l, b) /\ ~Faults(l, b)
       /\ Publishes(l, b) <=> Below(stk[t], Push("publish", <<>>))
       /\ HasCap(l, b) => HasCap("cleanClose", stk[t])
  BY <1>4, <1>13, <1>14, ReturnsTo
<1>16. HasCap(l, b) => cur[t] \in A!Caps
  BY <1>2, <1>15 DEF ThreadIs
<1>17. l \notin {"clean", "cleanWait", "discard", "discardWait", "retire", "cleanRevoke", "useBody",
                 "useRun", "useUnlock"}
  BY <1>14 DEF Labels, Callers
<1>18. ThreadIs(t, l, b, cur[t], g, wr', cap', oplock')
  BY <1>14, <1>15, <1>16, <1>17 DEF ThreadIs
<1>19. \A w \in A!Caps : Duty(t, w) => MustClean(l, b, cur[t], g, cap, w)
  BY <1>1, <1>15 DEF Duty, MustClean, Publishes
<1>20. OneCleanup(d)
  BY <1>11 DEF OneCleanup
<1>21. KeepsOne(t, l, b, cur[t], g, x, d)
  BY <1>1, <1>4, <1>7, <1>8, <1>11, <1>19, <1>20 DEF KeepsOne
<1> QED BY <1>1, <1>4, <1>8, <1>10, <1>11, <1>12, <1>18, <1>21, OneWrapperStep

LEMMA RunsKeep ==
    ASSUME AuthorityInv, NEW t \in Threads, A!Runs(t) \/ A!Returns(t)
    PROVE  AuthorityInv'
<1>1. CASE A!VerifyStep(t)
  BY <1>1, VerifyPassStep, VerifyFindsStep
<1>2. CASE A!RetireAdmission(t) \/ A!MismatchCleanup(t) \/ A!Reject(t)
  BY <1>2, RetireStep, MismatchStep, RejectStep
<1>3. CASE A!EnterCleanup(t) \/ A!AwaitCleanup(t) \/ A!CleanRevoke(t) \/ A!CleanFault(t)
  BY <1>3, EnterCleanupStep, RejectStep, CleanRevokeStep, CleanFaultStep
<1>4. CASE A!CleanFaulted(t) \/ A!CleanClose(t) \/ A!Discard(t) \/ A!AwaitDiscard(t)
  BY <1>4, CleanFaultStep, CleanCloseStep, DiscardStep, AwaitDiscardStep
<1>5. CASE A!Revoke(t) \/ A!RevokeChecked(t) \/ A!RevokeDone(t)
  BY <1>5, RevokeStep, RevokeDoneStep
<1>6. CASE A!UseGuard(t) \/ A!UseLock(t) \/ A!UseGuardAfter(t) \/ A!UseRun(t) \/ A!UseUnlock(t)
  BY <1>6, GuardStep, UseLockStep, UseRunStep
<1>7. CASE A!Terminal(t) \/ A!Called(t) \/ A!Unlock(t)
  BY <1>7, TerminalStep, GuardStep
<1>8. CASE A!AdmitChecked(t) \/ A!AdmitCap(t) \/ A!AdmitPhase(t) \/ A!AdmitWait(t)
  BY <1>8, AdmitCheckedStep, AdmitCapStep, AdmitPhaseStep, AdmitLockStep
<1>9. CASE A!AdmitLock(t) \/ A!AdmitReturn(t) \/ A!Build(t) \/ A!Claim(t) \/ A!Finish(t)
  BY <1>9, AdmitLockStep, AdmitReturnStep, BuildStep, ClaimStep, FinishStep
<1>10. CASE A!PublishLock(t) \/ A!Publish(t) \/ A!Undo(t) \/ A!Abandon(t)
  BY <1>10, PublishLockStep, PublishStep, UndoStep, AbandonStep
<1> QED BY <1>1, <1>2, <1>3, <1>4, <1>5, <1>6, <1>7, <1>8, <1>9, <1>10
         DEF A!Runs, A!Returns

LEMMA AuthorityStarts == A!Init => AuthorityInv
<1> SUFFICES ASSUME A!Init PROVE AuthorityInv
  OBVIOUS
<1>1. PICK n, r : n = A!NewCap /\ r = A!NewWrapper
  OBVIOUS
<1>2. IsCap(n) /\ n.pub = FALSE
  BY <1>1 DEF A!NewCap, IsCap
<1>3. IsWrapper(r) /\ r.phase = "active" /\ r.revokes = 0 /\ r.made = "no"
  BY <1>1 DEF A!NewWrapper, IsWrapper
<1>4. /\ cap = [w \in A!Caps |-> n] /\ wr = [w \in A!Caps |-> r]
      /\ oplock = [w \in A!Caps |-> A!Nil]
      /\ pc = [t \in Threads |-> "idle"] /\ stk = [t \in Threads |-> <<>>]
      /\ cur = [t \in Threads |-> A!Nil]
      /\ tgt = [t \in Threads |-> [w |-> A!Nil, mm |-> FALSE]]
  BY <1>1 DEF A!Init
<1>5. IsEngine(engine) /\ engine.auth = A!Nil /\ IsRecord(reg) /\ reg.cap = A!Nil /\ reg.minted = 0
  BY DEF A!Init, IsEngine, IsRecord
<1>6. AdmissionTypes
  BY <1>2, <1>3, <1>4, <1>5 DEF AdmissionTypes
<1>7. ASSUME NEW t \in Threads PROVE ThreadInv(t)
  <2>1. pc[t] = "idle" /\ stk[t] = <<>>
    BY <1>4
  <2>2. "idle" \in Uncalled /\ "idle" \notin WithCap
    BY DEF Uncalled, WithCap
  <2>3. ThreadIs(t, "idle", <<>>, cur[t], tgt[t], wr, cap, oplock)
    BY <2>2, AtTop
  <2> QED BY <2>1, <2>3 DEF ThreadInv
<1>8. ASSUME NEW w \in A!Caps PROVE WrapperInv(w)
  BY <1>2, <1>3, <1>4 DEF WrapperInv, OneCleanup
<1> QED BY <1>5, <1>6, <1>7, <1>8 DEF AuthorityInv, Served

(* When every call has returned, nobody is left to clean a wrapper.         *)
LEMMA AuthorityHolds ==
    AuthorityInv => A!CleanupIsFinal /\ A!OneAuthority /\ A!DeadBindingServesNobody
<1> SUFFICES ASSUME AuthorityInv
             PROVE  A!CleanupIsFinal /\ A!OneAuthority /\ A!DeadBindingServesNobody
  OBVIOUS
<1>1. A!CleanupIsFinal /\ A!OneAuthority
  BY DEF AuthorityInv, WrapperInv, OneCleanup, A!CleanupIsFinal, A!OneAuthority
<1>2. ASSUME ~reg.live, \A t \in Threads : pc[t] = "idle", NEW w \in A!Caps,
             wr[w].made = "complete"
      PROVE  wr[w].phase = "complete"
  <2>1. "idle" \in Uncalled /\ "idle" \notin {"publishLock", "publish", "undo"}
    BY DEF Uncalled
  <2>2. \A t \in Threads : ~IsCleaning(pc[t], stk[t]) /\ ~Duty(t, w)
    BY <1>2, <2>1, NothingToHandOn
  <2>3. WrapperInv(w)
    BY DEF AuthorityInv
  <2> QED BY <1>2, <2>2, <2>3 DEF WrapperInv, OneCleanup
<1> QED BY <1>1, <1>2 DEF A!DeadBindingServesNobody

(* Whatever races with it, the cleanup of a wrapper runs once and leaves no  *)
(* session open; racing admissions publish one wrapper, the one the engine   *)
(* serves with; and a binding that the registry has rejected serves nobody   *)
(* once every call has returned, however many threads call the engine.       *)
THEOREM AuthorityIsSound == AllSpec => []AuthorityIsOne
<1> DEFINE Inv == part = "admission" => AuthorityInv
<1>1. AllInit => Inv
  BY AuthorityStarts DEF AllInit
<1>2. Inv /\ [AllNext]_all => Inv'
  <2> SUFFICES ASSUME Inv, [AllNext]_all, part' = "admission" PROVE AuthorityInv'
    OBVIOUS
  <2>1. part = "admission" /\ [A!Next]_admission
    BY StepsOfParts
  <2>2. CASE UNCHANGED admission
    BY <2>1, <2>2, ChangeBindingStep
  <2>3. CASE A!Next
    BY <2>1, <2>3, RunsKeep, CallsStep, CensusStep, ChangeBindingStep DEF A!Next, A!Calls
  <2> QED BY <2>1, <2>2, <2>3
<1>3. Inv => AuthorityIsOne
  BY AuthorityHolds DEF AuthorityIsOne
<1> QED BY <1>1, <1>2, <1>3, PTL DEF AllSpec
=============================================================================
