---------------------------- MODULE BootRegistry ----------------------------
(***************************************************************************)
(* The registry of issued boot bindings (_IssuedBindingRegistryV3 of       *)
(* conf_proc_spp_boot_v3.py), keyed by id(binding), an address that a       *)
(* collected binding leaves to a later one.                                *)
(*                                                                         *)
(* A sealed record is named by the binding it refers to, its generation     *)
(* and its counter: no two have the same, so equality stands for `is'.      *)
(* A record whose HMAC does not fit is one with sealed = FALSE.  What is    *)
(* not the registry's doing (bytes that change, a record replaced by an     *)
(* older one, by a forged one, or removed) are actions of the environment.  *)
(***************************************************************************)
EXTENDS Naturals, FiniteSets

CONSTANTS Objects,      \* BootBindingV3 objects, in the order they are made
          Addresses,    \* what id() returns
          MaxCounter,   \* bound: transitions of one record
          MaxFaults     \* bound: interventions of the environment

Nil == [obj |-> 0]

VARIABLES obj,          \* each object: "none", "live" or "dead", and its address
          changed,      \* objects whose bytes differ from their fingerprint
          generation, records, tombstones, highWater,
          minted,       \* every sealed record there was
          claiming,     \* engine claims between their two critical sections
          callbacks,    \* weak-reference callbacks that have not run yet
          faults,       \* interventions so far
          rejected,     \* history: bindings the registry has turned down
          claims,       \* history: engines that claimed each binding
          harmed        \* history: bindings whose entry was tampered with

vars == <<obj, changed, generation, records, tombstones, highWater, minted,
          claiming, callbacks, faults, rejected, claims, harmed>>
table == <<records, tombstones, highWater>>
world == <<obj, changed, callbacks, faults, harmed>>

Record(o, gen, cnt, claimed) ==
    [obj |-> o, gen |-> gen, cnt |-> cnt, claimed |-> claimed, sealed |-> TRUE]

Init ==
    /\ obj = [o \in Objects |-> [st |-> "none", addr |-> 0]]
    /\ changed = {}
    /\ generation = 0
    /\ records = [a \in Addresses |-> Nil]
    /\ tombstones = [a \in Addresses |-> Nil]
    /\ highWater = [a \in Addresses |-> Nil]
    /\ minted = {} /\ claiming = {} /\ callbacks = {} /\ faults = 0
    /\ rejected = {} /\ claims = [o \in Objects |-> 0] /\ harmed = {}

Live(o) == o \in Objects /\ obj[o].st = "live"
Addr(o) == obj[o].addr

-----------------------------------------------------------------------------
(* A weak reference answers its binding while that is alive.               *)
RefersTo(e, o) == e # Nil /\ e.obj = o /\ Live(o)
Dead(e) == ~Live(e.obj)

Sealed(r) == r # Nil /\ r.sealed

(* _current_high_water_record_locked_v3                                    *)
HighWater(o) == IF RefersTo(highWater[Addr(o)], o) THEN highWater[Addr(o)] ELSE Nil

TombstoneLive(o) == RefersTo(tombstones[Addr(o)], o)

ShadowMissing(r, o) == FALSE

(* _record_shadowed_by_live_tombstone_locked_v3                            *)
Shadowed(r, o) == Sealed(r) /\ RefersTo(r, o) /\ TombstoneLive(o)

MatchesHighWater(r, o) == HighWater(o) # Nil /\ HighWater(o) = r

(* _record_for_use_locked_v3: an older record of the same generation is     *)
(* replaced by the newest one.                                             *)
ForUse(o) ==
    LET r == records[Addr(o)]
        h == HighWater(o) IN
    IF Sealed(r) /\ RefersTo(r, o) /\ h # Nil /\ r.gen = h.gen /\ r.cnt < h.cnt THEN h ELSE r

GenerationMatches(r, o, gen) ==
    Sealed(r) /\ r.gen = gen /\ RefersTo(r, o) /\ MatchesHighWater(r, o) /\ ~Shadowed(r, o)

(* The normalized material of the binding still has its fingerprint.       *)
FingerprintFits(o) == o \notin changed

(* The conditions under which _binding_record_v3 answers the record.       *)
Accepts(o) ==
    LET r == ForUse(o) IN
    Sealed(r) /\ RefersTo(r, o) /\ ~Shadowed(r, o) /\ MatchesHighWater(r, o)
    /\ FingerprintFits(o)

(* _install_tombstone_locked_v3, with the reference of the record if that   *)
(* refers to the binding, else with a reference of a new generation.       *)
Entomb(o, e) ==
    IF RefersTo(e, o)
    THEN /\ tombstones' = [tombstones EXCEPT ![Addr(o)] = [obj |-> o, gen |-> e.gen]]
         /\ UNCHANGED generation
    ELSE /\ tombstones' = [tombstones EXCEPT ![Addr(o)] = [obj |-> o, gen |-> generation + 1]]
         /\ generation' = generation + 1

(* What the registry does to an entry it rejects: _record_for_use_locked_v3 *)
(* with nothing in the table, or _invalidate_latest_record_locked_v3.       *)
Invalidate(o) ==
    LET r == ForUse(o) IN
    IF r = Nil
    THEN /\ UNCHANGED <<records, highWater>>
         /\ IF HighWater(o) # Nil /\ ~TombstoneLive(o)
            THEN Entomb(o, HighWater(o))
            ELSE UNCHANGED <<tombstones, generation>>
    ELSE /\ records' = [records EXCEPT ![Addr(o)] = Nil]
         /\ UNCHANGED highWater
         /\ IF Sealed(r) /\ RefersTo(r, o)
            THEN IF TombstoneLive(o) THEN UNCHANGED <<tombstones, generation>> ELSE Entomb(o, r)
            ELSE Entomb(o, Nil)

-----------------------------------------------------------------------------
(* bind_boot_inputs_v3 makes an object and registers it; what a collected   *)
(* object left at the address is cleared, anything else is a rejection.     *)
Bind(o, a) ==
    LET clear(e) == e = Nil \/ (Dead(e) /\ (e \in minted \/ "sealed" \notin DOMAIN e)) IN
    /\ obj[o].st = "none" /\ \A p \in Objects : p < o => obj[p].st # "none"
    /\ \A p \in Objects : obj[p].st = "live" => Addr(p) # a
    /\ obj' = [obj EXCEPT ![o] = [st |-> "live", addr |-> a]]
    /\ IF clear(records[a]) /\ clear(tombstones[a]) /\ clear(highWater[a])
       THEN LET r == Record(o, generation + 1, 0, FALSE) IN
            /\ records' = [records EXCEPT ![a] = r]
            /\ highWater' = [highWater EXCEPT ![a] = r]
            /\ tombstones' = [tombstones EXCEPT ![a] = Nil]
            /\ generation' = generation + 1
            /\ minted' = minted \cup {r}
            /\ UNCHANGED rejected
       ELSE /\ rejected' = rejected \cup {o}
            /\ UNCHANGED <<table, generation, minted>>
    /\ UNCHANGED <<changed, claiming, callbacks, faults, claims, harmed>>

(* is_issued_boot_binding_v3, and every verification: _binding_record_v3.   *)
Lookup(o) ==
    /\ Live(o)
    /\ IF Accepts(o)
       THEN /\ records' = [records EXCEPT ![Addr(o)] = ForUse(o)]
            /\ UNCHANGED <<tombstones, highWater, generation, rejected>>
       ELSE /\ Invalidate(o)
            /\ rejected' = rejected \cup {o}
    /\ UNCHANGED <<world, minted, claiming, claims>>

(* _claim_engine_v3: a lookup, and under the lock again the claim itself.   *)
BeginClaim(o) ==
    /\ Live(o) /\ Accepts(o)
    /\ records' = [records EXCEPT ![Addr(o)] = ForUse(o)]
    /\ \E k \in 1..2 : /\ \A c \in claiming : c.k # k
                       /\ claiming' = claiming \cup {[k |-> k, obj |-> o, gen |-> ForUse(o).gen]}
    /\ UNCHANGED <<world, tombstones, highWater, generation, minted, rejected, claims>>

(* _transition_current_record_locked_v3                                    *)
Transition(o, r, claimed) ==
    LET new == Record(o, r.gen, r.cnt + 1, claimed) IN
    /\ records' = [records EXCEPT ![Addr(o)] = new]
    /\ highWater' = [highWater EXCEPT ![Addr(o)] = new]
    /\ minted' = minted \cup {new}

ClaimableAlways(r) == TRUE

Claimable(r) == ~r.claimed

EndClaim(c) ==
    LET o == c.obj
        r == ForUse(o) IN
    /\ c \in claiming /\ Live(o)
    /\ claiming' = claiming \ {c}
    /\ \/ /\ ~GenerationMatches(r, o, c.gen)
          /\ Invalidate(o)
          /\ rejected' = rejected \cup {o}
          /\ UNCHANGED <<minted, claims>>
       \/ /\ GenerationMatches(r, o, c.gen) /\ ~Claimable(r)
          /\ records' = [records EXCEPT ![Addr(o)] = r]
          /\ UNCHANGED <<tombstones, highWater, generation, minted, rejected, claims>>
       \/ /\ GenerationMatches(r, o, c.gen) /\ Claimable(r) /\ r.cnt < MaxCounter
          /\ Transition(o, r, TRUE)
          /\ claims' = [claims EXCEPT ![o] = @ + 1]
          /\ UNCHANGED <<tombstones, generation, rejected>>
    /\ UNCHANGED world

(* The engine that claimed the binding issues, publishes or drops an        *)
(* admission capability: another transition of the record.                 *)
Admission(o) ==
    LET r == ForUse(o) IN
    /\ Live(o) /\ Accepts(o) /\ r.claimed /\ r.cnt < MaxCounter
    /\ Transition(o, r, r.claimed)
    /\ UNCHANGED <<world, tombstones, generation, claiming, rejected, claims>>

(* The last reference to a binding goes; the callback may run later.        *)
Collect(o) ==
    /\ Live(o) /\ \A c \in claiming : c.obj # o
    /\ obj' = [obj EXCEPT ![o].st = "dead"]
    /\ callbacks' = callbacks \cup
         {[obj |-> o, gen |-> e.gen] :
             e \in {x \in minted \cup {tombstones[Addr(o)]} : x.obj = o}}
    /\ UNCHANGED <<changed, table, generation, minted, claiming, faults, rejected, claims, harmed>>

RetiresByAddress(e, c) == TRUE

(* What a callback removes of the entries at its address.                  *)
Retires(e, c) == e # Nil /\ e.gen = c.gen /\ e.obj = c.obj /\ Dead(e)

(* _retire_boot_binding_v3                                                 *)
RunCallback(c) ==
    LET a == Addr(c.obj)
        without(t) == IF Retires(t[a], c) THEN [t EXCEPT ![a] = Nil] ELSE t IN
    /\ c \in callbacks
    /\ callbacks' = callbacks \ {c}
    /\ records' = without(records)
    /\ highWater' = without(highWater)
    /\ tombstones' = without(tombstones)
    /\ UNCHANGED <<obj, changed, generation, minted, claiming, faults, rejected, claims, harmed>>

-----------------------------------------------------------------------------
(* The environment.                                                        *)
Fault(touched) ==
    /\ faults < MaxFaults /\ faults' = faults + 1
    /\ harmed' = harmed \cup touched
    /\ UNCHANGED <<obj, generation, tombstones, highWater, minted, claiming, callbacks, rejected, claims>>

At(a) == {o \in Objects : obj[o].st = "live" /\ obj[o].addr = a}

ChangeBytes(o) ==
    /\ Live(o) /\ Fault({o})
    /\ changed' = IF o \in changed THEN changed \ {o} ELSE changed \cup {o}
    /\ UNCHANGED records

ReplaceRecord(a) ==
    /\ Fault(At(a))
    /\ \E r \in {m \in minted : Addr(m.obj) = a} \cup {Nil} \cup
                {[m EXCEPT !.sealed = FALSE, !.claimed = FALSE] : m \in {n \in minted : Addr(n.obj) = a}} :
         records' = [records EXCEPT ![a] = r]
    /\ UNCHANGED changed

Next ==
    \/ \E o \in Objects : \/ \E a \in Addresses : Bind(o, a)
                          \/ Lookup(o) \/ BeginClaim(o) \/ Admission(o) \/ Collect(o)
                          \/ ChangeBytes(o)
    \/ \E c \in claiming : EndClaim(c)
    \/ \E c \in callbacks : RunCallback(c)
    \/ \E a \in Addresses : ReplaceRecord(a)

Spec == Init /\ [][Next]_vars

-----------------------------------------------------------------------------
(* A binding that was rejected once stays rejected, whatever is put back    *)
(* into the table or into the binding (boot_v3.py, 877-998).                *)
RejectionIsFinal == \A o \in rejected : Live(o) => ~Accepts(o)

(* One engine claims a binding, ever: neither a second claim that was        *)
(* already past its lookup nor the replay of the unclaimed record makes     *)
(* another (boot_v3.py, 1292-1322).                                         *)
ClaimedOnce == \A o \in Objects : claims[o] <= 1

(* What happens to a binding does not touch the one that has its address    *)
(* next: a binding nobody tampered with is accepted while it lives, even    *)
(* when the callback of its predecessor runs late (boot_v3.py, 827-861).    *)
NoCollateralRejection ==
    \A o \in Objects : Live(o) /\ o \notin harmed /\ o \notin rejected => Accepts(o)
=============================================================================
