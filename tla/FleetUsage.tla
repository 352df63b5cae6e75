----------------------------- MODULE FleetUsage -----------------------------
(***************************************************************************)
(* FleetUsage (fleet_usage.py).  Handler threads record measured responses *)
(* and the health writer takes snapshots; whichever comes first on a new   *)
(* day rolls the day over.  The roll folds a complete day into three       *)
(* suppressed bands and releases them once per closed month.               *)
(*                                                                         *)
(* `day' is the wall clock, which may be stepped either way.  The methods  *)
(* hold the lock throughout and are single steps.  The keyed daily labels  *)
(* are the devices themselves: the salt changes whenever the table is      *)
(* cleared.  Cached prompt tokens are left out: they are only summed up.   *)
(***************************************************************************)
EXTENDS Integers, FiniteSets, FiniteSetsExt

CONSTANTS
  Devices,
  Amounts,      \* tokens a response is measured at
  Edges,        \* BAND_EDGES
  MinDevices,   \* 10: devices a day needs to be counted
  MinBand,      \* 5: devices a band needs to be counted
  MonthDays,    \* days per month
  LastDay,      \* bound on the wall clock
  MaxRecords    \* bound on responses

VARIABLES
  day,
  fleet,   \* the fields of FleetUsage
  truth,   \* history: tokens by day and device
  seen,    \* history: days on which the fleet was called
  stepped  \* history: a call saw an earlier day than the one before it

vars == <<day, fleet, truth, seen, stepped>>

Bands == 0 .. Cardinality(Edges)
Empty == [b \in Bands |-> 0]
NoUse == [d \in Devices |-> 0]
Month(d) == d \div MonthDays
NoRelease == [month |-> -1, released |-> FALSE, bands |-> Empty, counted |-> 0]

FreshFleet ==
  [day |-> day, whole |-> FALSE, invalid |-> FALSE, daily |-> NoUse, bands |-> Empty,
   counted |-> 0, released |-> NoRelease, total |-> 0, frozen |-> 0]

Init ==
  /\ day = 0
  /\ fleet = FreshFleet
  /\ truth = [d \in 0 .. LastDay |-> NoUse]
  /\ seen = {0}
  /\ stepped = FALSE

-----------------------------------------------------------------------------
Users(daily) == {d \in Devices : daily[d] > 0}
BandOf(n) == Cardinality({e \in Edges : n >= e})
InBand(daily, b) == Cardinality({d \in Users(daily) : BandOf(daily[d]) = b})

\* Mutant: a band too small to be published is added all the same.
Suppressed_Not(n) == n

Suppressed(n) == IF n >= MinBand THEN n ELSE 0

\* A complete day with enough devices is folded into the month.
Fold(f, d) ==
  IF d = f.day + 1 /\ f.whole /\ Cardinality(Users(f.daily)) >= MinDevices
  THEN [f EXCEPT !.bands = [b \in Bands |-> @[b] + Suppressed(InBand(f.daily, b))],
                 !.counted = @ + 1]
  ELSE f

\* The month that just closed is released; a month the process slept through
\* is released empty.
Release(f, d) ==
  IF Month(d) = Month(f.day) THEN f
  ELSE LET covered == Month(f.day) = Month(d) - 1
           counted == IF covered THEN f.counted ELSE 0
       IN [f EXCEPT
             !.released = [month |-> Month(d) - 1, released |-> counted > 0,
                           bands |-> IF covered THEN f.bands ELSE Empty, counted |-> counted],
             !.bands = Empty, !.counted = 0]

\* Mutant: an interval that is lived a second time counts a second time.
Roll_Replays(f, d) ==
  IF d = f.day THEN f
  ELSE [Release(Fold([f EXCEPT !.frozen = f.total], d), d)
          EXCEPT !.daily = NoUse, !.whole = (d = f.day + 1), !.day = d]

\* _roll
Roll(f, d) ==
  IF f.invalid \/ d = f.day THEN f
  ELSE IF d < f.day
  THEN [f EXCEPT !.invalid = TRUE, !.daily = NoUse, !.bands = Empty, !.counted = 0,
                 !.released = NoRelease]
  ELSE [Release(Fold([f EXCEPT !.frozen = f.total], d), d)
          EXCEPT !.daily = NoUse, !.whole = (d = f.day + 1), !.day = d]

Observe == seen' = seen \cup {day} /\ stepped' = (stepped \/ day < Max(seen))

\* ChatTally.commit_response -> FleetUsage.record
Record(d, n) ==
  /\ fleet.total < MaxRecords
  /\ LET f == Roll(fleet, day) IN
       fleet' = [f EXCEPT !.total = @ + 1, !.daily[d] = IF f.invalid THEN @ ELSE @ + n]
  /\ truth' = [truth EXCEPT ![day][d] = @ + n]
  /\ Observe
  /\ UNCHANGED day

\* snapshot(), called by the health writer whether or not there is traffic.
Snapshot ==
  /\ fleet' = Roll(fleet, day)
  /\ Observe
  /\ UNCHANGED <<day, truth>>

\* Days pass, or the wall clock is stepped.
SetDay(d) ==
  /\ d # day
  /\ day' = d
  /\ UNCHANGED <<fleet, truth, seen, stepped>>

Next ==
  \/ \E d \in Devices, n \in Amounts : Record(d, n)
  \/ Snapshot
  \/ \E d \in 0 .. LastDay : SetDay(d)

-----------------------------------------------------------------------------
\* Days the process saw from before their start to after their end.
Complete(m) == {d \in 1 .. LastDay - 1 : Month(d) = m /\ {d - 1, d, d + 1} \subseteq seen}

Countable(m) == {d \in Complete(m) : Cardinality(Users(truth[d])) >= MinDevices}

\* A released histogram is what the real traffic of the closed month gives: only
\* days the process saw whole and on which enough devices were active, and in
\* each only the bands with enough devices.  Once a call has seen the clock step
\* back, nothing is ever released again (FleetUsage._roll).
ReleaseIsSuppressedTruth ==
  LET r == fleet.released IN
  /\ r.released =>
       /\ ~stepped
       /\ r.month < Month(fleet.day)
       /\ r.counted = Cardinality(Countable(r.month))
       /\ \A b \in Bands :
            r.bands[b] = MapThenSumSet(LAMBDA d : LET n == InBand(truth[d], b) IN
                                                    IF n >= MinBand THEN n ELSE 0,
                                       Countable(r.month))
  /\ stepped => ~r.released
=============================================================================
