------------------------------ MODULE Baselines ------------------------------
(* What the models of ueba_engine.py find in the logs of an entity: a day, or  *)
(* an hour, above its median by a multiple of the median deviation; a partner, *)
(* process or address it never had; a process few hosts run; connections in a  *)
(* steady rhythm.  A behaviour looks at one subject; the hourly cycle judges   *)
(* it and snapshots the baseline.                                              *)
EXTENDS Integers, Sequences, FiniteSets, SequencesExt, FiniteSetsExt

CONSTANTS
    Partner,    \* what an entity may be seen with for the first time
    Machine,    \* the hosts of the fleet
    Week,       \* bound: days in a week
    Lookback,   \* ueba_lookback_days
    MinDays,    \* ueba_min_days_observed
    MinBaseline,
    Multiplier, \* ueba_stddev_multiplier / 0.6745
    MaxRare,    \* ueba_rare_process_max_hosts
    MinCalls,   \* ueba_beaconing_min_connections
    Cv,         \* one over ueba_beaconing_cv_threshold
    MaxDay, MaxCount,  \* bounds: past days, logs of a day
    MaxCalls, MaxGap   \* bounds: connections, seconds between two

BaselineBounds ==
    /\ {Week, Lookback, Multiplier, MinCalls, Cv, MinDays} \subseteq Nat \ {0}
    /\ {MinBaseline, MaxRare, MaxDay, MaxCount, MaxCalls, MaxGap} \subseteq Nat
    /\ IsFiniteSet(Machine)

Subjects == {"volume", "partner", "population", "rhythm"}
NoLogs == [count |-> 0, met |-> {}]

VARIABLES
    subject,   \* what this behaviour looks at
    days,      \* the past days of the entity, oldest first: how many logs, and with whom
    today,     \* the day that is running
    critical,  \* the hosts whose asset is critical; the others are standard
    ran, runsToday,  \* the hosts that ran the process in the window, and today
    gaps,      \* the seconds between the connections to one address
    found,     \* what the last cycle of this day found
    snapshot   \* ueba_entity_baselines holds the entity

vars == <<subject, days, today, critical, ran, runsToday, gaps, found, snapshot>>

Day == [count : 0 .. MaxCount, met : SUBSET Partner]
Finding == {"volume_anomaly", "rare_process_population", "beaconing_detected"} \cup Partner

TypeOK ==
    /\ subject \in Subjects
    /\ days \in Seq(Day) /\ Len(days) <= MaxDay /\ today \in Day
    /\ {critical, ran} \subseteq SUBSET Machine /\ runsToday \subseteq ran
    /\ gaps \in Seq(0 .. MaxGap) /\ Len(gaps) <= MaxCalls
    /\ found \subseteq Finding /\ snapshot \in BOOLEAN

Init ==
    /\ subject \in Subjects
    /\ days = <<>> /\ today = NoLogs
    /\ critical \in IF subject = "population" THEN SUBSET Machine ELSE {{}}
    /\ ran = {} /\ runsToday = {}
    /\ gaps = <<>> /\ found = {} /\ snapshot = FALSE

-----------------------------------------------------------------------------
(* The baseline: median and median deviation of a pool of counts.             *)

\* The entries of s at the places I, in their order.
Nth(I, k) == CHOOSE i \in I : Cardinality({j \in I : j <= i}) = k
Along(s, I) == [k \in 1 .. Cardinality(I) |-> s[Nth(I, k)]]

Kth(s, k) ==
    CHOOSE x \in {s[i] : i \in DOMAIN s} :
        /\ Cardinality({i \in DOMAIN s : s[i] < x}) < k
        /\ Cardinality({i \in DOMAIN s : s[i] <= x}) >= k

\* Broken variant: the mean.
TwiceMedian_Mean(s) == (2 * FoldSeq(+, 0, s)) \div Len(s)
\* Twice the median of a pool, so that it is an integer.
TwiceMedian(s) == Kth(s, (Len(s) + 1) \div 2) + Kth(s, Len(s) \div 2 + 1)
Abs(x) == IF x < 0 THEN -x ELSE x
TwiceDeviations(s) ==
    LET m == TwiceMedian(s) IN [i \in DOMAIN s |-> Abs(2 * s[i] - m)]

\* Days without logs leave no row, and those before the window are not looked at.
Window == {i \in DOMAIN days : i > Len(days) - Lookback /\ days[i].count > 0}
Counts(I) == Along([i \in DOMAIN days |-> days[i].count], I)
SameWeekday == {i \in Window : i % Week = (Len(days) + 1) % Week}

\* The days of this weekday once there are enough of them, until then all days.
Pool == Counts(IF Cardinality(SameWeekday) >= MinDays THEN SameWeekday ELSE Window)

\* More than the median and Multiplier deviations; a pool of nothing has no baseline.
Exceeds(n, pool) ==
    /\ pool # <<>>
    /\ 4 * n > 2 * TwiceMedian(pool) + Multiplier * TwiceMedian(TwiceDeviations(pool))

\* _run_model, and _run_off_hours_model with hours for days.
Modelled(pool) == pool # <<>> /\ TwiceMedian(pool) > 2 * MinBaseline
Anomalous(pool) == Modelled(pool) /\ Exceeds(today.count, pool)

\* The models of first contact: a partner, in a history that is long enough.
Known == UNION {days[i].met : i \in Window}
FirstMet == IF Cardinality(Window) >= MinDays THEN today.met \ Known ELSE {}

-----------------------------------------------------------------------------
(* _run_rare_process_population_model and _run_beaconing_model.               *)

Tier(h) == IF h \in critical THEN critical ELSE Machine \ critical

\* Broken variant: judged within its tier, however small.
RareOn_InTier(h) ==
    Cardinality(Machine) > MaxRare /\ Cardinality(ran \cap Tier(h)) <= MaxRare
\* Judged within its tier when that is larger than what is rare, else within the fleet.
RareOn(h) ==
    LET peers == IF Cardinality(Tier(h)) > MaxRare THEN Tier(h) ELSE Machine
    IN  Cardinality(Machine) > MaxRare /\ Cardinality(ran \cap peers) <= MaxRare

\* Broken variant: connections within one second count as intervals.
Intervals_All(g) == g
Intervals(g) == Along(g, {i \in DOMAIN g : g[i] > 0})

\* The deviation of the intervals (of a sample, so one interval has none) in their mean.
Steady(d) ==
    LET n == Len(d)
        sum == FoldSeq(+, 0, d)
        squares == FoldSeq(LAMBDA x, y : x * x + y, 0, d)
    IN  n > 1 /\ Cv * Cv * n * (n * squares - sum * sum) <= (n - 1) * sum * sum
Beacons(g) == Len(g) + 1 >= MinCalls /\ Steady(Intervals(g))

Findings ==
    (IF Anomalous(Pool) THEN {"volume_anomaly"} ELSE {}) \cup FirstMet
      \cup (IF \E h \in runsToday : RareOn(h) THEN {"rare_process_population"} ELSE {})
      \cup (IF gaps # <<>> /\ Beacons(gaps) THEN {"beaconing_detected"} ELSE {})

-----------------------------------------------------------------------------

\* A log of the entity, alone or with a partner.
LogOfDay(met) ==
    /\ today.count < MaxCount
    /\ \/ subject = "volume" /\ met = {}
       \/ subject = "partner" /\ today.count = 0
    /\ today' = [count |-> today.count + 1, met |-> today.met \cup met]
    /\ UNCHANGED <<subject, days, critical, ran, runsToday, gaps, found, snapshot>>

Midnight ==
    /\ subject \in {"volume", "partner"} /\ Len(days) < MaxDay
    /\ days' = Append(days, today) /\ today' = NoLogs
    /\ found' = {}
    /\ UNCHANGED <<subject, critical, ran, runsToday, gaps, snapshot>>

Execute(h) ==
    /\ subject = "population" /\ h \notin runsToday
    /\ ran' = ran \cup {h} /\ runsToday' = runsToday \cup {h}
    /\ UNCHANGED <<subject, days, today, critical, gaps, found, snapshot>>

NextDay ==
    /\ subject = "population" /\ runsToday # {}
    /\ runsToday' = {} /\ found' = {}
    /\ UNCHANGED <<subject, days, today, critical, ran, gaps, snapshot>>

Connect(after) ==
    /\ subject = "rhythm" /\ Len(gaps) < MaxCalls
    /\ gaps' = Append(gaps, after)
    /\ UNCHANGED <<subject, days, today, critical, ran, runsToday, found, snapshot>>

\* run_ueba_models: the snapshot is emptied and filled; when filling fails the commit
\* of the findings keeps it empty.
Cycle(fills) ==
    /\ found' = Findings
    /\ snapshot' = (fills /\ Modelled(Pool))
    /\ UNCHANGED <<subject, days, today, critical, ran, runsToday, gaps>>

Next ==
    \/ \E met \in {{}} \cup {{p} : p \in Partner} : LogOfDay(met)
    \/ Midnight \/ NextDay
    \/ \E h \in Machine : Execute(h)
    \/ \E after \in 0 .. MaxGap : Connect(after)
    \/ \E fills \in BOOLEAN : Cycle(fills)

Spec == Init /\ [][Next]_vars

-----------------------------------------------------------------------------
(* Properties.                                                               *)

\* "A single past spike day doesn't drag the baseline up": whatever the other days, when
\* all but one of the pool are alike, one log more than usual is found.
SpikeForgiven ==
    \A pool \in {Pool} : \A c \in MinBaseline + 1 .. MaxCount :
        Len(pool) > 2 /\ Cardinality({k \in DOMAIN pool : pool[k] # c}) <= 1 =>
            (Anomalous(pool) <=> today.count > c)

\* "A 0-delta is noise, not signal": connections repeated within a second, wherever they
\* fall, never hide a rhythm.
RetriesHideNothing ==
    gaps # <<>> /\ Beacons(gaps) =>
        \A i \in 1 .. Len(gaps) + 1 : Beacons(InsertAt(gaps, i, 0))

\* "Rare only means something relative to a real population": what every host runs is
\* rare on none, however small its tier.
CommonIsNotRare == ran = Machine => \A h \in Machine : ~RareOn(h)

\* "Flags a host running a process it's never run before": every first contact of a day is
\* found before the day is over.
ContactsTold == [][Midnight => FirstMet \subseteq found]_vars
=============================================================================
