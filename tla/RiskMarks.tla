------------------------------ MODULE RiskMarks ------------------------------
(* run_risk_scoring: every hour the new alerts, failed logins, sweep results   *)
(* and IOC sightings are turned into risk_score_events, each source from its   *)
(* own high-water mark on.  A run may die at any point.  Alerts, logins and    *)
(* sightings are there as soon as they have an id; a sweep's result comes when *)
(* the endpoint delivers it, which need not be in the order of the ids.        *)
EXTENDS Integers, FiniteSets, FiniteSetsExt

CONSTANTS
    Source,     \* the sources that are scored
    Delayed,    \* those whose rows get their id before they can be scored
    MaxId,      \* bound: rows of each source
    MaxDies     \* bound: runs that die

Id == 1 .. MaxId
RiskBounds == MaxId \in Nat /\ MaxDies \in Nat /\ Delayed \subseteq Source

VARIABLES
    newest,     \* per source: the highest id
    ready,      \* per source: ids whose row the query selects
    mark,       \* per source: risk_scoring_last_..._id
    scored,     \* per source and id: risk_score_events it has left
    running,    \* a run has read its rows
    taken,      \* per source: the ids it has read
    runsDied

rows == <<newest, ready>>
riskVars == <<rows, mark, scored, running, taken, runsDied>>

Nothing == [s \in Source |-> {}]

RiskTypeOK ==
    /\ newest \in [Source -> 0 .. MaxId] /\ mark \in [Source -> 0 .. MaxId]
    /\ ready \in [Source -> SUBSET Id] /\ taken \in [Source -> SUBSET Id]
    /\ scored \in [Source -> [Id -> Nat]]
    /\ running \in BOOLEAN /\ runsDied \in 0 .. MaxDies

RiskInit ==
    /\ newest = [s \in Source |-> 0] /\ mark = [s \in Source |-> 0]
    /\ ready = Nothing /\ taken = Nothing
    /\ scored = [s \in Source |-> [i \in Id |-> 0]]
    /\ running = FALSE /\ runsDied = 0

\* An alert, a failed login, a sighting; a sweep that is queued.
Insert(s) ==
    /\ newest[s] < MaxId
    /\ newest' = [newest EXCEPT ![s] = @ + 1]
    /\ ready' = IF s \in Delayed THEN ready ELSE [ready EXCEPT ![s] = @ \cup {newest[s] + 1}]
    /\ UNCHANGED <<mark, scored, running, taken, runsDied>>

\* A sweep is done.
Complete(s, i) ==
    /\ s \in Delayed /\ i <= newest[s] /\ i \notin ready[s]
    /\ ready' = [ready EXCEPT ![s] = @ \cup {i}]
    /\ UNCHANGED <<newest, mark, scored, running, taken, runsDied>>

\* Broken variant: from the mark on, and not past it.
Unscored_From(s) == {i \in ready[s] : i >= mark[s]}
Unscored(s) == {i \in ready[s] : i > mark[s]}

Collect ==
    /\ ~running
    /\ running' = TRUE
    /\ taken' = [s \in Source |-> Unscored(s)]
    /\ UNCHANGED <<rows, mark, scored, runsDied>>

\* Broken variant: the mark of what is there by the time it is written.
NewMark_Late(s) == newest[s]
NewMark(s) == Max(taken[s] \cup {mark[s]})

\* The scores and the marks, in one transaction.
Save ==
    /\ running
    /\ scored' = [s \in Source |-> [i \in Id |->
                     scored[s][i] + IF i \in taken[s] THEN 1 ELSE 0]]
    /\ mark' = [s \in Source |-> NewMark(s)]
    /\ running' = FALSE /\ taken' = Nothing
    /\ UNCHANGED <<rows, runsDied>>

RunDies ==
    /\ running /\ runsDied < MaxDies
    /\ running' = FALSE /\ taken' = Nothing
    /\ runsDied' = runsDied + 1
    /\ UNCHANGED <<rows, mark, scored>>

RiskNext ==
    \/ \E s \in Source : Insert(s)
    \/ \E s \in Source, i \in Id : Complete(s, i)
    \/ Collect \/ Save \/ RunDies

RiskSpec == RiskInit /\ [][RiskNext]_riskVars

\* The hourly run comes, and not every one dies.
RiskFairSpec == RiskSpec /\ WF_riskVars(Collect) /\ SF_riskVars(Save)

-----------------------------------------------------------------------------
(* Properties.                                                               *)

\* "Each source never gets re-scored twice", and of what has its row with its id
\* nothing below the mark is left out, whenever runs die.
ScoredExactlyOnce ==
    \A s \in Source, i \in Id :
        /\ scored[s][i] <= 1
        /\ s \notin Delayed /\ i <= mark[s] => scored[s][i] = 1

\* A sweep's hit is "scorable by the composite risk engine": none that was reported is
\* below the mark without its points.
HitsAreScored == \A s \in Source : \A i \in ready[s] : i <= mark[s] => scored[s][i] > 0
=============================================================================
