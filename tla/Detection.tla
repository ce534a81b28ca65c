------------------------------ MODULE Detection ------------------------------
(* The Sigma detection engine: a loop that reads the live_logs rows above a   *)
(* watermark, matches every rule against them, writes what matched, turns     *)
(* windowed counts into aggregation alerts, and only then moves the watermark *)
(* -- which lives in a file, outside the database.  Meanwhile rows are        *)
(* ingested, purged and archived, the clock runs, cycles fail half-way, and   *)
(* an operator may restore an older database.                                 *)
EXTENDS Integers, FiniteSets

CONSTANTS
    MaxLog,       \* bound: rows ever ingested
    MaxNow,       \* bound: the clock
    MaxTries,     \* bound: cycles that may fail on one batch, plus one
    Batch,        \* DETECTION_BATCH_SIZE
    PlainRule,    \* rules that alert on every match
    AggRule,      \* rules with a count() by ... condition
    Group,        \* the values rows are grouped by
    Threshold,    \* the matches of one group an aggregation rule waits for
    AggWindow,    \* the rule's timeframe
    Trouble,      \* bound: which of AnyTrouble an instance goes through
    None

AnyTrouble == {"fail", "remove", "rule", "torn"}
ASSUME DetectionBounds ==
    /\ MaxLog \in Nat /\ MaxNow \in Nat
    /\ MaxTries \in Nat \ {0} /\ Batch \in Nat \ {0}
    /\ Threshold \in Nat \ {0} /\ AggWindow \in Nat
ASSUME DetectionTrouble == Trouble \subseteq AnyTrouble
ASSUME DetectionRules == PlainRule \cap AggRule = {}

Rule == PlainRule \cup AggRule
LogId == 1 .. MaxLog
Time == 0 .. MaxNow
Never == -1

\* What the rules make of a row: the rules it matches and its group.
Row == [group : Group, hits : SUBSET Rule]
ASSUME DetectionNone == None \notin Row

\* A row of sigma_aggregation_matches; "try" tells the rows of a repeated batch
\* apart, as their own ids do in the table.
Match == [rule : AggRule, group : Group, id : LogId, at : Time, try : 1 .. MaxTries]

VARIABLES
    rows,      \* live_logs: the rows that are in it
    seq,       \* its AUTOINCREMENT sequence: the last id given out
    matches,   \* sigma_aggregation_matches
    cooled,    \* sigma_aggregation_alerts: latest alerted_at per rule and group
    times,     \* how often the alerts and matches count a row for a rule
    aggAlerts, \* the aggregation alerts raised, each as the matches it counted
    mark,      \* last_id in sigma_state.json
    torn,      \* sigma_state.json is empty: truncated, not yet written
    pc, upTo, todo, found,  \* the cycle in progress: its range, rules and matches
    tries,     \* 1 + the cycles that failed on the current batch
    now,       \* the clock
    backup,    \* the last database backup
    again,     \* history: rows of batches whose cycle failed after its commit
    missed     \* history: rows that a rule, when last matched on them, raised before it found

log    == <<rows, seq>>
agg    == <<matches, cooled, aggAlerts>>
file   == <<mark, torn>>
cycle  == <<pc, upTo, todo, found, tries>>
vars   == <<log, agg, times, file, cycle, now, backup, again, missed>>

Database == [rows : [LogId -> Row \cup {None}], seq : 0 .. MaxLog,
             matches : SUBSET Match,
             cooled : [AggRule \X Group -> Time \cup {Never}],
             times : [Rule \X LogId -> 0 .. 2]]

TypeOK ==
    /\ rows \in [LogId -> Row \cup {None}] /\ seq \in 0 .. MaxLog
    /\ matches \subseteq Match
    /\ cooled \in [AggRule \X Group -> Time \cup {Never}]
    /\ times \in [Rule \X LogId -> 0 .. 2]
    /\ aggAlerts \subseteq SUBSET Match
    /\ mark \in 0 .. MaxLog /\ torn \in BOOLEAN
    /\ pc \in {"idle", "match", "written", "checked", "save"}
    /\ upTo \in 0 .. MaxLog /\ todo \subseteq Rule
    /\ found \subseteq [rule : Rule, id : LogId, group : Group]
    /\ tries \in 1 .. MaxTries
    /\ now \in Time
    /\ backup = None \/ backup \in Database
    /\ again \subseteq LogId /\ missed \subseteq Rule \X LogId

Init ==
    /\ rows = [i \in LogId |-> None] /\ seq = 0
    /\ matches = {} /\ aggAlerts = {}
    /\ cooled = [x \in AggRule \X Group |-> Never]
    /\ times = [x \in Rule \X LogId |-> 0]
    /\ mark = 0 /\ torn = FALSE
    /\ pc = "idle" /\ upTo = 0 /\ todo = {} /\ found = {} /\ tries = 1
    /\ now = 0 /\ backup = None /\ again = {} /\ missed = {}

-----------------------------------------------------------------------------
(* The rest of the appliance, at any moment of a cycle.                      *)

Present == {i \in LogId : rows[i] # None}
\* SELECT MAX(id) FROM live_logs
IsMaxId(m) == m \in Present /\ \A i \in Present : i <= m

\* Broken variant: an id without AUTOINCREMENT, one above the rows that are left.
NextId_Reused == IF Present = {} THEN 1 ELSE (CHOOSE m \in Present : IsMaxId(m)) + 1
NextId == seq + 1

Ingest(row) ==
    /\ seq < MaxLog
    /\ rows' = [rows EXCEPT ![NextId] = row]
    /\ seq' = NextId
    /\ UNCHANGED <<agg, times, file, cycle, now, backup, again, missed>>

\* The purges and the archiver delete by the rows' own timestamps, which a late
\* or imported event does not share with the rows around it.
Remove(S) ==
    /\ "remove" \in Trouble
    /\ rows' = [i \in LogId |-> IF i \in S THEN None ELSE rows[i]]
    /\ UNCHANGED <<seq, agg, times, file, cycle, now, backup, again, missed>>

Tick ==
    /\ now < MaxNow
    /\ now' = now + 1
    /\ UNCHANGED <<log, agg, times, file, cycle, backup, again, missed>>

-----------------------------------------------------------------------------
(* run_detection_cycle                                                       *)

CycleStart ==
    /\ pc = "idle" /\ ~torn
    /\ \E m \in Present :
          /\ IsMaxId(m) /\ m > mark
          /\ upTo' = IF m < mark + Batch THEN m ELSE mark + Batch
    /\ todo' = Rule /\ found' = {}
    /\ pc' = "match"
    /\ UNCHANGED <<log, agg, times, file, tries, now, backup, again, missed>>

\* Broken variant: the batch begins with the watermark's own row.
InBatch_FromLast(i) == mark <= i /\ i <= upTo
InBatch(i) == mark < i /\ i <= upTo

Hits(r) == {[rule |-> r, id |-> i, group |-> rows[i].group] :
              i \in {j \in Present : InBatch(j) /\ r \in rows[j].hits}}

\* What is missed, but for the rule r on this batch.
MissedOutside(r) == {x \in missed : x[1] = r => ~InBatch(x[2])}

\* The rules are matched one after the other, each on the rows there are by then.
EvaluateRule(r) ==
    /\ pc = "match" /\ r \in todo
    /\ todo' = todo \ {r}
    /\ found' = found \cup Hits(r)
    /\ missed' = MissedOutside(r)
    /\ UNCHANGED <<log, agg, times, file, pc, upTo, tries, now, backup, again>>

\* An exception of one rule is printed, and the cycle goes on with what the rule
\* has found so far.
RuleFails(r) ==
    /\ "rule" \in Trouble
    /\ pc = "match" /\ r \in todo
    /\ todo' = todo \ {r}
    /\ \E F \in SUBSET Hits(r) :
          /\ found' = found \cup F
          /\ missed' = MissedOutside(r) \cup {<<r, f.id>> : f \in Hits(r) \ F}
    /\ UNCHANGED <<log, agg, times, file, pc, upTo, tries, now, backup, again>>

Twice(n) == IF n = 2 THEN 2 ELSE n + 1

\* One transaction: aggregation matches, and the alert each other match adds to
\* (the one of the last 15 minutes for its rule, host and user, or a new one).
WriteBatch ==
    /\ pc = "match" /\ todo = {}
    /\ matches' = matches \cup
         {[rule |-> f.rule, group |-> f.group, id |-> f.id, at |-> now, try |-> tries] :
             f \in {g \in found : g.rule \in AggRule}}
    /\ times' = [x \in Rule \X LogId |->
                   IF \E f \in found : f.rule = x[1] /\ f.id = x[2]
                   THEN Twice(times[x]) ELSE times[x]]
    /\ pc' = "written" /\ found' = {}
    /\ UNCHANGED <<log, cooled, aggAlerts, file, upTo, todo, tries, now, backup,
                   again, missed>>

\* Broken variants: a count over all time, and a marker nobody looks at.
InWindow_Ever(t) == t # Never
InWindow(t) == t # Never /\ t >= now - AggWindow
Counted(r, g) == {m \in matches : m.rule = r /\ m.group = g /\ InWindow(m.at)}
Cooling_Never(r, g) == FALSE
Cooling(r, g) == InWindow(cooled[<<r, g>>])
Crossed(r, g) == Cardinality(Counted(r, g)) >= Threshold /\ ~Cooling(r, g)

\* The rules to check: one that raised early in this cycle is not among them.
Checkable == IF "rule" \in Trouble THEN SUBSET AggRule ELSE {AggRule}

\* _check_aggregation_thresholds, a transaction of its own.  The escalation of
\* hosts and users comes after it and writes to none of these tables.
CheckThresholds ==
    /\ pc = "written"
    /\ \E Q \in Checkable :
       LET C == {x \in Q \X Group : Crossed(x[1], x[2])}
       IN  /\ aggAlerts' = aggAlerts \cup {Counted(x[1], x[2]) : x \in C}
           /\ cooled' = [x \in AggRule \X Group |-> IF x \in C THEN now ELSE cooled[x]]
    /\ pc' = "checked"
    /\ UNCHANGED <<log, matches, times, file, upTo, todo, found, tries, now,
                   backup, again, missed>>

\* open(STATE_FILE, 'w') truncates ...
OpenState ==
    /\ pc = "checked"
    /\ torn' = TRUE
    /\ pc' = "save"
    /\ UNCHANGED <<log, agg, times, mark, upTo, todo, found, tries, now, backup, again,
                   missed>>

\* Broken variants: the newest row of all, and a full batch though fewer were read.
NewMark_RealMax == CHOOSE m \in LogId : IsMaxId(m) \/ Present = {}
NewMark == upTo

\* ... json.dump writes.
SaveMark ==
    /\ pc = "save"
    /\ mark' = NewMark /\ torn' = FALSE
    /\ pc' = "idle" /\ upTo' = 0 /\ tries' = 1
    /\ UNCHANGED <<log, agg, times, todo, found, now, backup, again, missed>>

\* The process dies, or a statement raises ("database is locked"): the open
\* transaction is rolled back, and the next cycle starts from the same mark.
CycleFails ==
    /\ "fail" \in Trouble
    /\ pc # "idle" /\ tries < MaxTries
    /\ pc = "save" => "torn" \in Trouble
    /\ again' = IF pc = "match" THEN again
                ELSE again \cup {i \in LogId : InBatch(i)}
    /\ tries' = tries + 1
    /\ pc' = "idle" /\ upTo' = 0 /\ todo' = {} /\ found' = {}
    /\ UNCHANGED <<log, agg, times, file, now, backup, missed>>

\* run_due_aggregation_prune: twice the longest timeframe, if not a day.  Broken
\* variant: half of it.
Retention_Half == AggWindow \div 2
Retention == 2 * AggWindow

Prune ==
    /\ pc = "idle"
    /\ matches' = {m \in matches : m.at >= now - Retention}
    /\ cooled' = [x \in AggRule \X Group |->
                    IF cooled[x] >= now - Retention THEN cooled[x] ELSE Never]
    /\ <<matches', cooled'>> # <<matches, cooled>>
    /\ UNCHANGED <<log, aggAlerts, times, file, cycle, now, backup, again, missed>>

-----------------------------------------------------------------------------
(* backup_db.py, and restore_db.sh with the services stopped.                 *)

TakeBackup ==
    /\ backup' = [rows |-> rows, seq |-> seq, matches |-> matches,
                  cooled |-> cooled, times |-> times]
    /\ UNCHANGED <<log, agg, times, file, cycle, now, again, missed>>

\* The database comes back; sigma_state.json is left as it is.
Restore ==
    /\ backup # None
    /\ rows' = backup.rows /\ seq' = backup.seq
    /\ matches' = backup.matches /\ cooled' = backup.cooled
    /\ times' = backup.times
    /\ pc' = "idle" /\ upTo' = 0 /\ todo' = {} /\ found' = {}
    /\ UNCHANGED <<aggAlerts, file, tries, now, backup, again, missed>>

-----------------------------------------------------------------------------
Appliance ==
    \/ \E row \in Row : Ingest(row)
    \/ \E S \in (SUBSET Present) \ {{}} : Remove(S)
    \/ Tick

Cycle ==
    \/ CycleStart \/ WriteBatch \/ CheckThresholds \/ OpenState \/ SaveMark
    \/ \E r \in Rule : EvaluateRule(r) \/ RuleFails(r)

Next == Appliance \/ Cycle \/ CycleFails \/ Prune

Spec == Init /\ [][Next]_vars

\* The same with an operator who brings back an older database.
RestoreSpec == Init /\ [][Next \/ TakeBackup \/ Restore]_vars

\* The engine's loop runs a cycle every thirty seconds.
FairSpec == Spec /\ WF_vars(Cycle)

-----------------------------------------------------------------------------
(* Properties.                                                               *)

\* "It never skips logs": whatever row of live_logs the watermark has passed has
\* been counted for every rule it matches, but for a rule that raised on it in the
\* end -- though rows arrive, go and are given ids while a cycle runs, and cycles fail.
NothingSkipped ==
    \A i \in Present : i <= mark =>
        \A r \in rows[i].hits : times[<<r, i>>] > 0 \/ <<r, i>> \in missed

\* A row is counted twice only if its cycle failed between the commit of its
\* batch and the watermark: a cycle that fails before its commit costs nothing.
CountedOnce == \A r \in Rule, i \in LogId : times[<<r, i>>] > 1 => i \in again

\* An aggregation alert stands for at least Threshold different events within one
\* timeframe, unless some of them were read again after a failed cycle.
Ids(A) == {m.id : m \in A}
ThresholdEarned ==
    \A A \in aggAlerts :
        /\ Cardinality(Ids(A)) >= Threshold \/ Ids(A) \cap again # {}
        /\ \A m, n \in A : m.at - n.at <= AggWindow

\* The cooldown outlives what an alert counted: no match is in two alerts.
CountedInOneAlert ==
    \A A, B \in aggAlerts : A # B => A \cap B = {}
AlertsEarned == ThresholdEarned /\ CountedInOneAlert

\* A match leaves the table only when no rule's timeframe reaches it any more.
WindowIsKept ==
    [][\A m \in matches \ matches' : m.at < now - AggWindow]_vars

\* Every row is matched against every rule, or deleted before its turn came.
EventuallyCounted ==
    \A i \in LogId :
        (i \in Present)
            ~> (i \in Present => \A r \in rows[i].hits : times[<<r, i>>] > 0)
=============================================================================
