------------------------------ MODULE Retention ------------------------------
(* Where a log row is kept: in live_logs, until the nightly archiving moves it *)
(* to live_logs_archive, or the retention purge or an admin deletes it.  A row *)
(* that is linked to an open case is under legal hold: the retention purge     *)
(* spares it, and the case shows it from whichever table has it.               *)
EXTENDS Integers, FiniteSets

CONSTANTS
    Log,       \* bound: log rows
    Reader,    \* bound: views of the case that overlap
    MaxAge     \* bound: days that an age is told apart

RetentionBounds == MaxAge \in Nat \ {0}

VARIABLES
    live, archived,  \* the rows of the two tables
    arrived,    \* rows ever ingested
    days,       \* per row: age by its timestamp
    keep,       \* log_retention_days (0: no purge)
    hot,        \* log_archive_days (0: no archiving)
    purgeDue,   \* log_retention_last_purge is a day old
    holding,    \* cases.status = 'open'
    linked,     \* case_items with item_type 'fim_event'
    owed,       \* history: linked rows that the hold has covered ever since
    missing,    \* history: those of them a view could not show
    vpc, viewed \* per view: where it is, and which item it shows

tables == <<live, archived, arrived, days>>
policy == <<keep, hot, purgeDue>>
case == <<holding, linked, owed>>
views == <<missing, vpc, viewed>>
retentionVars == <<tables, policy, case, views>>

RetentionTypeOK ==
    /\ live \subseteq Log /\ archived \subseteq Log /\ arrived \subseteq Log
    /\ linked \subseteq Log /\ owed \subseteq Log /\ missing \subseteq Log
    /\ days \in [Log -> 0 .. MaxAge] /\ keep \in 0 .. MaxAge /\ hot \in 0 .. MaxAge
    /\ purgeDue \in BOOLEAN /\ holding \in BOOLEAN
    /\ vpc \in [Reader -> 0 .. 2] /\ viewed \in [Reader -> SUBSET Log]

RetentionInit ==
    /\ live = {} /\ archived = {} /\ arrived = {}
    /\ days = [r \in Log |-> 0]
    /\ keep = 0 /\ hot = MaxAge /\ purgeDue = TRUE
    /\ holding = TRUE /\ linked = {} /\ owed = {} /\ missing = {}
    /\ vpc = [v \in Reader |-> 0] /\ viewed = [v \in Reader |-> {}]

-----------------------------------------------------------------------------
\* A row comes with the timestamp its source gave it, however late.
Ingest(r, d) ==
    /\ r \notin arrived
    /\ arrived' = arrived \cup {r} /\ live' = live \cup {r}
    /\ days' = [days EXCEPT ![r] = d]
    /\ UNCHANGED <<archived, policy, case, views>>

NextDay ==
    /\ days' = [r \in Log |-> IF r \in arrived /\ days[r] < MaxAge THEN days[r] + 1 ELSE days[r]]
    /\ purgeDue' = TRUE
    /\ UNCHANGED <<live, archived, arrived, keep, hot, case, views>>

SetPolicy(k, h) ==
    /\ keep' = k /\ hot' = h
    /\ UNCHANGED <<tables, purgeDue, case, views>>

-----------------------------------------------------------------------------
(* archive_old_logs: copied and deleted in one transaction.                   *)

Aged(n) == {r \in live : days[r] >= n}
Copied == Aged(hot)
\* Broken variant: the cutoff of the DELETE is taken anew, a day on.
Deleted_Anew == Aged(hot - 1)
Deleted == Aged(hot)

\* The nightly run by the setting, or now by what an admin has typed in.
Archive ==
    /\ hot > 0
    /\ archived' = archived \cup Copied
    /\ live' = live \ Deleted
    /\ UNCHANGED <<arrived, days, policy, case, views>>

-----------------------------------------------------------------------------
(* run_due_log_purge, once a day.                                             *)

\* Broken variant: only the rows of the hot window are looked up.
Held_Unaged == {r \in linked : holding /\ days[r] < MaxAge}
Held == {r \in linked : holding}

Purge ==
    /\ keep > 0 /\ purgeDue
    /\ live' = live \ (Aged(keep) \ Held)
    /\ purgeDue' = FALSE
    /\ UNCHANGED <<archived, arrived, days, keep, hot, case, views>>

\* An admin's purge goes by age alone, a chunk at a time.
PurgeByHand(n, S) ==
    /\ S \subseteq Aged(n)
    /\ live' = live \ S
    /\ owed' = owed \ (S \ archived)
    /\ UNCHANGED <<archived, arrived, days, policy, holding, linked, views>>

-----------------------------------------------------------------------------
(* The case, and what it shows.                                               *)

Link(r) ==
    /\ holding /\ r \notin linked /\ r \in arrived
    /\ linked' = linked \cup {r}
    /\ owed' = owed \cup ({r} \cap (live \cup archived))
    /\ UNCHANGED <<tables, policy, holding, views>>

Unlink(r) ==
    /\ holding /\ r \in linked
    /\ linked' = linked \ {r} /\ owed' = owed \ {r}
    /\ UNCHANGED <<tables, policy, holding, views>>

Close ==
    /\ holding
    /\ holding' = FALSE /\ owed' = {}
    /\ UNCHANGED <<tables, policy, linked, views>>

Reopen ==
    /\ ~holding
    /\ holding' = TRUE /\ owed' = linked \cap (live \cup archived)
    /\ UNCHANGED <<tables, policy, linked, views>>

\* _case_item_summary looks into live_logs, and if the row is not there, into the
\* archive, in two statements of their own.
\* Broken variant: the archive first.
Table_ArchiveFirst(n) == IF n = 1 THEN archived ELSE live
Table(n) == IF n = 1 THEN live ELSE archived

View(v, r) ==
    /\ vpc[v] = 0 /\ r \in linked
    /\ viewed' = [viewed EXCEPT ![v] = {r}]
    /\ vpc' = [vpc EXCEPT ![v] = 1]
    /\ UNCHANGED <<tables, policy, case, missing>>

Look(v) ==
    /\ vpc[v] > 0
    /\ LET found == viewed[v] \subseteq Table(vpc[v])
           over == found \/ vpc[v] = 2
       IN  /\ vpc' = [vpc EXCEPT ![v] = IF over THEN 0 ELSE 2]
           /\ viewed' = [viewed EXCEPT ![v] = IF over THEN {} ELSE @]
           /\ missing' = IF over /\ ~found THEN missing \cup (viewed[v] \cap owed) ELSE missing
    /\ UNCHANGED <<tables, policy, case>>

RetentionNext ==
    \/ NextDay \/ Archive \/ Purge \/ Close \/ Reopen
    \/ \E k, h \in 0 .. MaxAge : SetPolicy(k, h)
    \/ \E n \in 1 .. MaxAge, S \in SUBSET Log : PurgeByHand(n, S)
    \/ \E r \in Log : Link(r) \/ Unlink(r) \/ \E d \in 0 .. MaxAge : Ingest(r, d)
    \/ \E v \in Reader, r \in Log : View(v, r)
    \/ \E v \in Reader : Look(v)

RetentionSpec == RetentionInit /\ [][RetentionNext]_retentionVars

-----------------------------------------------------------------------------
(* Properties.                                                               *)

\* The evidence of an open case is there to be shown: neither retention nor archiving,
\* in whatever order and at whatever settings, takes it from under a view of the case.
EvidenceFound == missing = {}
=============================================================================
