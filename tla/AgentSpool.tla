------------------------------ MODULE AgentSpool ------------------------------
(* Shipping logs: an endpoint collects the entries of the last interval, puts  *)
(* what an earlier cycle could not deliver in front of them, and posts the     *)
(* batch up to three times; what failed is held for the next cycle, up to a    *)
(* cap.  The server stores a batch in a transaction that it commits early when *)
(* an entry opens an alert; an answer may be lost and a request be late.       *)
EXTENDS Integers, Sequences, FiniteSets, SequencesExt

CONSTANTS
    MaxNow,      \* bound: log intervals that pass; one entry is logged in each
    Suspicious,  \* the entries that trip a heuristic
    Attempts,    \* tries per batch (the macOS agent has one)
    Spools,      \* FALSE for the macOS agent: what fails is gone
    Cap,         \* _PENDING_LOG_CAP
    MaxFail,     \* bound: attempts that fail
    MaxCrash     \* bound: restarts of the agent

LogEntry == 1 .. MaxNow
Post == 1 .. MaxNow + MaxFail + 2 * MaxCrash
SpoolBounds ==
    /\ {MaxNow, MaxFail, MaxCrash, Cap} \subseteq Nat /\ Attempts \in Nat \ {0}
    /\ Suspicious \subseteq LogEntry /\ Spools \in BOOLEAN

VARIABLES
    clock,      \* the entry logged last on the endpoint
    cycle,      \* where the agent is: "collect", "post" or "sleep"
    collected,  \* entries whose signature is in _sent_event_sigs
    fetched,    \* history: when the agent collected last
    pending,    \* _pending_logs
    batch, attempt,
    posts,      \* requests sent so far: post -> [batch, at, state]
    logs,       \* live_logs, in id order
    alert,      \* occurrence_count of the heuristic's alert (0: none)
    lost,       \* history: entries dropped at the cap, or gone with a restart
    fails, crashes

agent == <<cycle, collected, fetched, pending, batch, attempt>>
server == <<posts, logs, alert>>
bounds == <<fails, crashes>>
spoolVars == <<clock, agent, server, lost, bounds>>

Upload == [batch : Seq(LogEntry), at : Nat, state : {"in", "ok", "failed"}]

SpoolTypeOK ==
    /\ clock \in 0 .. MaxNow /\ cycle \in {"collect", "post", "sleep"}
    /\ collected \subseteq LogEntry /\ fetched \in 0 .. MaxNow
    /\ pending \in Seq(LogEntry) /\ Len(pending) <= Cap
    /\ batch \in Seq(LogEntry) /\ attempt \in 0 .. Attempts
    /\ posts \in Seq(Upload) /\ DOMAIN posts \subseteq Post
    /\ logs \in Seq(LogEntry) /\ alert \in Nat /\ lost \subseteq LogEntry
    /\ fails \in 0 .. MaxFail /\ crashes \in 0 .. MaxCrash

SpoolInit ==
    /\ clock = 0 /\ cycle = "sleep" /\ collected = {} /\ fetched = 0
    /\ pending = <<>> /\ batch = <<>> /\ attempt = 0
    /\ posts = <<>> /\ logs = <<>> /\ alert = 0
    /\ lost = {} /\ fails = 0 /\ crashes = 0

\* An interval passes, and with it an entry is logged.
Later(n) == IF n < MaxNow THEN n + 1 ELSE n

-----------------------------------------------------------------------------
(* The agent.                                                                 *)

Sleep ==
    /\ cycle = "sleep"
    /\ cycle' = "collect" /\ clock' = Later(clock)
    /\ UNCHANGED <<collected, fetched, pending, batch, attempt, server, lost, bounds>>

\* The entries of the last interval that have not been collected before.
Window == {clock} \cap LogEntry
\* Broken variant: the new entries go first.
NextBatch_NewFirst(new) == new \o pending
\* Broken variant: nothing is sent in an interval without new entries.
NextBatch_Quiet(new) == IF new = <<>> THEN <<>> ELSE pending \o new
NextBatch(new) == pending \o new

CollectLogs ==
    /\ cycle = "collect"
    /\ LET new == SetToSeq(Window \ collected) IN
       /\ batch' = NextBatch(new)
       /\ cycle' = IF NextBatch(new) = <<>> THEN "sleep" ELSE "post"
    /\ collected' = collected \cup Window
    /\ fetched' = clock
    /\ attempt' = 0
    /\ UNCHANGED <<clock, pending, server, lost, bounds>>

Sent == Append(posts, [batch |-> batch, at |-> 1, state |-> "in"])
Send ==
    /\ cycle = "post" /\ attempt = 0
    /\ posts' = Sent /\ attempt' = 1
    /\ UNCHANGED <<clock, cycle, collected, fetched, pending, batch, logs, alert, lost,
                   bounds>>

Waiting == cycle = "post" /\ attempt > 0
Delivered ==
    /\ Waiting /\ posts[Len(posts)].state = "ok"
    /\ pending' = <<>> /\ batch' = <<>> /\ attempt' = 0
    /\ cycle' = "sleep"
    /\ UNCHANGED <<clock, collected, fetched, server, lost, bounds>>

\* Broken variant: the cap drops the newest.
HeldBack_Newest(s) == SubSeq(s, 1, IF Len(s) < Cap THEN Len(s) ELSE Cap)
\* Broken variant: no cap.
HeldBack_Uncapped(s) == s
HeldBack(s) == SubSeq(s, IF Len(s) <= Cap THEN 1 ELSE Len(s) - Cap + 1, Len(s))

Overflow(s) == SubSeq(s, 1, IF Spools THEN Len(s) - Cap ELSE Len(s))

\* After the last attempt the batch is held, the oldest entries going at the cap.
Spool ==
    /\ pending' = IF Spools THEN HeldBack(batch) ELSE <<>>
    /\ lost' = lost \cup Range(Overflow(batch))
    /\ batch' = <<>> /\ attempt' = 0 /\ cycle' = "sleep"

Retry ==
    /\ IF attempt = Attempts
       THEN Spool /\ UNCHANGED posts
       ELSE posts' = Sent /\ attempt' = attempt + 1 /\ UNCHANGED <<pending, lost, batch,
                                                                   cycle>>
    /\ UNCHANGED <<collected, fetched, logs, alert, crashes>>

\* No answer within ten seconds, longer than an interval: the request may have arrived,
\* and may yet be served.
TimesOut ==
    /\ Waiting /\ fails < MaxFail
    /\ fails' = fails + 1 /\ clock' = Later(clock)
    /\ Retry

IsRefused ==
    /\ Waiting /\ posts[Len(posts)].state = "failed"
    /\ Retry
    /\ UNCHANGED <<clock, fails>>

\* The agent restarts: what it held in memory is gone.
Crash ==
    /\ crashes < MaxCrash
    /\ crashes' = crashes + 1
    /\ lost' = lost \cup Range(pending) \cup Range(batch)
    /\ pending' = <<>> /\ batch' = <<>> /\ attempt' = 0 /\ cycle' = "collect"
    /\ collected' = {}
    /\ UNCHANGED <<clock, fetched, server, fails>>

-----------------------------------------------------------------------------
(* POST /api/ingest.                                                          *)

\* The entry at which the transaction is committed early: the one that opens the alert.
Opening(p) == {i \in p.at .. Len(p.batch) : p.batch[i] \in Suspicious /\ alert = 0}
StoredUpto(p) == IF Opening(p) = {} THEN Len(p.batch)
           ELSE CHOOSE i \in Opening(p) : \A j \in Opening(p) : i <= j

\* Rows and alert of one transaction; the batch is acknowledged after the last.
Store(n) ==
    /\ n \in DOMAIN posts /\ posts[n].state = "in"
    /\ LET p == posts[n]
           rows == SubSeq(p.batch, p.at, StoredUpto(p))
       IN  /\ logs' = logs \o rows
           /\ alert' = alert + Cardinality({i \in DOMAIN rows : rows[i] \in Suspicious})
           /\ posts' = [posts EXCEPT ![n] =
                          [@ EXCEPT !.at = StoredUpto(p) + 1,
                                    !.state = IF Opening(p) = {} THEN "ok" ELSE "in"]]
    /\ UNCHANGED <<clock, agent, lost, bounds>>

\* An exception, a dead worker, a request that never arrives: what is not committed
\* is rolled back.
Refuse(n) ==
    /\ n \in DOMAIN posts /\ posts[n].state = "in" /\ fails < MaxFail
    /\ posts' = [posts EXCEPT ![n].state = "failed"]
    /\ fails' = fails + 1
    /\ UNCHANGED <<clock, agent, logs, alert, lost, crashes>>

-----------------------------------------------------------------------------
SpoolNext ==
    \/ Sleep \/ CollectLogs \/ Send \/ Delivered \/ TimesOut \/ IsRefused \/ Crash
    \/ \E n \in Post : Store(n) \/ Refuse(n)

SpoolSpec == SpoolInit /\ [][SpoolNext]_spoolVars

\* The agent's loop and the server's workers run on.
FairSpoolSpec ==
    /\ SpoolSpec
    /\ WF_spoolVars(Sleep) /\ WF_spoolVars(CollectLogs)
    /\ WF_spoolVars(Send) /\ WF_spoolVars(Delivered)
    /\ WF_spoolVars(IsRefused) /\ \A n \in Post : WF_spoolVars(Store(n))

-----------------------------------------------------------------------------
(* Properties.                                                               *)

\* "A failed batch is held and prepended": what was collected is stored, underway or
\* held, or was dropped at the cap or lost with a restart.
DeliveredOrHeld ==
    collected \subseteq Range(logs) \cup Range(pending) \cup Range(batch) \cup lost

\* "On overflow the oldest entries are dropped", "a recovered outage replays
\* chronologically": an entry is not stored before an earlier one that is still to come.
StoredInOrder ==
    \A i \in DOMAIN logs : \A e \in collected \ lost :
        e < logs[i] => e \in Range(SubSeq(logs, 1, i))

\* Everything collected is stored in the end, or was lost for a stated reason.
EventuallyStored ==
    \A e \in LogEntry : (e \in collected) ~> (e \in Range(logs) \/ e \in lost)

\* "A transient outage costs latency, not data": nothing is left out between two
\* collections.
NothingUncollected == crashes = 0 => 1 .. fetched \subseteq collected
=============================================================================
