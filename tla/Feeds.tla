-------------------------------- MODULE Feeds --------------------------------
(* The feeds of indicators: taxii_client.py copies what a source lists into    *)
(* stix_indicators, from the loop of the engine and from requests that overlap *)
(* with it; the purge removes what no sync has renewed; feeds are added,       *)
(* uploaded, switched and deleted meanwhile.  The clock of the host shows its  *)
(* local time, by which everything is timed but the rows: these have UTC.      *)
EXTENDS Integers, Sequences, FiniteSets, FiniteSetsExt

CONSTANTS
    Listed,     \* the indicators the source may list, by stix_id
    Uploaded,   \* the indicators of an uploaded file
    Loop, Request,   \* who syncs
    DayLength,  \* the units of time of a day
    UtcAhead,   \* by how many units local time is ahead of UTC (behind, if negative)
    Retention,  \* ioc_retention_days, in units
    Sizes,      \* the retentions that a purge by hand asks for
    Interval,   \* sync_interval_minutes, in units
    MaxNow, MaxFeed,   \* bounds: time, feeds
    MaxChange,  \* bound: changes of the source and of the list of feeds
    None

FeedBounds ==
    /\ {Retention, Interval, MaxNow, MaxFeed, MaxChange} \subseteq Nat
    /\ DayLength \in Nat \ {0} /\ UtcAhead \in Int
    /\ Sizes \subseteq Nat \ {0} /\ None \notin Int

Ioc == Listed \cup Uploaded
Syncer == {Loop, Request}
Time == 0 .. MaxNow
Never == -1
Utc(time) == time - UtcAhead

VARIABLES
    now,       \* the local time
    source,    \* what the source lists
    changes,   \* how often the source and the list of feeds have changed
    feeds,     \* ti_feeds: every feed ever added, None when deleted
    looked,    \* requests that found no feed of this source and have not added theirs yet
    table,     \* stix_indicators: the UTC time a row was inserted at, None for no row
    purged,    \* ioc_retention_last_purge
    cut,       \* history: the latest cutoff of a purge
    sync,      \* what each syncer does
    renewed    \* history: the time of the last successful sync that brought an indicator

vars == <<now, source, changes, feeds, looked, table, purged, cut, sync, renewed>>

Row == [kind : {"list", "csv"}, on : BOOLEAN, last : Time \cup {Never}]
Busy == [pc : {"fetching", "refused", "stored"}, feed : 1 .. MaxFeed, at : Time,
         got : SUBSET Listed]
Idle == [pc |-> "idle"]

TypeOK ==
    /\ now \in Time /\ purged \in Time \cup {Never} /\ cut \in Int
    /\ source \subseteq Listed /\ changes \in 0 .. MaxChange
    /\ feeds \in Seq(Row \cup {None}) /\ Len(feeds) <= MaxFeed /\ looked \in 0 .. 2
    /\ table \in [Ioc -> {t - UtcAhead : t \in Time} \cup {None}]
    /\ sync \in [Syncer -> Busy \cup {Idle}]
    /\ renewed \in [Ioc -> Time \cup {Never}]

Init ==
    /\ now = 0 /\ source = Listed /\ changes = 0
    /\ feeds = <<>> /\ looked = 0
    /\ table = [i \in Ioc |-> None] /\ purged = Never /\ cut = Never
    /\ sync = [s \in Syncer |-> Idle] /\ renewed = [i \in Ioc |-> Never]

Exists(f) == f \in DOMAIN feeds /\ feeds[f] # None

-----------------------------------------------------------------------------
(* The world.                                                                *)

Tick ==
    /\ now < MaxNow /\ now' = now + 1
    /\ UNCHANGED <<source, changes, feeds, looked, table, purged, cut, sync, renewed>>

Change == changes < MaxChange /\ changes' = changes + 1

Publish(listing) ==
    /\ Change
    /\ listing # source /\ source' = listing
    /\ UNCHANGED <<now, feeds, looked, table, purged, cut, sync, renewed>>

-----------------------------------------------------------------------------
(* The routes of the feeds.                                                  *)

HasFeed == \E f \in DOMAIN feeds : Exists(f) /\ feeds[f].kind = "list"

\* api_ti_feeds: one feed for a fixed source; the row is added after the look.
LookForFeed ==
    /\ Change /\ looked < 2 /\ Len(feeds) + looked < MaxFeed /\ ~HasFeed
    /\ looked' = looked + 1
    /\ UNCHANGED <<now, source, feeds, table, purged, cut, sync, renewed>>

AddFeed ==
    /\ looked > 0 /\ looked' = looked - 1
    /\ feeds' = Append(feeds, [kind |-> "list", on |-> TRUE, last |-> Never])
    /\ UNCHANGED <<now, source, changes, table, purged, cut, sync, renewed>>

\* api_ti_feeds_upload_csv: the feed and its rows, once.
Upload ==
    /\ Change
    /\ Uploaded # {} /\ Len(feeds) + looked < MaxFeed
    /\ feeds' = Append(feeds, [kind |-> "csv", on |-> TRUE, last |-> now])
    /\ table' = [i \in Ioc |-> IF i \in Uploaded THEN Utc(now) ELSE table[i]]
    /\ renewed' = [i \in Ioc |-> IF i \in Uploaded THEN now ELSE renewed[i]]
    /\ UNCHANGED <<now, source, looked, purged, cut, sync>>

\* api_ti_feed_detail: the rows of a deleted feed stay.
Switch(f) ==
    /\ Change /\ Exists(f) /\ feeds' = [feeds EXCEPT ![f].on = ~@]
    /\ UNCHANGED <<now, source, looked, table, purged, cut, sync, renewed>>
DeleteFeed(f) ==
    /\ Change /\ Exists(f) /\ feeds' = [feeds EXCEPT ![f] = None]
    /\ UNCHANGED <<now, source, looked, table, purged, cut, sync, renewed>>

-----------------------------------------------------------------------------
(* A sync.                                                                   *)

\* sync_one: the feed is read and the time noted before anything is fetched.
Start(s, f) ==
    /\ sync[s] = Idle /\ Exists(f)
    /\ sync' = [sync EXCEPT ![s] =
          [pc |-> IF feeds[f].kind = "csv" THEN "refused" ELSE "fetching",
           feed |-> f, at |-> now, got |-> {}]]
    /\ UNCHANGED <<now, source, changes, feeds, looked, table, purged, cut, renewed>>

\* sync_due_feeds: the feeds that are switched on and whose interval has passed.
Due(f) ==
    /\ Exists(f) /\ feeds[f].on
    /\ feeds[f].last = Never \/ now - feeds[f].last >= Interval

\* Broken variant: a row that is there already is left alone.
Renewed_Ignore(i) == IF table[i] = None THEN Utc(now) ELSE table[i]
\* INSERT OR REPLACE: the row is written anew, with CURRENT_TIMESTAMP.
Renewed(i) == Utc(now)

\* What a sync brings: the indicators of a TAXII collection, an export of abuse.ch or a
\* list of one value per line, whole; or the events of OTX or MISP, where one that cannot
\* be read is left out and the time may run out.
InCollection == {source}
InExport == {source}
InList == {source}
InEvents == SUBSET source

\* It is stored in one transaction.
Store(s, got) ==
    /\ sync[s] # Idle /\ sync[s].pc = "fetching"
    /\ got \in InCollection \cup InExport \cup InList \cup InEvents
    /\ table' = [i \in Ioc |-> IF i \in got THEN Renewed(i) ELSE table[i]]
    /\ sync' = [sync EXCEPT ![s].pc = "stored", ![s].got = got]
    /\ UNCHANGED <<now, source, changes, feeds, looked, purged, cut, renewed>>

\* The feed, which may be gone, is told when the sync began, in a transaction of its own.
Told(s) == IF Exists(sync[s].feed) THEN [feeds EXCEPT ![sync[s].feed].last = sync[s].at]
           ELSE feeds
Settle(s) ==
    /\ sync[s] # Idle /\ sync[s].pc = "stored" /\ sync' = [sync EXCEPT ![s] = Idle]
    /\ feeds' = Told(s)
    /\ renewed' = [i \in Ioc |-> IF i \in sync[s].got THEN Max({sync[s].at, renewed[i]})
                                  ELSE renewed[i]]
    /\ UNCHANGED <<now, source, changes, looked, table, purged, cut>>

\* The source does not answer, or the feed is an uploaded file; nothing is stored.
Fail(s) ==
    /\ sync[s] # Idle /\ sync[s].pc # "stored" /\ sync' = [sync EXCEPT ![s] = Idle]
    /\ feeds' = Told(s)
    /\ UNCHANGED <<now, source, changes, looked, table, purged, cut, renewed>>

Dies(s) ==
    /\ sync[s] # Idle /\ sync' = [sync EXCEPT ![s] = Idle]
    /\ UNCHANGED <<now, source, changes, feeds, looked, table, purged, cut, renewed>>

-----------------------------------------------------------------------------
(* The purge.                                                                *)

\* The cutoff is a local time, compared with the UTC time of a row.
Purge(size) ==
    /\ table' = [i \in Ioc |-> IF table[i] # None /\ table[i] < now - size THEN None
                               ELSE table[i]]
    /\ purged' = now /\ cut' = Max({cut, now - size})
    /\ UNCHANGED <<now, source, changes, feeds, looked, sync, renewed>>

\* run_due_ioc_purge, once a day; and the button.
DailyPurge == Retention > 0 /\ (purged = Never \/ now - purged >= DayLength) /\ Purge(Retention)
PurgeByHand(size) == Purge(size)

Next ==
    \/ Tick \/ LookForFeed \/ AddFeed \/ Upload \/ DailyPurge
    \/ \E listing \in SUBSET Listed : Publish(listing)
    \/ \E f \in 1 .. MaxFeed : Switch(f) \/ DeleteFeed(f)
    \/ \E f \in 1 .. MaxFeed : Start(Request, f) \/ (Due(f) /\ Start(Loop, f))
    \/ \E s \in Syncer, got \in SUBSET Listed : Store(s, got)
    \/ \E s \in Syncer : Settle(s) \/ Fail(s) \/ Dies(s)
    \/ \E size \in Sizes : PurgeByHand(size)

Spec == Init /\ [][Next]_vars

-----------------------------------------------------------------------------
(* Properties.                                                               *)

\* "A resync refreshes it": what a successful sync brought is in the table as long as the
\* cutoff of no purge comes after the time that the feed says it was synced, taken to UTC:
\* on a host ahead of UTC a row goes earlier by the offset than its retention says.  It is
\* so whatever syncs overlap or die, and whether the feed is still there.
RenewedIsKept ==
    \A i \in Ioc : renewed[i] # Never /\ Utc(renewed[i]) >= cut => table[i] # None

\* "It's a single fixed public feed, so a second one would just duplicate".
OneFeedOfASource ==
    Cardinality({f \in DOMAIN feeds : Exists(f) /\ feeds[f].kind = "list"}) <= 1
=============================================================================
