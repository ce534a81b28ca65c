-------------------------------- MODULE Syncs --------------------------------
(* What the console fetches from outside, each source by a table of its own:   *)
(* the indicators of the feeds, the vulnerabilities, and the YARA rules, which *)
(* are copied file by file or swapped in as a whole.                           *)

CONSTANTS
    Listed, Uploaded, Loop, FeedRequest, DayLength, UtcAhead, Retention, Sizes, FeedInterval,
    LastDay, MaxFeed, MaxFeedChange,
    Cve, CveRequest, Recent, Entries, TopVersion, PageSize, BatchSize, MaxNews,
    MaxFails,
    RuleKey, RuleFile, PathIsKey, MaxVersion, MaxRelease, MaxSync,
    PackSyncer, MaxPack, MaxDie,
    None

VARIABLES
    feedDay, source, changes, feeds, looked, indicators, purged, purgedTo, feedSync, renewed,
    nvd, lastWeek, catalog, cveRecords, affected, kev, epss, failingFeeds, cveRequest,
    cveLock, nvdSaid, catalogs, nvdPage, muddledFeeds, cveNews, cveFails,
    release, packFiles, tracked, packSync, releases, syncs,
    final, stale, swapPc, extract, packs, alone, succeeded, swapDeaths

Feeding == INSTANCE Feeds WITH
    Request <- FeedRequest, Interval <- FeedInterval, MaxNow <- LastDay,
    MaxChange <- MaxFeedChange, now <- feedDay, sync <- feedSync, table <- indicators,
    cut <- purgedTo
Updating == INSTANCE CveSync WITH
    Request <- CveRequest, MaxVersion <- TopVersion, window <- lastWeek,
    records <- cveRecords, failing <- failingFeeds, request <- cveRequest, lock <- cveLock,
    said <- nvdSaid, page <- nvdPage, muddled <- muddledFeeds, fails <- cveFails,
    news <- cveNews
Copying == INSTANCE RulePack WITH
    Key <- RuleKey, File <- RuleFile, Syncer <- PackSyncer, disk <- packFiles, sync <- packSync
Swapping == INSTANCE PackSwap WITH
    Syncer <- PackSyncer, pc <- swapPc, deaths <- swapDeaths

SyncBounds ==
    /\ Feeding!FeedBounds /\ Updating!CveBounds
    /\ Copying!RulePackBounds /\ Swapping!PackSwapBounds
SyncsTypeOK ==
    Feeding!TypeOK /\ Updating!TypeOK /\ Copying!TypeOK /\ Swapping!TypeOK
SyncsSpec == Feeding!Spec /\ Updating!Spec /\ Copying!Spec /\ Swapping!Spec

\* What a successful sync has brought is there: an indicator until a purge reaches back
\* to that time; a vulnerability of a host, unless what is shown of the feed is a failure or
\* a sync that was not alone, or the CVE was beyond the page.
IntelKept == Feeding!RenewedIsKept /\ Updating!VulnerabilitiesTold

\* A sync of rules that runs by itself mends what others have left half done: "full
\* replace" of the copied files, and the staging directories of the pack.
RulesHeal == Copying!AllHeals /\ [](Swapping!PackStays /\ Swapping!Unhindered)
===============================================================================
