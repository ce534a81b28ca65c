------------------------------ MODULE MCConsole ------------------------------
(* Instances for TLC of the parts of the console that share no state: one run  *)
(* checks them side by side, each behaviour being a behaviour of one part.     *)
EXTENDS LogImport, Replay, Isolation, Watch, Retention, RiskMarks, AgentSpool, FileWatch,
        CaseEvidence, Syncs, CaseFile, Channels, Risk

\* The product versions that one CVE is about.
OneRange == [flat |-> 0, startInc |-> 0, startExc |-> 1, endInc |-> 3, endExc |-> 0]
OneEntry == {OneRange}

VARIABLE part   \* the part this behaviour is a behaviour of

ASSUME Bounds ==
    /\ ImportBounds /\ ReplayBounds /\ SpoolBounds /\ IsolationBounds /\ WatchBounds
    /\ RetentionBounds /\ RiskBounds /\ EvidenceBounds /\ FileWatchBounds
    /\ SyncBounds /\ CaseFileBounds /\ ChannelsBounds /\ HourlyBounds

casesVars == <<cases, last, opened, children, hour, deskPc, readRow, breaching, silent,
               since, announced, nudged, everClosed, clashed>>
cycleVars == <<cycleNow, cyclePc, cycleDue, cycleSettings, cycleToggles, cycleAlerts,
               cycleMark, cycleEvents, cycleCritical, cycleLastCase, cycleOpened>>
baselinesVars == <<subject, pastDays, today, critical, ran, runsToday, gaps, foundToday,
                   snapshot>>
feedsVars == <<feedDay, source, changes, feeds, looked, indicators, purged, purgedTo,
               feedSync, renewed>>
packVars == <<release, packFiles, tracked, packSync, releases, syncs>>
swapVars == <<final, stale, swapPc, extract, packs, alone, succeeded, swapDeaths>>
detailsVars == <<detail, caseOpen, details, detailEvents, confirmedFired, detailCall>>
channelsVars == <<channelFile, saveClashed, channelCall, wantedChannels, retiredChannels>>
policyVars == <<policyKind, desiredPolicy, policyInForce, policyMemory, toolPresent,
                installCooling, policyRun, policyDoubt, failedFor, policyChanges,
                policyTroubles>>
vulnsVars == <<nvd, lastWeek, catalog, cveRecords, affected, kev, epss, failingFeeds,
               cveRequest, cveLock, nvdSaid, catalogs, nvdPage, muddledFeeds, cveNews, cveFails>>
vars == <<part, importVars, replayVars, casesVars, spoolVars, isolationVars, watchVars,
         retentionVars, riskVars, cycleVars, baselinesVars, feedsVars, packVars, swapVars,
         evidenceVars, detailsVars, channelsVars, policyVars, filesVars, vulnsVars>>

Init ==
    /\ part \in {"import", "replay", "cases", "spool", "isolation", "watch", "retention",
              "risk", "cycle", "baselines", "feeds", "pack", "swap", "evidence", "details",
              "channels", "policy", "files", "vulns", "scores", "saves"}
    /\ ImportInit /\ ReplayInit /\ Desk!Init /\ SpoolInit
    /\ IsolationInit /\ WatchInit /\ RetentionInit /\ RiskInit
    /\ Cycling!Init /\ Judging!Init /\ Feeding!Init /\ Copying!Init
    /\ Swapping!Init /\ EvidenceInit /\ Detailing!Init /\ Choosing!Init
    /\ Applying!Init /\ FimInit /\ Updating!Init
    /\ part # "import" => format = "ndjson"
    /\ part # "baselines" => subject = "volume"
    /\ part = "baselines" \/ critical = {}
    /\ part # "details" => detail = "asset"
    /\ part # "policy" => policyKind = "auditd" /\ desiredPolicy = "p1" /\ toolPresent

\* Only the part of this behaviour moves.
Only_import == UNCHANGED <<part, replayVars, casesVars, spoolVars, isolationVars, watchVars,
                           retentionVars, riskVars, cycleVars, baselinesVars, feedsVars,
                           packVars, swapVars, evidenceVars, detailsVars, channelsVars,
                           policyVars, filesVars, vulnsVars>>
Only_replay == UNCHANGED <<part, importVars, casesVars, spoolVars, isolationVars, watchVars,
                           retentionVars, riskVars, cycleVars, baselinesVars, feedsVars,
                           packVars, swapVars, evidenceVars, detailsVars, channelsVars,
                           policyVars, filesVars, vulnsVars>>
Only_cases == UNCHANGED <<part, importVars, replayVars, spoolVars, isolationVars, watchVars,
                          retentionVars, riskVars, cycleVars, baselinesVars, feedsVars,
                          packVars, swapVars, evidenceVars, detailsVars, channelsVars,
                          policyVars, filesVars, vulnsVars>>
Only_spool == UNCHANGED <<part, importVars, replayVars, casesVars, isolationVars, watchVars,
                          retentionVars, riskVars, cycleVars, baselinesVars, feedsVars,
                          packVars, swapVars, evidenceVars, detailsVars, channelsVars,
                          policyVars, filesVars, vulnsVars>>
Only_isolation == UNCHANGED <<part, importVars, replayVars, casesVars, spoolVars, watchVars,
                              retentionVars, riskVars, cycleVars, baselinesVars, feedsVars,
                              packVars, swapVars, evidenceVars, detailsVars, channelsVars,
                              policyVars, filesVars, vulnsVars>>
Only_watch == UNCHANGED <<part, importVars, replayVars, casesVars, spoolVars, isolationVars,
                          retentionVars, riskVars, cycleVars, baselinesVars, feedsVars,
                          packVars, swapVars, evidenceVars, detailsVars, channelsVars,
                          policyVars, filesVars, vulnsVars>>
Only_retention == UNCHANGED <<part, importVars, replayVars, casesVars, spoolVars,
                              isolationVars, watchVars, riskVars, cycleVars, baselinesVars,
                              feedsVars, packVars, swapVars, evidenceVars, detailsVars,
                              channelsVars, policyVars, filesVars, vulnsVars>>
Only_risk == UNCHANGED <<part, importVars, replayVars, casesVars, spoolVars, isolationVars,
                         watchVars, retentionVars, cycleVars, baselinesVars, feedsVars,
                         packVars, swapVars, evidenceVars, detailsVars, channelsVars,
                         policyVars, filesVars, vulnsVars>>
Only_cycle == UNCHANGED <<part, importVars, replayVars, casesVars, spoolVars, isolationVars,
                          watchVars, retentionVars, riskVars, baselinesVars, feedsVars,
                          packVars, swapVars, evidenceVars, detailsVars, channelsVars,
                          policyVars, filesVars, vulnsVars>>
Only_baselines == UNCHANGED <<part, importVars, replayVars, casesVars, spoolVars,
                              isolationVars, watchVars, retentionVars, riskVars, cycleVars,
                              feedsVars, packVars, swapVars, evidenceVars, detailsVars,
                              channelsVars, policyVars, filesVars, vulnsVars>>
Only_feeds == UNCHANGED <<part, importVars, replayVars, casesVars, spoolVars, isolationVars,
                          watchVars, retentionVars, riskVars, cycleVars, baselinesVars,
                          packVars, swapVars, evidenceVars, detailsVars, channelsVars,
                          policyVars, filesVars, vulnsVars>>
Only_pack == UNCHANGED <<part, importVars, replayVars, casesVars, spoolVars, isolationVars,
                         watchVars, retentionVars, riskVars, cycleVars, baselinesVars,
                         feedsVars, swapVars, evidenceVars, detailsVars, channelsVars,
                         policyVars, filesVars, vulnsVars>>
Only_swap == UNCHANGED <<part, importVars, replayVars, casesVars, spoolVars, isolationVars,
                         watchVars, retentionVars, riskVars, cycleVars, baselinesVars,
                         feedsVars, packVars, evidenceVars, detailsVars, channelsVars,
                         policyVars, filesVars, vulnsVars>>
Only_evidence == UNCHANGED <<part, importVars, replayVars, casesVars, spoolVars,
                             isolationVars, watchVars, retentionVars, riskVars, cycleVars,
                             baselinesVars, feedsVars, packVars, swapVars, detailsVars,
                             channelsVars, policyVars, filesVars, vulnsVars>>
Only_details == UNCHANGED <<part, importVars, replayVars, casesVars, spoolVars,
                            isolationVars, watchVars, retentionVars, riskVars, cycleVars,
                            baselinesVars, feedsVars, packVars, swapVars, evidenceVars,
                            channelsVars, policyVars, filesVars, vulnsVars>>
Only_channels == UNCHANGED <<part, importVars, replayVars, casesVars, spoolVars,
                             isolationVars, watchVars, retentionVars, riskVars, cycleVars,
                             baselinesVars, feedsVars, packVars, swapVars, evidenceVars,
                             detailsVars, policyVars, filesVars, vulnsVars>>
Only_policy == UNCHANGED <<part, importVars, replayVars, casesVars, spoolVars, isolationVars,
                           watchVars, retentionVars, riskVars, cycleVars, baselinesVars,
                           feedsVars, packVars, swapVars, evidenceVars, detailsVars,
                           channelsVars, filesVars, vulnsVars>>
Only_files == UNCHANGED <<part, importVars, replayVars, casesVars, spoolVars, isolationVars,
                          watchVars, retentionVars, riskVars, cycleVars, baselinesVars,
                          feedsVars, packVars, swapVars, evidenceVars, detailsVars,
                          channelsVars, policyVars, vulnsVars>>
Only_vulns == UNCHANGED <<part, importVars, replayVars, casesVars, spoolVars, isolationVars,
                          watchVars, retentionVars, riskVars, cycleVars, baselinesVars,
                          feedsVars, packVars, swapVars, evidenceVars, detailsVars,
                          channelsVars, policyVars, filesVars>>

\* The vulnerability feeds in two parts: syncs that overlap, but none of scores; and scores
\* too, but one sync of a feed at a time, and one CVE at a time in the week and the catalog.
NoScores == \A r \in CveRequest : cveRequest[r].feed # "epss"
OneAlone ==
    /\ \A q, r \in CveRequest :
          cveRequest[q].feed = cveRequest[r].feed /\ q # r => cveRequest[q].feed = "none"
    /\ Cardinality(lastWeek \cup catalog) <= 1

\* A case in two parts as well: requests of every kind, one at a time; and saves that
\* overlap, of those that close and reopen it, without a silence.
OneRequest == \A a, b \in Analyst : a = b \/ deskPc[a] = "idle" \/ deskPc[b] = "idle"
Saves ==
    /\ \A a \in Analyst : deskPc[a] # "add"
    /\ silent = {} /\ \A c \in DOMAIN cases : cases[c].workflow # "investigating"

\* The spool meets four failures, or a restart among up to three.
FewTroubles == fails + crashes <= MaxFail

\* The file of channels is not followed beyond a clash: from there on it need not say what
\* was saved.
Next ==
    \/ part = "import" /\ ImportNext /\ Only_import
    \/ part = "replay" /\ ReplayNext /\ Only_replay
    \/ part = "cases" /\ Desk!Next /\ OneRequest' /\ Only_cases
    \/ part = "saves" /\ Desk!Next /\ Saves' /\ Only_cases
    \/ part = "spool" /\ SpoolNext /\ FewTroubles' /\ Only_spool
    \/ part = "isolation" /\ IsolationNext /\ Only_isolation
    \/ part = "watch" /\ WatchNext /\ Only_watch
    \/ part = "retention" /\ RetentionNext /\ Only_retention
    \/ part = "risk" /\ RiskNext /\ Only_risk
    \/ part = "cycle" /\ Cycling!Next /\ Only_cycle
    \/ part = "baselines" /\ Judging!Next /\ Only_baselines
    \/ part = "feeds" /\ Feeding!Next /\ Only_feeds
    \/ part = "pack" /\ Copying!Next /\ Only_pack
    \/ part = "swap" /\ Swapping!Next /\ Only_swap
    \/ part = "evidence" /\ EvidenceNext /\ Only_evidence
    \/ part = "details" /\ Detailing!Next /\ Only_details
    \/ part = "channels" /\ ~saveClashed /\ Choosing!Next /\ Only_channels
    \/ part = "policy" /\ Applying!Next /\ Only_policy
    \/ part = "files" /\ FimNext /\ Only_files
    \/ part = "vulns" /\ Updating!Next /\ NoScores' /\ Only_vulns
    \/ part = "scores" /\ Updating!Next /\ OneAlone' /\ Only_vulns

Spec == Init /\ [][Next]_vars

\* The properties are those of the modules this one extends: they hold in every state, as
\* the variables of a part are untouched in the behaviours of the others.
TypeOK ==
    /\ part = "import" => ImportTypeOK
    /\ part = "replay" => ReplayTypeOK
    /\ part \in {"cases", "saves"} => Desk!TypeOK
    /\ part = "spool" => SpoolTypeOK
    /\ part = "isolation" => IsolationTypeOK
    /\ part = "watch" => WatchTypeOK
    /\ part = "retention" => RetentionTypeOK
    /\ part = "risk" => RiskTypeOK
    /\ part = "cycle" => Cycling!TypeOK
    /\ part = "baselines" => Judging!TypeOK
    /\ part = "feeds" => Feeding!TypeOK
    /\ part = "pack" => Copying!TypeOK
    /\ part = "swap" => Swapping!TypeOK
    /\ part = "evidence" => EvidenceTypeOK
    /\ part = "details" => Detailing!TypeOK
    /\ part = "channels" => Choosing!TypeOK
    /\ part = "policy" => Applying!TypeOK
    /\ part = "files" => FimTypeOK
    /\ part \in {"vulns", "scores"} => Updating!TypeOK
==============================================================================
