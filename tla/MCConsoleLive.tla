---------------------------- MODULE MCConsoleLive ----------------------------
(* Instances for TLC of the parts of the console that must get something done: *)
(* as in MCConsole each behaviour is a behaviour of one part, with the fairness *)
(* that the part states.                                                       *)
EXTENDS Integers, Sequences, FiniteSets

CONSTANTS Request, Analyst, Worker, Sweeper, App, Host, Server, Slot, Orderly, None

VARIABLES
    part,      \* the part this behaviour is a behaviour of
    format, status, named, normOffset, commitOffset, raw, staged, cut, onDisk, stored,
    uncited, errors, aged, reaping, pc, seen,
    cases, last, opened, children, now, apc, readRow, breaching, silent, since, announced,
    nudged, everClosed, clashed,
    clock, cycle, collected, fetched, pending, batch, attempt, posts, logs, alert, lost,
    fails, crashes,
    contained, trouble, shown, order, probes, answer, outdated, claimed, quiet, alarmed,
    falseAlarm, ipc,
    online, polled, logged, checkDue, unresolved, hush, quietFor, twice, wpc, picked, deaths,
    count, verdicts, label, dispatched, stale, known, cred, spc, peer, pick, installed, conn,
    run, late, cancelReq, told, got, ran,
    logRows, logSeq, matches, cooled, times, aggAlerts, fileMark, torn, dpc, upTo, todo,
    found, tries, detectNow, backup, again, missed,
    created, outbox, enabled, runs, limits, trips, toggles, approval, revert, due, sweepPc,
    dueSeen, rowsSeen, verdict, served, acted, calledOff

Import == INSTANCE LogImport WITH
    Lines <- 2, MaxChunk <- 2, MaxStaged <- 3, MaxErrors <- 1, Formats <- {"ndjson", "whole"}
Desk == INSTANCE Cases WITH
    MaxCases <- 1, MaxNow <- 1, MaxReopen <- 1, Sla <- 0, StaleAfter <- 1
Spooling == INSTANCE AgentSpool WITH
    MaxNow <- 2, Suspicious <- {2}, Attempts <- 2, Spools <- TRUE, Cap <- 1, MaxFail <- 2,
    MaxCrash <- 1
Isolating == INSTANCE Isolation WITH
    Cooldown <- 1, MaxTrouble <- 1
Watching == INSTANCE Watch WITH
    TooLong <- 1, QuietBaseline <- 3, HushLength <- 1, MaxOffline <- 2, MaxDeaths <- 1
Commanding == INSTANCE AgentCommands WITH
    MaxPerHost <- 2, MaxTries <- 1, Label <- {"script", "uninstall"}, LegacyHost <- {},
    Timely <- TRUE, Trouble <- {"crash"}, Worker <- Server, status <- verdicts, pc <- spc
Detecting == INSTANCE Detection WITH
    MaxLog <- 2, MaxNow <- 0, MaxTries <- 2, Batch <- 1, PlainRule <- {"plain"},
    AggRule <- {}, Group <- {"group"}, Threshold <- 2, AggWindow <- 1,
    Trouble <- {"fail", "remove"}, rows <- logRows, seq <- logSeq, pc <- dpc,
    now <- detectNow, mark <- fileMark
Responding == INSTANCE Playbooks WITH
    MaxCase <- 1, Sweep <- Sweeper, MaxRuns <- 1, MaxToggles <- 0, Scheduled <- {<<1, 1>>}

importVars == <<format, status, named, normOffset, commitOffset, raw, staged, cut, onDisk,
                stored, uncited, errors, aged, reaping, pc, seen>>
casesVars == <<cases, last, opened, children, now, apc, readRow, breaching, silent, since,
               announced, nudged, everClosed, clashed>>
spoolVars == <<clock, cycle, collected, fetched, pending, batch, attempt, posts, logs, alert,
               lost, fails, crashes>>
isolationVars == <<contained, trouble, shown, order, probes, answer, outdated, claimed,
                   quiet, alarmed, falseAlarm, ipc>>
watchVars == <<online, polled, logged, checkDue, unresolved, hush, quietFor, twice, wpc,
               picked, deaths>>
commandsVars == <<count, verdicts, label, dispatched, stale, known, cred, spc, peer, pick,
                  installed, conn, run, late, cancelReq, told, got, ran>>
detectionVars == <<logRows, logSeq, matches, cooled, times, aggAlerts, fileMark, torn, dpc,
                   upTo, todo, found, tries, detectNow, backup, again, missed>>
playbooksVars == <<created, outbox, enabled, runs, limits, trips, toggles, approval, revert,
                   due, sweepPc, dueSeen, rowsSeen, verdict, served, acted, calledOff>>
vars == <<part, importVars, casesVars, spoolVars, isolationVars, watchVars, commandsVars,
         detectionVars, playbooksVars>>

Init ==
    /\ part \in {"import", "cases", "spool", "isolation", "watch", "commands", "detection",
              "playbooks"}
    /\ Import!ImportInit /\ Desk!Init /\ Spooling!SpoolInit /\ Isolating!IsolationInit
    /\ Watching!WatchInit /\ Commanding!CommandInit /\ Detecting!Init /\ Responding!Init
    /\ part # "import" => format = "ndjson"

\* Only the part of this behaviour moves.
Only_import == UNCHANGED <<part, casesVars, spoolVars, isolationVars, watchVars,
                  commandsVars, detectionVars, playbooksVars>>
Only_cases == UNCHANGED <<part, importVars, spoolVars, isolationVars, watchVars,
                 commandsVars, detectionVars, playbooksVars>>
Only_spool == UNCHANGED <<part, importVars, casesVars, isolationVars, watchVars,
                 commandsVars, detectionVars, playbooksVars>>
Only_isolation == UNCHANGED <<part, importVars, casesVars, spoolVars, watchVars,
                     commandsVars, detectionVars, playbooksVars>>
Only_watch == UNCHANGED <<part, importVars, casesVars, spoolVars, isolationVars,
                 commandsVars, detectionVars, playbooksVars>>
Only_commands == UNCHANGED <<part, importVars, casesVars, spoolVars, isolationVars,
                    watchVars, detectionVars, playbooksVars>>
Only_detection == UNCHANGED <<part, importVars, casesVars, spoolVars, isolationVars,
                     watchVars, commandsVars, playbooksVars>>
Only_playbooks == UNCHANGED <<part, importVars, casesVars, spoolVars, isolationVars,
                     watchVars, commandsVars, detectionVars>>

\* Of the requests about a case those that close and reopen it: an item that is added, or a
\* workflow that is set, has no say in a breach.
Saves ==
    /\ \A a \in Analyst : apc[a] # "add"
    /\ \A c \in DOMAIN cases : cases[c].workflow # "investigating"

Next ==
    \/ part = "import" /\ Import!ImportNext /\ Only_import
    \/ part = "cases" /\ Desk!Next /\ Saves' /\ Only_cases
    \/ part = "spool" /\ Spooling!SpoolNext /\ Only_spool
    \/ part = "isolation" /\ Isolating!IsolationNext /\ Only_isolation
    \/ part = "watch" /\ Watching!WatchNext /\ Only_watch
    \/ part = "commands" /\ Commanding!CommandNext /\ Only_commands
    \/ part = "detection" /\ Detecting!Next /\ Only_detection
    \/ part = "playbooks" /\ Responding!Next /\ Only_playbooks

Spec == Init /\ [][Next]_vars

\* The fairness of every part, as the part states it.
FairImport ==
    /\ WF_importVars(part = "import" /\ Import!Age)
    /\ WF_importVars(part = "import" /\ Import!ReapRead)
    /\ SF_importVars(part = "import" /\ Import!ReapDelete)

FairCases ==
    /\ WF_casesVars(part = "cases" /\ Desk!SlaSelect)
    /\ SF_casesVars(part = "cases" /\ Desk!SlaStampAll)

FairSpool ==
    /\ WF_spoolVars(part = "spool" /\ Spooling!Sleep)
    /\ WF_spoolVars(part = "spool" /\ Spooling!CollectLogs)
    /\ WF_spoolVars(part = "spool" /\ Spooling!Send)
    /\ WF_spoolVars(part = "spool" /\ Spooling!Delivered)
    /\ WF_spoolVars(part = "spool" /\ Spooling!IsRefused)
    /\ \A n \in Spooling!Post : WF_spoolVars(part = "spool" /\ Spooling!Store(n))

FairIsolation ==
    /\ WF_isolationVars(part = "isolation" /\ Isolating!Answer)
    /\ WF_isolationVars(part = "isolation" /\ Isolating!Interval)
    /\ \A w \in Worker : WF_isolationVars(part = "isolation" /\ Isolating!Verify(w))

FairWatch ==
    /\ WF_watchVars(part = "watch" /\ Watching!CheckIn)
    /\ WF_watchVars(part = "watch" /\ Watching!Tick)
    /\ \A s \in Sweeper : WF_watchVars(part = "watch" /\ Watching!Silence(s))
    /\ SF_watchVars(part = "watch" /\ \E s \in Sweeper : Watching!Presence(s))

FairCommands ==
    /\ \A h \in Host :
          WF_commandsVars(part = "commands" /\ \E w \in Server : Commanding!CheckIn(h, w))
    /\ \A w \in Server : WF_commandsVars(part = "commands" /\ Commanding!Serve(w))
    /\ \A c \in Commanding!CmdId :
          /\ WF_commandsVars(part = "commands" /\ Commanding!Age(c))
          /\ \A s \in Slot : WF_commandsVars(part = "commands" /\ Commanding!Proceed(c, s))
    /\ <>[][~(part = "commands" /\ Commanding!Misfortune)]_commandsVars

FairDetection == WF_detectionVars(part = "detection" /\ Detecting!Cycle)

FairPlaybooks ==
    /\ \A s \in Sweeper : WF_playbooksVars(part = "playbooks" /\ Responding!SweepStep(s))
    /\ <>[][~(part = "playbooks" /\ \E s \in Sweeper : Responding!SweepDies(s))]_playbooksVars

FairSpec ==
    /\ Spec
    /\ FairImport /\ FairCases /\ FairSpool /\ FairIsolation /\ FairWatch
    /\ FairCommands /\ FairDetection /\ FairPlaybooks

\* The liveness properties of the parts; the import that starts as uploaded is one
\* that must be settled, in its own part.
EventuallySettled == part = "import" => Import!EventuallySettled
EventuallyAnnounced == Desk!EventuallyAnnounced
EventuallyStored == Spooling!EventuallyStored
EventuallyAlarmed == Isolating!EventuallyAlarmed
EventuallyReported == Watching!EventuallyReported
EventuallyClosed == Commanding!EventuallyClosed
EventuallyCounted == Detecting!EventuallyCounted
EventuallySwept == Responding!EventuallySwept
==============================================================================
