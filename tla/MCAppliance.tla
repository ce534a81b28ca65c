----------------------------- MODULE MCAppliance -----------------------------
(* Instances for TLC of the detection engine, the book of its rules, the runs   *)
(* of a playbook, the scripts on the endpoints and the migrations at the start  *)
(* of the workers: they share no state here, and each behaviour is a behaviour  *)
(* of one of them.                                                              *)
EXTENDS Detection, RuleBook, PlaybookRuns, HostScripts, TLC

CONSTANT Worker

Building == INSTANCE Migrations

\* Lists of actions; the allow lists that isolations are made with.
ActionLists ==
    {<<[type |-> "add_task", gated |-> FALSE], [type |-> "isolate_host", gated |-> TRUE]>>,
     <<[type |-> "send_webhook", gated |-> FALSE]>>}
IsolationLists == {{}, {"ingest"}, {"check-in", "ingest"}}

\* Every worker runs the migrations, and serves requests.
Symmetry == Permutations(Worker)

VARIABLES
    part,      \* the part this behaviour is a behaviour of
    area, db, writer, draft, at, saw, starts, deaths, failed

Starting == INSTANCE Startup WITH
    MaxStart <- 2, MaxDeath <- 1, Reported <- TRUE, Calls <- Building!AllCalls

ASSUME Bounds ==
    /\ RuleBookBounds /\ PlaybookRunsBounds /\ HostScriptsBounds
    /\ Starting!StartupBounds /\ Starting!RebuildsWell

detectionVars == <<rows, seq, matches, cooled, times, aggAlerts, mark, torn, pc, upTo, todo,
                   found, tries, now, backup, again, missed>>
startupVars == <<area, db, writer, draft, at, saw, starts, deaths, failed>>
ApplianceVars == <<part, detectionVars, rulesVars, runsVars, scriptsVars, startupVars>>

ApplianceInit ==
    /\ part \in {"detection", "windows", "rules", "runs", "scripts", "startup"}
    /\ Starting!Init
    /\ part # "startup" => area = "roles" /\ <<"ir_runbooks", "old wording">> \in db
    /\ Init /\ BookInit /\ RunsInit /\ ScriptsInit
    /\ part # "runs" => actions = <<[type |-> "send_webhook", gated |-> FALSE]>>
    /\ part # "scripts" => platform = "linux"

\* Only the part of this behaviour moves.
Only_detection == UNCHANGED <<part, rulesVars, runsVars, scriptsVars, startupVars>>
Only_rules == UNCHANGED <<part, detectionVars, runsVars, scriptsVars, startupVars>>
Only_runs == UNCHANGED <<part, detectionVars, rulesVars, scriptsVars, startupVars>>
Only_scripts == UNCHANGED <<part, detectionVars, rulesVars, runsVars, startupVars>>
Only_startup == UNCHANGED <<part, detectionVars, rulesVars, runsVars, scriptsVars>>

\* The engine is looked at twice.  Rows of all kinds, while no time passes and no rule
\* raises ...
AtOnce == now' = 0 /\ missed' = {}
\* ... and rows that only aggregation rules match, none of which is deleted, while the
\* clock runs and rules may raise.
Aggregating ==
    /\ \A i \in LogId : rows'[i] # None => rows'[i].hits \subseteq AggRule
    /\ \A i \in Present : rows'[i] # None

ApplianceNext ==
    \/ part = "detection" /\ Next /\ AtOnce /\ Only_detection
    \/ part = "windows" /\ Next /\ Aggregating /\ Only_detection
    \/ part = "rules" /\ BookNext /\ Only_rules
    \/ part = "runs" /\ RunsNext /\ Only_runs
    \/ part = "scripts" /\ ScriptsNext /\ Only_scripts
    \/ part = "startup" /\ Starting!Next /\ Only_startup

ApplianceSpec == ApplianceInit /\ [][ApplianceNext]_ApplianceVars

\* What the migrations promise: every table and column is there after the last start, seeds
\* that belong together arrive together, and the tables that are rebuilt keep their rows.
SchemaWhole ==
    [](part = "startup" => Starting!Upgraded /\ Starting!SeededWhole) /\ Starting!RowsKept
==============================================================================
