----------------------------- MODULE PlaybookRuns -----------------------------
(* What a playbook does when it runs: on its schedule, for every open case, or *)
(* for one case by hand.  Its actions are carried out one after the other; an  *)
(* action that fails does not stop the others.  Rows are written in a          *)
(* transaction that ends when the whole run is on record, mail and web calls   *)
(* leave at once, and a gated action becomes an approval.  (The rate limit and *)
(* what becomes of the approvals are in Playbooks; this playbook has no limit.) *)
EXTENDS Integers, Sequences, FiniteSets, TLC

CONSTANTS
    Sweep,    \* bound: requests that may run the playbook at the same time
    MaxCase,  \* bound: cases it is run for
    MaxRun,   \* bound: runs ever begun
    Lists,    \* the lists of actions an admin may give it
    Shaky     \* bound: the facts that may come and go

Case == 1 .. MaxCase
Run == 1 .. MaxRun

\* What each type of action looks up before a dry run is told what it would do ...
Needs ==
    "apply_template" :> {"template"} @@ "add_task" :> {"title"} @@ "add_note" :> {"text"} @@
    "set_queue" :> {"queue"} @@ "analyze_entity" :> {"entity"} @@
    "send_email" :> {"smtp", "recipient", "email_template"} @@
    "send_webhook" :> {"secret", "url"} @@ "send_slack" :> {"secret", "url"} @@
    "custom_webhook" :> {"custom_action", "secret", "url"} @@
    "isolate_host" :> {"confirmed"} @@ "restore_network" :> {"confirmed"} @@
    "collect_triage" :> {"confirmed"} @@ "quarantine_file" :> {"confirmed", "path"} @@
    "kill_scheduled_task" :> {"confirmed", "task_name"} @@
    "kill_process_by_name" :> {"confirmed", "pattern"} @@
    "revoke_user_credentials" :> {"account"}
ActionType == DOMAIN Needs

\* ... and what only a real run finds out.
Late(t) == CASE t = "isolate_host" -> {"address"}
             [] t = "kill_scheduled_task" -> {"windows"}
             [] OTHER -> {}

Outside == {"send_email", "send_webhook", "send_slack", "custom_webhook"}
Fact == UNION {Needs[t] \cup Late(t) : t \in ActionType}

\* An action of a list: its type, and whether it waits for an approval.
Action == [type : ActionType, gated : BOOLEAN]
PlaybookRunsBounds ==
    /\ MaxCase \in Nat \ {0} /\ MaxRun \in Nat /\ Shaky \subseteq Fact
    /\ \A l \in Lists : l \in Seq(Action) /\ l # <<>>

VARIABLES
    actions,   \* playbook_actions in their order, <<>> once the playbook is deleted
    enabled,   \* playbooks.enabled
    due,       \* its schedule_interval_minutes have passed since last_scheduled_run
    facts,     \* what the lookups of the actions find
    begun,     \* runs begun so far
    runs,      \* committed playbook_runs, with the results in the order of the actions
    runRows,      \* committed rows the n-th action of a run has written
    sent,      \* history: mail and web calls that have left, by run and action
    runPc, job, itsActions, casesLeft,  \* per request: why it runs, and what is left
    run, results,                       \* ... and the run it is in
    tx         \* per request: what it has written and not committed

Results == {"done", "skipped", "failed", "queued"}
Empty == [runs |-> {}, rows |-> {}]
RunRow == [id : Run, results : Seq(Results)]

book == <<actions, enabled, facts>>
runsVars == <<book, due, begun, runs, runRows, sent, runPc, job, itsActions, casesLeft,
              run, results, tx>>

RunsTypeOK ==
    /\ actions \in Lists \cup {<<>>} /\ enabled \in BOOLEAN /\ due \in BOOLEAN
    /\ facts \subseteq Fact /\ begun \in 0 .. MaxRun
    /\ runs \subseteq RunRow
    /\ runRows \subseteq Run \X Nat /\ sent \subseteq Run \X Nat
    /\ runPc \in [Sweep -> {"idle", "case", "act"}]
    /\ job \in [Sweep -> {"none", "scheduled", "by hand"}]
    /\ \A s \in Sweep : itsActions[s] \in Lists \cup {<<>>} /\ results[s] \in Seq(Results)
    /\ casesLeft \in [Sweep -> SUBSET Case] /\ run \in [Sweep -> 0 .. MaxRun]
    /\ \A s \in Sweep : tx[s].runs \subseteq RunRow /\ tx[s].rows \subseteq Run \X Nat

RunsInit ==
    /\ actions \in Lists /\ enabled = TRUE /\ due = FALSE /\ facts = Fact
    /\ begun = 0 /\ runs = {} /\ runRows = {} /\ sent = {}
    /\ runPc = [s \in Sweep |-> "idle"] /\ job = [s \in Sweep |-> "none"]
    /\ itsActions = [s \in Sweep |-> <<>>]
    /\ casesLeft = [s \in Sweep |-> {}] /\ run = [s \in Sweep |-> 0]
    /\ results = [s \in Sweep |-> <<>>] /\ tx = [s \in Sweep |-> Empty]

-----------------------------------------------------------------------------
(* One action: what a dry run says of it, and what it does.                   *)

Finds(t, F) == Needs[t] \subseteq F
Preview(t, F) == IF Finds(t, F) THEN "would" ELSE "skipped"
Outcomes(t, F) == IF Finds(t, F) /\ Late(t) \subseteq F THEN {"done", "failed"} ELSE {"skipped"}

\* An analysis and a mail server are asked over the network: nothing is locked until
\* the first row is written, and only one request writes at a time.
Writes(s) == tx[s] # Empty
MayWrite(s) == \A other \in Sweep \ {s} : ~Writes(other)

\* Broken variant: the action writes to the audit log, which commits.
Commits_Audited(t) == t \notin Outside
Commits(t) == FALSE

-----------------------------------------------------------------------------
(* The admin, and the clock.                                                  *)

\* PUT: the whole list is deleted and written again.
Rewrite(l) ==
    /\ actions # <<>> /\ actions' = l
    /\ \A s \in Sweep : ~Writes(s)
    /\ UNCHANGED <<enabled, facts, due, begun, runs, runRows, sent, runPc, job, itsActions,
                   casesLeft, run, results, tx>>

\* DELETE: the playbook, its actions and its runs; what they did stays.
DeletePlaybook ==
    /\ actions # <<>> /\ actions' = <<>> /\ enabled' = FALSE
    /\ \A s \in Sweep : ~Writes(s)
    /\ runs' = {}
    /\ UNCHANGED <<facts, due, begun, runRows, sent, runPc, job, itsActions, casesLeft,
                   run, results, tx>>

Toggle ==
    /\ actions # <<>> /\ enabled' = ~enabled
    /\ \A s \in Sweep : ~Writes(s)
    /\ UNCHANGED <<actions, facts, due, begun, runs, runRows, sent, runPc, job, itsActions,
                   casesLeft, run, results, tx>>

Change(f) ==
    /\ facts' = IF f \in facts THEN facts \ {f} ELSE facts \cup {f}
    /\ UNCHANGED <<actions, enabled, due, begun, runs, runRows, sent, runPc, job,
                   itsActions, casesLeft, run, results, tx>>

IntervalPasses ==
    /\ ~due /\ due' = TRUE
    /\ UNCHANGED <<book, begun, runs, runRows, sent, runPc, job, itsActions, casesLeft,
                   run, results, tx>>

-----------------------------------------------------------------------------
(* A run.                                                                     *)

RunAt(s, l) == runPc' = [runPc EXCEPT ![s] = l]
Take(s, C, why) ==
    /\ runPc[s] = "idle" /\ enabled
    /\ job' = [job EXCEPT ![s] = why]
    /\ casesLeft' = [casesLeft EXCEPT ![s] = C]
    /\ itsActions' = [itsActions EXCEPT ![s] = actions]
    /\ RunAt(s, "case")
    /\ UNCHANGED <<book, due, begun, runs, runRows, sent, run, results, tx>>

\* The sweep finds the playbook due and selects its cases; somebody runs it for one.
RunDue(s) == due /\ Take(s, Case, "scheduled")
ByHand(s, c) == Take(s, {c}, "by hand")

NextCase(s) ==
    /\ runPc[s] = "case" /\ casesLeft[s] # {} /\ begun < MaxRun
    /\ begun' = begun + 1
    /\ run' = [run EXCEPT ![s] = begun + 1]
    /\ results' = [results EXCEPT ![s] = <<>>]
    /\ RunAt(s, "act")
    /\ UNCHANGED <<book, due, runs, runRows, sent, job, itsActions, casesLeft, tx>>

Note(s, outcome) == results' = [results EXCEPT ![s] = Append(@, outcome)]

\* The next action: a row to approve, a call to the outside, or rows, of which a
\* failure leaves those written before it.
Act(s) ==
    LET n    == Len(results[s]) + 1
        a    == itsActions[s][n]
        here == <<run[s], n>>
        Row  == /\ MayWrite(s)
                /\ IF Commits(a.type)
                   THEN /\ runRows' = runRows \cup tx[s].rows \cup {here}
                        /\ runs' = runs \cup tx[s].runs
                        /\ tx' = [tx EXCEPT ![s] = Empty]
                   ELSE /\ tx' = [tx EXCEPT ![s].rows = @ \cup {here}]
                        /\ UNCHANGED <<runRows, runs>>
    IN  /\ runPc[s] = "act" /\ n <= Len(itsActions[s])
        /\ IF a.gated THEN Note(s, "queued") /\ Row /\ UNCHANGED sent
           ELSE \E outcome \in Outcomes(a.type, facts) :
                  /\ Note(s, outcome)
                  /\ \/ /\ outcome = "done" /\ a.type \in Outside
                        /\ sent' = sent \cup {here}
                        /\ UNCHANGED <<tx, runRows, runs>>
                     \/ /\ outcome \in {"done", "failed"} /\ a.type \notin Outside
                        /\ Row /\ UNCHANGED sent
                     \/ /\ outcome # "done"
                        /\ UNCHANGED <<sent, tx, runRows, runs>>
        /\ UNCHANGED <<book, due, begun, runPc, job, itsActions, casesLeft, run>>

\* playbook_runs and the event in the case's timeline.
Record(s) ==
    /\ runPc[s] = "act" /\ Len(results[s]) = Len(itsActions[s])
    /\ MayWrite(s)
    /\ tx' = [tx EXCEPT ![s].runs = @ \cup {[id |-> run[s], results |-> results[s]]}]
    /\ \E c \in casesLeft[s] :
         /\ \A d \in casesLeft[s] : c <= d
         /\ casesLeft' = [casesLeft EXCEPT ![s] = @ \ {c}]
    /\ RunAt(s, "case")
    /\ UNCHANGED <<book, due, begun, runs, runRows, sent, job, itsActions, run, results>>

Leave(s) ==
    /\ RunAt(s, "idle") /\ job' = [job EXCEPT ![s] = "none"]
    /\ itsActions' = [itsActions EXCEPT ![s] = <<>>]
    /\ casesLeft' = [casesLeft EXCEPT ![s] = {}]
    /\ run' = [run EXCEPT ![s] = 0] /\ results' = [results EXCEPT ![s] = <<>>]
    /\ tx' = [tx EXCEPT ![s] = Empty]

\* last_scheduled_run, if it ran on its schedule, and the commit.
Finish(s) ==
    /\ runPc[s] = "case" /\ casesLeft[s] = {} /\ MayWrite(s)
    /\ runs' = runs \cup tx[s].runs /\ runRows' = runRows \cup tx[s].rows
    /\ due' = (due /\ job[s] # "scheduled")
    /\ Leave(s)
    /\ UNCHANGED <<book, begun, sent>>

RunDies(s) ==
    /\ runPc[s] # "idle"
    /\ Leave(s)
    /\ UNCHANGED <<book, due, begun, runs, runRows, sent>>

RunsNext ==
    \/ \E l \in Lists : Rewrite(l)
    \/ DeletePlaybook \/ Toggle \/ IntervalPasses
    \/ \E f \in Shaky : Change(f)
    \/ \E s \in Sweep :
         \/ RunDue(s) \/ \E c \in Case : ByHand(s, c)
         \/ NextCase(s) \/ Act(s) \/ Record(s) \/ Finish(s) \/ RunDies(s)

RunsSpec == RunsInit /\ [][RunsNext]_runsVars

-----------------------------------------------------------------------------
(* Properties.                                                               *)

\* A run on record did what it says, and what a run wrote is on record with it:
\* whatever died, was rewritten or overlapped, nothing was recorded and not done, and
\* no task, command or approval stands without the run that made it.
RunsAreWhole ==
    /\ \A k \in runs : \A n \in DOMAIN k.results :
         k.results[n] \in {"done", "queued"} => <<k.id, n>> \in runRows \cup sent
    /\ actions # <<>> => \A x \in runRows : \E k \in runs : k.id = x[1]

\* "A 'would skip' reason is the real one": also what a dry run would do is what is done.
PreviewIsReal ==
    \A t \in ActionType : Preview(t, facts) = "would" => "skipped" \notin Outcomes(t, facts)
=============================================================================
