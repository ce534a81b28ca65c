# Micro-DFIR: a verification project

TLA+ models of the Micro-DFIR appliance, model-checked with TLC and, where the
result should hold for every size of the system, proved with TLAPS.  Paths are
relative to the repository root as `src/...` (so the Python application is
`src/src/*.py`, the endpoint agents are `src/agents/*.py`).

`PROJECT.json` is the index: which module models which part, the run of every
property, the code lines every definition stands for, the hazards, the findings
and the theorems.

## 1. The system

Micro-DFIR is one appliance: a Flask application (`src/src/app.py`) under gunicorn
worker processes with threads, a detection engine in a process of its own
(`src/src/sigma_engine.py`, whose loop also requests the console's periodic sweeps), the
hourly risk cycle of `ueba_engine.py` and the nightly archive, which cron starts
(`src/install.sh:60`), small services (DNS forwarder, archive, backup), one SQLite database
they all share, and agents on the endpoints.  Almost every hard question comes from
one fact: the parts share state only through the database and a few files; each
request reads in autocommit mode before its first write takes SQLite's write lock, and
what was read earlier may be stale by the time it is used.

| Part | State it keeps | Operations | Talks to | What is hard | What makes it correct |
|---|---|---|---|---|---|
| EDR command queue (`app.py`) | `agent_commands`, `agent_polls`, `agent_tokens` | queue one / a group, cancel, poll, result, delete agent | agents, by polling | overlapping polls of one agent, lost answers, cancels in between | no invented verdict; order of first delivery; one-shot commands once; closed stays closed; everything ends |
| Agents: execution | daemon threads, install directory | run script, report ×3, upgrade, uninstall | the queue | restarts kill executions; a post that timed out may still arrive | as above, seen from the endpoint |
| Agents: collection | spool (in memory), file baseline, remembered policy | collect, send, retry, watch files, apply logging policy | ingest, check-in | lost acknowledgements; a cap; no spool on macOS; steps that fail or are cut off | nothing lost below the cap where there is a spool; a change is told; what is remembered is in force |
| Ingest | `live_logs`, alerts | store a batch, inline heuristics | agents, SOAR | one commit in the middle of a batch | stored exactly or answered with an error |
| Detection engine | `sigma_state.json`, `sigma_aggregation_*`, alerts, rules | cycle, prune, edit and import rules | database, SOAR over HTTP | watermark outside the database, crashes between its commits | no row skipped; counted twice only after a failure; alerts earned; edits remembered |
| SOAR playbooks | `playbooks`, `playbook_runs`, `playbook_approvals`, `playbook_pending_reverts`, `case_playbook_outbox` | run, rate limit, approve, schedule and cancel reverts, drain | cases, command queue | overlapping sweeps, an operator acting between a sweep's read and write | decided once; no dangling revert; no case forgotten; limit; runs are whole |
| Script library (`agent_scripts.py`) | the endpoint's firewall, files | isolate, restore, verify, block, quarantine | the queue | any step of many may fail | the answer is true of the host |
| Isolation verification, offline and silence | `agent_offline_alerts`, settings stamps | claim, judge, escalate | command queue | overlapping sweeps; a verdict older than the isolation | probes do not stack; told once; reported in the end |
| Cases | `cases`, parts, files, timeline | create, save whole row, add and remove parts, attach, close, SLA sweep | SOAR, detection, retention | lost updates; files beside rows | no close forgotten; breaches announced; evidence and its trail agree |
| Log import and replay | `imports`, staged file, offsets | upload, normalize, commit chunk, replay chunk, reap | detection | offset compare-and-swap, file removed before commit | every row once, every rule once |
| UEBA and risk scoring | points, marks, baselines | score, converge, prioritise, open cases | detection, command results | runs that die; ids completed out of order; decay | each row scored once; bonuses and cases not stacked |
| Feeds, rule packs, vulnerabilities | indicator tables, files of rules, `cve_*` | fetch, store, expire, purge, swap, match | public servers | overlapping and dying syncs, failure after half the writes, local and UTC times, pages | what a source lists stays; a full sync heals |
| Archive, backup, restore, retention | copies, archive tables | move old rows, purge, put back | every service | rows under legal hold; files outside the database | evidence of an open case is found |
| Start of the service | schema, seeds | ~100 migrations, run by every worker | – | workers race, statements fail half-way | the schema is complete; rows are kept |
| Users, roles, sessions | `users`, roles | sign in, edit, revoke | every route | an edit of the last administrator | an administrator is left |
| DNS forwarder (`dns_server.py`) | queue, flush thread | forward, log | ingest tables | queue at its limit | a query is answered whether or not it is logged |
| Reports, notifications, enrichment, static data, templates | none that others act on | format, call out | – | – | – |

`PROJECT.json` lists all parts ("components"), the ones not modelled with the reason.

## 2. The plan, and where it stands

1. **AgentCommands** – commands act on endpoints.  *Modelled, checked, proved.*
2. **Detection** – the engine must not skip evidence.  *Modelled, checked, its
   watermark, its counts and its alerts proved.*
3. **Playbooks**, **PlaybookRuns** – automated response with a human gate.  *Modelled,
   checked, proved.*
4. **LogImport** implementing **Transfer**, **Replay**.  *Modelled, checked, proved: the
   refinement, the rows a complete import has, and the replay.*
5. **Cases**, **CaseEvidence**, **CaseParts**.  *Modelled, checked, proved.*
6. **AgentSpool**, **FileWatch**, **LogChannels**, **ChannelPolicy**: what an endpoint
   logs and ships.  *Modelled, checked, proved.*
   **Retention**.  *Modelled, checked, proved.*
7. **Isolation**, **Watch**, **HostScripts**.  *Modelled, checked, proved.*
8. **RiskMarks**, **RuleBook**, **RiskCycle**, **Feeds**, **RulePack**, **PackSwap**,
   **CveSync**.  *Modelled, checked, proved.*
   **Baselines**.  *Modelled, checked, proved.*
   **Facts**, **Migrations**, **Startup**.  *Modelled, checked.*
9. Open: users and roles, the DNS forwarder, warning lists and actor profiles, reports.

What is left to prove is listed at the end of section 9, with the reason.

The runs are few because most parts share no state.  `MCConsole`, `MCConsoleLive`,
`MCAppliance` and `MCResponse` are *sums*: the variable `part` names a component, initially any, and every
step is a step of that component that leaves everything else as it was.  A behaviour of
the sum is a behaviour of one component, so a run of the sum checks each of them with
the bounds given in the module; nothing is claimed of their interaction there, and
where two components do interact the module of one has the other's relevant steps in
it (Detection has ingest, purge and archive; Retention has the case; Playbooks has the
cases it is run for).  **Syncs** (Feeds, CveSync, RulePack, PackSwap), **CaseFile** (Cases,
CaseParts), **Channels** (LogChannels, ChannelPolicy) and **Risk** (RiskCycle, Baselines) put
components of one subject together: each declares their variables, instantiates them
under a name, and states the bounds, the specification and the property of the whole.  The
sums and the proof modules EXTEND the same modules, so that the property a run checks is the
very definition a theorem states.

## 3. The command queue and its agents

**AgentCommands.**  Rows `agent_commands` are named `<<host, n>>`: the code only compares
the ids of rows of one host.  A poll (`agent_config`) is a worker process `w` with a
program counter: `CheckIn` (authentication, and the binding of a fresh token),
`PollRequeue` (records the poll, puts back what was sent more than five minutes ago),
`PollSelect` / `PollEmpty`, `PollMark` (the UPDATE by id, and the revocation of the token
for an uninstall), then the response, which the agent receives (`Receive...`), or not
(`Discard`).  An agent stops waiting at any moment (`HangUp`), so it may be served by two
workers at once.  Executions are slots `run[c][s]`: exec, report, await, with `MaxTries`
posts; a post that timed out may stay on its way (`late`) and arrive after anything
else.  `CancelRead` / `CancelWrite` are the two statements of a cancellation.  `stale`
replaces `sent_at`: `Age` says that five minutes passed.

Abstractions: a script is its exit code; an execution that times out is a failure; an
upgrade whose source is missing on the server falls through to `run_script` in the code
and is left out; result posts authenticated with the token of an earlier installation
are taken for late posts.  `got`, `ran`, `told` are history variables.  A row inserted
while a worker is between SELECT and UPDATE cannot be older than the row it holds.

Checked in `response`, in two parts: `command` (1 row of any label, 2 workers, 2
executions at once, all of `AnyTrouble`: `VerdictBacked`, `FireAndForgetOnce`,
`QuietIsFinal`) and `orders` (2 script rows, 2 workers, crashes: `FirstDispatchInOrder`); and in
`console_live` (`EventuallyClosed`).  Hosts share nothing but the workers, and the workers hold
no state of a host between polls, so one host shows the races; two workers are the
smallest number of overlapping polls, two slots of overlapping executions, two rows the
smallest queue with an order.  One attempt to report stands for three: after the last
one the result is dropped, and the run reaches that point.  The proofs lift all of
these bounds.

**HostScripts.**  The endpoint as a set of facts (block rules, allow rules, default action, the
unit that restores the firewall at a boot, the file, its manifest), and the scripts of
`agent_scripts.py` on Windows, Linux and macOS as sequences of commands, each with what it
needs, makes and removes, and what happens when it fails: go on, warn, roll back, give up.
The agent or the host may go down between two commands, and what a reboot keeps differs per
platform.  `AnswersAreTrue` says that an answer holds of the host, whatever was there before.
`passed` counts the commands a script has behind it.  Scripts run one at a time; overlapping ones, and the wording of outputs, are left out.

## 4. Detection

**Detection.**  One cycle of `run_detection_cycle` is `CycleStart` (the batch `(mark, upTo]`),
one `EvaluateRule` or `RuleFails` per rule, `WriteBatch` (the transaction with alerts and
aggregation matches), `CheckThresholds` (the second transaction), `OpenState` (the
truncating `open`), `SaveMark` (the `json.dump`); `CycleFails` is a crash or an exception
between any two of them.  Meanwhile rows are ingested, removed (purge and archive), time
passes, and `Prune` deletes old matches and markers.  `TakeBackup` and `Restore` are only
part of `RestoreSpec`, which a finding uses: with a restore the engine's promise is broken.

Abstractions: a row is its group and the rules it matches; the merge of a repeated alert
within 15 minutes is abstracted to `times`, how often a row is counted for a rule; all
aggregation rules share one timeframe and the operator `>=`; the minimal retention of a
day is dropped, leaving the harder case of twice the timeframe.

A rule that raises on a batch is printed, and the mark leaves the batch behind: the engine
accepts that.  The history variable `missed` has the rows a rule did not count because it
raised, until the rule is run over them again after a failed cycle; `NothingSkipped` says that
a row behind the mark was counted for each rule it matches, or is one of those.

Checked in `appliance`, in two parts on the same variables: `detection` (1 plain and 1
aggregation rule, 3 rows, batches of 2, failing cycles, deletions, a torn state file) and
`windows` (1 aggregation rule that may raise, threshold 2, timeframe 1, 4 clock values); both
check `NothingSkipped`, `CountedOnce` and `AlertsEarned`, that is `ThresholdEarned` and
`CountedInOneAlert`.  In `console_live` (1 plain rule, 2 rows): `EventuallyCounted`.  Three rows
with batches of two give a full batch, a partial one and a batch with gaps; a threshold of two
and a timeframe of one let an alert be raised, cool down, be pruned and be raised again;
`MaxTries = 2` lets every batch fail once anywhere.

**RuleBook.**  The rows of `sigma_rules` with their text, the text they came with
(`original_yaml`), the newest of SigmaHQ's, and the history table.  Requests read a rule
(`Look`) and write later; an import of a release looks each rule up – the first one before its
transaction begins, the others inside it – and updates or inserts it.  `EditsRemembered`: a text somebody wrote is the rule's text or in its history.

## 5. Playbooks

**Playbooks.**  One playbook on `case_created` with a gated isolation.  A case opened by hand
runs it in its own transaction (`CreateByHand`); one opened by the engine leaves an outbox
row (`CreateByEngine`).  A sweep `s` is the handler behind
`/api/internal/run-scheduled-playbooks`: `ReadReverts`, `QueueReverts`, `ReadOutbox`,
`CheckFirst`, `DrainOutbox`.  The engine gives up waiting for a slow sweep after 120 seconds and
requests another, so sweeps overlap, and any may die (`SweepDies`).  A read outside a
transaction is a step of its own; from the first write to the commit a request holds
SQLite's write lock, which makes it one step.  The first outbox row's rate check is therefore
a separate read (`CheckFirst`), the checks for later rows are part of `DrainOutbox`.

Abstractions: one host per case; time is `due` (a revert's hour has come) and `RunsAge` (a
run leaves the hour); what an approved action does on the endpoint is AgentCommands' matter.
An approved isolation that was skipped because no server address is known still
schedules its revert in the code (`app.py:10802`), and so it does here.

Checked in `response` (2 cases, 2 sweeps, 1 run an hour, switched on again once: `DecidedOnce`,
`NoDanglingRevert`, `NoCaseForgotten`, `RateBound`) and in `console_live` (1 case:
`EventuallySwept`).  Two sweeps are the smallest overlap, two cases the smallest outbox with a
first and a later row; `Scheduled` limits how many isolations may be scheduled to be reverted to
the first.  An outbox row drained by two sweeps queues two approvals, so there are as many
copies of an approval as sweeps: `Copy`.

**PlaybookRuns.**  What one run does: its actions one after the other, each with what it
looks up, the row it writes in the run's transaction, the mail or web call that leaves at once,
or the approval that a gated one becomes; runs by schedule (`RunDue`, for every open case) and
by hand; the playbook rewritten, switched and deleted meanwhile; requests that die.
`RunsAreWhole`: what a run on record says it did was done, and no row stands without its run.

## 6. The console

Each section names the property that a run checks and what it rests on; the modules carry
further properties, not checked, that quote the code and do not hold (section 11).

**LogImport, Transfer, Replay.**  Requests of a wizard normalize an upload chunk by chunk into a
staging file and commit the file chunk by chunk into `imported_logs`: read the row, work on
the files, update the row if the offset is still the one read.  Requests overlap and die, the
import is deleted or reaped after 48 hours.  Transfer says what an import promises – rows only
come, go all at once with the import, and none comes after – and LogImport implements it
(`TransferSpec`).  `StoredWhole`: what is in the log is a beginning of the staged file, no
line more often than it was staged, and complete means all of it: a line has its row, or is one
that cannot be read and has its error, unless the errors kept are at their cap (`MaxErrors`, 1000 in
the code; the lines past it are only counted).  `ReplayedAll`: a replay shown
as complete has run every enabled rule over the import, whichever tabs raced, as long as nobody
switches a rule.  `EventuallySettled`: no import stays half done.  With
`Orderly = TRUE` the wizard commits when all normalizing has ended, as the page does.

**Cases.**  A save reads the case, decides what changed and writes the whole row back
(`api_case_detail`); items are added after a look at the status; the sweep selects breaching
and silent cases and then stamps each by its id.  Requests overlap,
and a save can write over another one's close or reopen: `clashed` has the cases this has happened
to, by comparing what was read with what is written over.  `CloseRemembered`: a case that was
closed keeps one of its closing times, unless it has clashed.  `EventuallyAnnounced`: an open case
past its hours is announced, closed first, or has clashed: a save that reopens a case it has read
as open writes the old stamp back, and no sweep announces that case again
(`AnnouncedWhateverClashes` is the claim without the exception, and fails).

**CaseEvidence, CaseParts.**  Attachments are a row, a file and timeline entries; uploads,
downloads (which compare the hash), removals and the deletion of the case overlap and stop anywhere.
`EvidenceHeld`: the timeline, the tables and the disk agree on the evidence.  Parts are hosts,
tasks, indicators and links; `CaseTold`, which also has `CloseRemembered` in it: a confirmed host has
its stamp, its entry and its playbooks; every coming and going of a part is on the timeline.

**Retention.**  A row is moved by the nightly archive, removed by the purge or by hand; a case
links it, holds it, and shows it from whichever table has it, by two reads.  `EvidenceFound`:
what the hold of an open case has covered is there to be shown.

**AgentSpool.**  Collection since the last cycle, prepending of what failed, three attempts, the
cap, restarts; the server's transaction that commits early when an entry opens an alert; late
requests and lost answers.  `DeliveredOrHeld`, `EventuallyStored`.

**FileWatch, LogChannels, ChannelPolicy.**  The baseline is saved, then the events are shipped;
files are written at any step.  A batch without an answer is held on Linux and Windows, up to the
cap of the spool, which drops the oldest, and is gone on macOS, which posts once: `ShipFails` may
drop any of its events.  The file of channels is read whole and written whole, emptied first,
by requests and check-ins that overlap: `clashed` says that one wrote over what it had not read, or
was killed when it had emptied the file.  The endpoint remembers what it applied, on overlapping
threads on Windows, with commands that fail seen (a Windows command that is cut off after ten
seconds, a failing augenrules) or unseen (an exit code of auditpol).  `ChangesTold`: after a
check the server was, or will be, told of what is in each watched file, unless it was not
readable, has been written since, or its last event or its baseline is lost – with the agent, with
a batch on macOS, or over the cap.  `NothingLost`, the claim without the last exception, fails.
`ChannelsFollow`: what was saved last is in the file unless requests clashed, and what is
remembered as applied is in force, a failure is not.

**Isolation, Watch.**  Sweeps of several workers claim an interval by a compare-and-swap on a
settings row, then look and act in further steps.  `NoStackedProbes`, `EventuallyAlarmed`;
`SilenceToldOnce`, `EventuallyReported`.  The sweep for offline agents has no claim; the module
lets it overlap.

**RiskMarks, RiskCycle, Baselines.**  Each source is scored from its own mark in one
transaction; a cycle is a series of transactions that may end between any two; switches change
between them.  `ScoredExactlyOnce`: no row twice, and none of a source whose rows are there with
their ids left out.  `RiskEarned`: cases, convergence bonuses and chain bonuses are not stacked within
their windows (`NeverStacked`); and what the code calls noise – one past spike day, repeated connections, what every
host runs – hides nothing and makes nothing stand out.

**Feeds, CveSync.**  Rows carry the UTC time of their insertion, while purges and intervals go by
local time, `UtcAhead` units ahead of it (or behind): on a host ahead of UTC a renewed row is purged
earlier by that much.  A sync of NVD brings one page of the week, `PageSize` CVEs (200 in the
code), chosen by NVD; nothing keeps two syncs of one feed apart, and `muddled` has the feeds whose
shown success met another sync.  `IntelKept`: an indicator that a successful sync brought stays
until the cutoff of a purge passes the UTC time of that sync; every exploited or scored CVE can be browsed, a rated one
keeps its rating, a host is told of a CVE just when one edition of it says so, nothing of that is lost for a CVE
of the week unless a failure is shown, the success met another sync, or a full page left it out,
and the list of exploited ones is a catalog that was published with the same two
exceptions.  A sync that raises commits what it has written (the handler stores the status
without a rollback), the EPSS sync holds the write lock while it downloads.

**RulePack, PackSwap.**  Files change at once, their table at the commit; a pack is swapped by two
renames.  A sync may be killed between two files it writes or removes.  `RulesHeal`: whatever
overlapping or killed syncs left, a full sync that runs by itself ends with every rule of the
release in its file, as the table says, and without the files of the rules it drops from the
table, or with its pack in place.  A file that a killed sync left without a row is written anew
while the repository has its rule; when it has not, nothing ever removes it, and the property
does not speak of it.

**Facts, Migrations, Startup.**  The database is a set of facts, a pair of a table and an item of
it (a column, seeded rows).  Each `migrate_*` function is the sequence of its statements; every
worker runs all of them while it imports `app.py`; a statement outside a transaction commits by
itself, a failing one ends its function.  Functions that share no table are in different
areas, and a behaviour is about one area.  `SchemaWhole`: after the last start every demanded table
and column is there (`Upgraded`), seeds that belong together arrive together (`SeededWhole`), and
the rebuilt tables keep their rows in every committed state (`RowsKept`).

## 7. The runs

| Run | Module | Distinct states | Shows |
|---|---|---|---|
| `appliance` | MCAppliance | 1 693 000 | `NothingSkipped`, `CountedOnce`, `AlertsEarned`, `EditsRemembered`, `RunsAreWhole`, `AnswersAreTrue`, `SchemaWhole` |
| `response` | MCResponse | 583 000 | `CommandTypeOK`, `DecidedOnce`, `NoDanglingRevert`, `NoCaseForgotten`, `RateBound`, `FirstDispatchInOrder`, `VerdictBacked`, `FireAndForgetOnce`, `QuietIsFinal`, no deadlock |
| `console` | MCConsole | 970 000 | `TypeOK`, `StoredWhole`, `TransferSpec`, `ReplayedAll`, `DeliveredOrHeld`, `NoStackedProbes`, `SilenceToldOnce`, `EvidenceFound`, `ScoredExactlyOnce`, `RiskEarned`, `IntelKept`, `EvidenceHeld`, `CaseTold`, `ChannelsFollow`, `ChangesTold`, `RulesHeal` |
| `console_live` | MCConsoleLive | 54 000 | `EventuallySettled`, `EventuallyAnnounced`, `EventuallyStored`, `EventuallyAlarmed`, `EventuallyReported`, `EventuallyClosed`, `EventuallyCounted`, `EventuallySwept` |
| `told`, `revoked` | AgentCommands | – | findings |
| `det_restore` | Detection | – | finding |
| `pb_cancel` | Playbooks | – | finding |
| `fresh_clock` | Cases | – | finding |
| `checkin` | MCStartup | – | finding |
| `not_contained` | HostScripts | – | finding |
| `channel_reads` | LogChannels | – | finding |

The first four are the sums.  `response` checks for deadlock; in the others a component whose
bounds are used up stops.

*Bounds.*  They are in the instances of the sums and in the configurations.  In each part two
requests, workers or sweeps are the smallest overlap; three calls in CaseEvidence and CaseParts
let a third act between two.  LogImport has three lines in chunks of two, room for a fourth
staged line, so that a chunk is staged twice, and for one error, so that a second is past the cap; Replay two tabs, three rules in shares of up to
two, and one switch of a rule.  One
case, with a clock of three values, breaches, closes, reopens and breaches again.  AgentSpool
has a cap of one, three intervals, and four failures or a restart among up to three
(`FewTroubles` in MCConsole): two batches fail entirely and overflow the cap, an outage is replayed
and an answer is lost.  Isolation has two troubles, so a containment breaks, is
renewed and breaks again.  Two log rows and an age of up to two days pass every order of hot and
retention limits.  Startup has two workers, two starts and a death.  RuleBook has two rows, two releases
and one edit: an edit, an import beside it, a clone.  The risk cycle has three hours with
windows of one, so that every window opens, closes and opens again; Baselines six days of up to three
logs.  A feed with one indicator meets purge, renewal and deletion, with days of two units, a
retention of two and a local time one unit ahead of UTC.  RulePack has two rules that may swap their
files.  CveSync has two CVEs that may both be of the week, pages of one, three versions and a range
that ends at one of them.  LogChannels has two requests, one group and one channel of an
administrator.  Three parts would be too large in one piece.  CveSync is explored as `vulns`
(overlapping syncs of NVD and of the catalog) and `scores` (all three feeds, each by one sync at a
time, one CVE at a time in the week and the catalog); Cases as `cases` (requests of every kind,
one at a time) and `saves` (overlapping saves that close and reopen, without the sweep for silent
cases); and the file of channels is not followed beyond a clash, after which its property says
nothing.  The proofs have no such restriction.  `console_live` has smaller instances, as every
property there is about one row, case or command: no switching of playbooks, two rows and one rule
for the engine, a cap of one and two failures for the spool; its cases have two requests that
overlap, its silent agents two sweeps that do.

*Fairness* (in `FairSpec` of the modules, and conjoined by part in MCConsoleLive).
- AgentCommands: the agent's loop polls every few seconds (weak fairness of `CheckIn`), a
  worker serves its poll, a script ends because the agent kills it after
  `SCRIPT_TIMEOUT_SECONDS`, a result is posted at once, and time passes.  From some moment on
  no connection breaks and nothing crashes (`<>[][~Misfortune]_vars`): with a connection
  that always breaks no protocol ends.  None of the misfortunes is a step that a healthy poll also
  takes.  `Timely` (here only) says five minutes are longer than an execution and its reports;
  without it a slow script can be requeued for ever, which the code's own comment accepts.
- Detection: the loop calls a cycle every 30 seconds and never stops (weak fairness of
  `Cycle`); the number of failures of one batch is bounded by `MaxTries`.
- Playbooks: the engine requests a sweep every 30 seconds (weak fairness of each sweep's
  steps), and from some moment on no sweep dies.
- LogImport, Cases, Watch: time passes, the scheduler comes by every 30 seconds, and not every sweep
  dies before its write (strong fairness of the write).
- AgentSpool: the agent's loop and the server's workers run on.  Isolation: the endpoint answers,
  the scheduler calls.

## 8. What the runs found

- **told** – the cancel handler words its answer by its first SELECT, not by what its
  UPDATE closed: "Cancelled before dispatch -- the endpoint never received it." is said of
  commands the endpoint has received (a poll in between, or a row that was requeued).
- **revoked** – the token is revoked in the transaction that marks the uninstall, not
  when the instruction "is in the agent's hands": if the response is lost the agent
  stays installed and cannot authenticate any more.
- **det_restore** – `restore_db.sh` leaves `sigma_state.json` alone: after a restore the
  watermark is above the database's ids, and logs are skipped until they catch up.
- **pb_cancel** – a revert cancelled between a sweep's SELECT and its UPDATE is queued
  for approval all the same; the operator was told the host stays isolated.
- **fresh_clock** – a reopened case "gets a fresh SLA clock", but its age is counted from
  `created_at`: it is announced as breached in the next sweep.
- **checkin** – on a new installation the first check-in makes `agent_polls` without the
  columns a migration adds at the start, and every check-in fails until a restart.
- **not_contained** – an isolation of a Windows host that fails after its block rules stand
  answers "host is NOT contained", and nothing is rolled back.
- **channel_reads** – a check-in that reads the channels' file while a save has emptied it
  replaces the saved templates by the defaults.

## 9. What is proved

The proof modules hold for all values of the constants, under the `ASSUME`s of the modules
(bounds are naturals, the marker values are not data, names of parts are distinct).  Every
theorem has the same argument: an inductive invariant made of named parts, one lemma for each
action that can disturb it, and a temporal step.  The invariants were checked with TLC on
the instances above before they were proved.  The parts say *why* the property holds, and are the
best place to read what a change of the code must keep.

| Module | Theorem (property) | The argument |
|---|---|---|
| AgentCommandsProofs | `TypeCorrect`, `VerdictsAreBacked` (`VerdictBacked`), `DispatchIsInOrder`, `ClosedIsFinal` (`QuietIsFinal`), `DeliveredOnce` (`FireAndForgetOnce`) | RowsInv (what the columns of a row imply of each other), StampInv (dispatch stamps follow the ids), WorkerInv (what a worker between its SELECT and its UPDATE still knows), RunInv (an execution has a row that was delivered), OnceInv (an upgrade that was marked is never queued again) |
| DetectionProofs | `DetectionTypes`, `CountedTwiceOnlyAfterCommit` (`CountedOnce`), `AlertsShareNoMatch`, `AlertsAreEarned` (`AlertsEarned`), `WatermarkSkipsNothing` (`NothingSkipped`); `BonusesNeverStack` (`NeverStacked`), `NoiseIsForgiven`, `RiskIsEarned` (`RiskEarned`) | RangeInv, FoundInv, WrittenInv (after the commit every row of the batch is counted, or is missed by a rule that raised), CountedBehind (only rows behind the mark or of the batch are counted); CoolInv (what an alert counted is covered by its marker, or out of the window), MatchesBehind, OneMatchEach; for the hourly cycle Latest (the row in the log is the latest case) and one bonus for each window; for the models that a pool that is alike but for one day has its usual count in the middle and no deviation (MiddleIsUsual, DeviationIsNone), that a gap of zero leaves the same intervals (NullIsNoInterval), and counting (CommonIsCommon) |
| PlaybooksProofs | `PlaybookTypes`, `ApprovalsAreDecidedOnce` (`DecidedOnce`), `OutboxForgetsNothing` (`NoCaseForgotten`), `LimitTripsOnce`, `RunsAreBounded` (`RateBound`), `RevertsAreAwaited` (`NoDanglingRevert`) | RateInv (the runs and the sweeps that are about to run keep within the limit and one for each sweep), SeenInv (the outbox rows a sweep holds were created); RevertInv = NotYet, Unqueued, Unscheduled, RoomForAll, Awaited: a revert that says it is queued has its approval, and there is room for one for every sweep |
| SweepsProofs | `ProbesNeverStack` (`NoStackedProbes`), `SilenceIsToldOnce`, `EvidenceIsFound`, `EveryRowScoredOnce` (`ScoredExactlyOnce`), `IntelIsKept` (`RenewedIsKept`), `SwapHeals` (`PackStays`, `Unhindered`), `FullSyncHeals` (`AllHeals`, where a rule is known by its path), `VulnerabilitiesAreTold` (`VulnerabilitiesTold`); together `SyncedIntelIsKept` (`IntelKept`), `SyncedRulesHeal` (`RulesHeal`) | for the claimed sweeps that one is inside at most and the claim is held then (IsolationOneInside, IsolationClaimHeld), RoomForOne, StillQuiet; for retention OnceArrived, HeldFast, Looking; for the marks NoGaps, KnownIds, TakenAbove, TakenWhole, ScoredBelow; for the feeds Past, RenewedKept and StoredKept (what a sync has stored and not yet said), in which rows are UTC times and the cutoff a local one; for the pack OneComes (where there is none and no sync died, one is about to be placed) and Undisturbed; for the copied rules OwnFiles and Ahead (a sync that is alone works on the table as it is, and what it has copied is there still); for the vulnerabilities OnTheWordOf, LossShown and Sounds (what each request may rely on: a sync of NVD that succeeds has brought everything of the week that was lost) |
| LogImportProofs | `ImportIsTransfer` (`TransferSpec`), `CompleteIsWhole` (`StoredWhole`, for `Orderly` and any `MaxErrors`), `ReplaysAreWhole` (`ReplayedAll`) | the refinement, step by step; WholeInv = OneWay, AllStaged, Apart, Prefix, InHand, Follows: what a request holds is a piece of the file behind the rows that are stored; ReplayInv = AllAlong with Behind, ShareFrom |
| EndpointProofs | `NothingFailsSilently` (`DeliveredOrHeld`), `ChangesAreTold` (`ChangesTold`), `WhatIsRememberedIsInForce` (`PolicyFollows`), `SavesAreKept` (`SavesKept`), together `ChannelsAreFollowed` (`ChannelsFollow`) | Typed, InHand, Underway, AllStored; FromDisk and Known, where what is dropped is lost: the events of a check, the baseline in memory and the one on disk are accounted for separately; AloneInForce, SettledInForce, AuditdAnew, WindowsAnew: an application that nothing ran beside has in force what it has done; AllInStep with InStep, MadeOf and OneWrites: as long as nothing has clashed, the file that a request holds is the one that was wanted when it read, as changed by its own request, and at most one request is writing |
| BooksProofs | `EditsAreRemembered` (`EditsRemembered`), `RunsAreOnRecord` (`RunsAreWhole`), `ScriptsTellTheTruth` (`AnswersAreTrue`), `RowsAreKept` (`RowsKept`, a part of `SchemaWhole`) | BookInv, whose strengthening FirstText says that a rule never edited has the text it came with; RunInv; ScriptsInv = Chained (no rule of the Linux firewall without its chain) and OnOutline: each script has an outline, what holds of the host behind its first k commands whichever of them failed, and the end of the outline is what the answer says; StartInv = ComesTo and, for each row of a table that is rebuilt, StillSo (what a worker has read of the old table is so still), CarriedOver (who is about to drop the old table has the row in its transaction), InDraft and OnTheWay |
| CaseProofs | `EvidenceAgrees` (`EvidenceHeld`), `PartsAreTold` (`PartsTold`), `ClosesAreRemembered` (`CloseRemembered`), together `CasesTellAll` (`CaseTold`) | Kept = Shaped (where a request can be), Alone (the file of an upload is nobody else's), Watched, Rooted (every file was uploaded), SentWhole, Trail, Told, and Missing and Spare: a row without a file and a file without a row have a request that explains them; PartsInv = PartsBegotten (a row is what one request added), PartsCounted (a stamp that a request has read is there still), PartsOnce, PartsCame; Timed (closed is to have a closing time), ReadOnce (a save holds a row that the case has had), KnownCases, and: a save that has not clashed writes over the closing times it has read |

Cases and CaseParts are proved about through the instances of CaseFile (`Desk`, `Detailing`),
Feeds, RulePack, PackSwap and CveSync through those of Syncs (`Feeding`, `Copying`, `Swapping`,
`Updating`), Startup through `Starting`, RiskCycle and Baselines through those of Risk (`Cycling`, `Judging`), LogChannels and
ChannelPolicy through those of Channels (`Choosing`, `Applying`); their constants are the
constants of these modules, the theorem is about every value of them, and the bounds are its
hypothesis.

Assumptions that are not about bounds: `Orderly` (the wizard commits after normalizing, as the
page does), `PathIsKey` (a rule is known by its path), `RebuildsWell` (a migration that drops a
table has carried the row over just before, and renames the new table right after; TLC evaluates
it for the migrations of the code); each is named in the theorem that needs it.  No theorem keeps
the requests of a component apart: where overlapping ones really undo each other's work – saves of
a case, the file of channels, syncs of one vulnerability feed – a history variable says that it has
happened, and the property speaks of all the other behaviours.
RiskMarks states with `Delayed` which sources are filled out of order, Replay with a history
variable which rules were switched.

Model-checked only:
- all liveness properties (fairness and ENABLED are out of the prover's reach);
- `TypeOK` of `console`, the conjunction of the components' type invariants (most of them are
  parts of the invariants above);
- the parts `Upgraded` and `SeededWhole` of `SchemaWhole`: sequences of about a hundred named
  statements, which the prover would have to take one by one.  (`RowsKept` needs to know only how
  a table is rebuilt.)

## 10. What is not modelled

- **Users, roles, sessions**: single statements, apart from the rule that somebody must keep the
  right to manage roles (section 11).  **DNS forwarder**: packets and a bounded queue that drops.
- **Sigma conversion**: a rule is the set of rows it matches; the generated SQL is data.
- **Reports, notifications, enrichment, sandbox, network clients, static data, templates**:
  they format, or call out, and nothing here acts on the result, apart from the feeds.
- **Warning lists, actor profiles, queues, access lists and templates of cases, preview and mapping
  profiles of imports, playbooks on alerts**: rows edited in place by one statement.
- **update.sh**, and scripts of the endpoint that overlap each other.

## 11. Divergences that are not runs

Seen while the modules were written; where a property is named, its module states it and it does
not hold of the code, or holds only where the run's instance says so.

*Commands.*  A docstring calls `cancelled` terminal, while the UPDATEs of the poll and of the
result name only the id.  A second pending uninstall reaches a host that was enrolled again.

*Import.*  The reaper looks at the age and deletes later.  Past a thousand errors a bad line is
counted and not kept (`app.py:4007`).  `StagedOnce` and
`CommitAfterNormalize` fail where requests are not the page's (`Orderly = FALSE`).
`EveryRuleReplayed`, `OneAlertPerRule` fail when rules are switched or tabs race.

*Cases.*  `ClosedIsReadOnly` (a status read before the write); two overlapping saves can lose
a close and leave a reopened case with an old SLA stamp, never announced again
(`AnnouncedWhateverClashes`, `AcknowledgedOnce`).  `NothingLeftBehind` (`app.py:7827`: files of a
deleted case), the audit entry is lost if the request is killed, `StampedOnce`, `LinkedOnce`,
`PlacedApart`, `CaseParts!ChangesTold` (`app.py:7498`), writes after a close.
`_run_case_analysis` holds the write lock during network calls.

*Endpoints.*  `NothingUncollected` (what is written between a collection and its bookmark),
FileWatch's `NothingLost` (the baseline is saved first, and `micro_agent_macos.py:576` posts once),
`AlarmIsCurrent`.  The rollback of an isolation (`RolledBackForGood`),
the command channel (`CommandChannelKept`, `agent_scripts.py:185`), the answer "nothing to remove"
of unblock_ip, which cannot be reached, and "failed to quarantine" after the file has moved.
LogChannels: the file is read, changed and written without a lock, so overlapping saves lose one
another; `NeverStuck`.

*Start.*  `SeededOnce` (`app.py:15063`), the rebuild of `anomaly_rules` (`app.py:15992`), racing
duplicates, an indicator rule inserted again (`app.py:15341`), one-time backfills lost in a crash
(`app.py:13399`, `15267`, `15311`).

*Rules.*  `NeverClobbered`, `ImportedOnce`, `DriftIsNews`: a lookup that is stale by the time of the
write.  `PreviewIsReal`: the preview of a playbook (`app.py:9069`) treats actions otherwise than
the run (`app.py:9256`, `9331`).

*Risk.*  `HitsAreScored`; `ChainRewarded`, `ChainFiresOnce` (`ueba_engine.py:874`), `ContactsTold`.

*Feeds.*  The cutoff of the indicators' purge is a local time and their insertion a UTC time
(`sigma_engine.py:1370`, `schema.sql:34`).  NVD is asked for 200 CVEs of the week and for no second
page (`app.py:4748`).  The TAXII pattern with OR keeps the last stix id; a comment on the MISP path does not
describe its branch; rows of a deleted feed match until the purge; an older sync that overlaps can
un-revoke; `OneFeedOfASource` by a race.  RulePack: `TrackedIsThere`, two keys with one path
(`PathIsKey = FALSE`), a file without a row whose rule is gone upstream; PackSwap: `PackStaysAfterKill`.  CveSync: `AlwaysAMirror` (`app.py:4862`
and `4962`), products of a torn sync older than the last week are never repaired, overlapping
syncs can show success over a torn table, a stub's date is never corrected; the EPSS sync
holds the write lock while it downloads.

*Settings.*  The interval of the agents' sweep is read, compared and written in three steps
(`app.py:9659`, `9755`, `9776`).  Two concurrent edits of roles can leave nobody who manages them.

## 12. Running it

    tlc -config Console.cfg MCConsole
    tlc -config Appliance.cfg MCAppliance
    tlapm PlaybooksProofs.tla

`PROJECT.json` names module and configuration of every run.  The operators commented as *Broken
variant*, named after the definition they stand beside with a suffix (`NextId_Reused`), are
plausible mistakes in that definition: put in its place, each makes the property that
`PROJECT.json` lists with it ("mutants") fail.  No other definition uses them.
