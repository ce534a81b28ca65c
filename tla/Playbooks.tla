------------------------------ MODULE Playbooks ------------------------------
(* SOAR: one playbook on case_created whose gated action isolates the hosts of *)
(* the case.  A case opened by the detection engine reaches the playbook over  *)
(* an outbox, drained by the sweep the engine requests every thirty seconds; a *)
(* run queues an approval; an approved isolation schedules its own reversal;   *)
(* when that falls due a sweep queues the approval to restore the network.     *)
(* The engine stops waiting for a slow sweep and requests the next: sweeps     *)
(* overlap.  A request reads on its own and, from its first write to its       *)
(* commit, holds the database's write lock: every such transaction is a step.  *)
EXTENDS Integers, FiniteSets

CONSTANTS
    MaxCase,     \* bound: cases ever opened
    Sweep,       \* bound: requests that may sweep at the same time
    MaxRuns,     \* the playbook's max_runs_per_hour
    MaxToggles,  \* bound: times an admin switches the playbook on more than off
    Scheduled    \* bound: isolations that may be scheduled to be reverted

ASSUME PlaybookBounds ==
    /\ MaxCase \in Nat /\ MaxRuns \in Nat \ {0} /\ MaxToggles \in Nat
    /\ IsFiniteSet(Sweep) /\ Sweep # {}

Case == 1 .. MaxCase
Copy == 1 .. Cardinality(Sweep)

\* Approvals: the n-th to isolate for a case, the k-th to revert that isolation.
\* A scheduled revert (playbook_pending_reverts) is named by the isolation.
Isolation == Case \X Copy
Restoration == Case \X Copy \X Copy
Approval == Isolation \cup Restoration
RevertOf(y) == <<y[1], y[2]>>
ASSUME PlaybookScheduled == Scheduled \subseteq Isolation

VARIABLES
    created,   \* cases
    outbox,    \* case_playbook_outbox
    enabled,   \* playbooks.enabled
    runs,      \* playbook_runs of the last hour: real runs ...
    limits,    \* ... and 'rate_limited' rows, which are counted with them
    trips,     \* 'rate_limited' rows ever written
    toggles,   \* history: times it was switched on by hand, less the times off
    approval,  \* playbook_approvals.status
    revert,    \* playbook_pending_reverts.status
    due,       \* reverts whose revert_at came while they were pending
    sweepPc, dueSeen, rowsSeen, verdict,   \* per sweep: where it is, what it has read
    served,    \* history: cases whose outbox row, or creation, met the playbook
    acted,     \* history: how often an approved action was carried out
    calledOff  \* history: reverts whose operator was told they are cancelled

cases   == <<created, outbox, served>>
book    == <<enabled, runs, limits, trips, toggles>>
gate    == <<approval, acted>>
reverts == <<revert, due, calledOff>>
sweeps  == <<sweepPc, dueSeen, rowsSeen, verdict>>
vars    == <<cases, book, gate, reverts, sweeps>>

RevertStatus == {"absent", "pending", "queued_for_approval", "reverted", "cancelled"}

TypeOK ==
    /\ created \subseteq Case /\ outbox \subseteq created /\ served \subseteq created
    /\ enabled \in BOOLEAN /\ runs \in Nat /\ limits \in Nat /\ trips \in Nat
    /\ toggles \in -1 .. MaxToggles
    /\ approval \in [Approval -> {"absent", "pending", "approved", "rejected"}]
    /\ acted \in [Approval -> 0 .. 2]
    /\ revert \in [Isolation -> RevertStatus]
    /\ due \subseteq Isolation /\ calledOff \subseteq Isolation
    /\ sweepPc \in [Sweep -> {"idle", "reverts", "outbox", "check", "drain"}]
    /\ dueSeen \in [Sweep -> SUBSET Isolation]
    /\ rowsSeen \in [Sweep -> SUBSET Case]
    /\ verdict \in [Sweep -> {"off", "run", "over"}]

Init ==
    /\ created = {} /\ outbox = {} /\ served = {}
    /\ enabled = TRUE /\ runs = 0 /\ limits = 0 /\ trips = 0 /\ toggles = 0
    /\ approval = [a \in Approval |-> "absent"]
    /\ acted = [a \in Approval |-> 0]
    /\ revert = [x \in Isolation |-> "absent"] /\ due = {} /\ calledOff = {}
    /\ sweepPc = [s \in Sweep |-> "idle"]
    /\ dueSeen = [s \in Sweep |-> {}] /\ rowsSeen = [s \in Sweep |-> {}]
    /\ verdict = [s \in Sweep |-> "off"]

-----------------------------------------------------------------------------
(* _run_playbooks_for_case and _check_playbook_rate_limit.                    *)

Over(n) == n >= MaxRuns

\* Broken variant: disabling without looking whether it is enabled.
Disables_Always(en) == TRUE
Disables(en) == en

\* What the playbook, enabled or not and with n runs counted, does about the
\* cases R in the order of their ids, all in one transaction.  Broken variant:
\* the rate is looked at for the first row only.
Running_Unchecked(R, en, n) == IF en THEN R ELSE {}
Running(R, en, n) ==
    IF en THEN {c \in R : ~Over(n + Cardinality({d \in R : d < c}))} ELSE {}
Tripping(R, en, n) == en /\ Running(R, en, n) # R

\* The next approval to isolate for each case of R, to restore for each of X.
NextIsolations(R) ==
    {x \in Isolation : x[1] \in R /\ approval[x] = "absent"
                       /\ \A n \in 1 .. x[2] - 1 : approval[<<x[1], n>>] # "absent"}
NextRestorations(X) ==
    {y \in Restoration : RevertOf(y) \in X /\ approval[y] = "absent"
                         /\ \A k \in 1 .. y[3] - 1 : approval[<<y[1], y[2], k>>] # "absent"}
Queued(A) == [a \in Approval |-> IF a \in A THEN "pending" ELSE approval[a]]

-----------------------------------------------------------------------------
(* Where cases come from, and time.                                          *)

\* api_cases: the case and its playbooks in one transaction.
CreateByHand(c) ==
    /\ c \notin created
    /\ created' = created \cup {c} /\ served' = served \cup {c}
    /\ LET ran  == Running({c}, enabled, runs + limits)
           trip == Tripping({c}, enabled, runs + limits)
       IN  /\ runs' = runs + Cardinality(ran)
           /\ enabled' = (enabled /\ ~trip)
           /\ limits' = IF trip THEN limits + 1 ELSE limits
           /\ trips' = IF trip THEN trips + 1 ELSE trips
           /\ approval' = Queued(NextIsolations(ran))
    /\ UNCHANGED <<outbox, toggles, acted, reverts, sweeps>>

\* The detection engine has no playbooks of its own: it leaves a row.
CreateByEngine(c) ==
    /\ c \notin created
    /\ created' = created \cup {c} /\ outbox' = outbox \cup {c}
    /\ UNCHANGED <<served, book, gate, reverts, sweeps>>

\* A run is more than an hour old, or a 'rate_limited' row is.
RunsAge ==
    /\ \/ runs > 0 /\ runs' = runs - 1 /\ UNCHANGED limits
       \/ limits > 0 /\ limits' = limits - 1 /\ UNCHANGED runs
    /\ UNCHANGED <<cases, enabled, trips, toggles, gate, reverts, sweeps>>

\* api_playbook_toggle, by an admin.
Toggle ==
    /\ ~enabled => toggles < MaxToggles
    /\ enabled' = ~enabled
    /\ toggles' = IF enabled THEN toggles - 1 ELSE toggles + 1
    /\ UNCHANGED <<cases, runs, limits, trips, gate, reverts, sweeps>>

FallDue(x) ==
    /\ revert[x] = "pending" /\ x \notin due
    /\ due' = due \cup {x}
    /\ UNCHANGED <<cases, book, gate, revert, calledOff, sweeps>>

-----------------------------------------------------------------------------
(* POST /api/internal/run-scheduled-playbooks: a sweep.                       *)

\* Broken variant: the comparison of revert_at turned round.
DueReverts_NotYet == {x \in Isolation : revert[x] = "pending" /\ x \notin due}
DueReverts == {x \in Isolation : revert[x] = "pending" /\ x \in due}

ReadReverts(s) ==
    /\ sweepPc[s] = "idle"
    /\ dueSeen' = [dueSeen EXCEPT ![s] = DueReverts]
    /\ sweepPc' = [sweepPc EXCEPT ![s] = "reverts"]
    /\ UNCHANGED <<cases, book, gate, reverts, rowsSeen, verdict>>

\* One transaction, by the ids read before: the status is not looked at again.
QueueReverts(s) ==
    /\ sweepPc[s] = "reverts"
    /\ approval' = Queued(NextRestorations(dueSeen[s]))
    /\ revert' = [x \in Isolation |-> IF x \in dueSeen[s] THEN "queued_for_approval"
                                      ELSE revert[x]]
    /\ dueSeen' = [dueSeen EXCEPT ![s] = {}]
    /\ sweepPc' = [sweepPc EXCEPT ![s] = "outbox"]
    /\ UNCHANGED <<cases, book, acted, due, calledOff, rowsSeen, verdict>>

ReadOutbox(s) ==
    /\ sweepPc[s] = "outbox"
    /\ rowsSeen' = [rowsSeen EXCEPT ![s] = outbox]
    /\ sweepPc' = [sweepPc EXCEPT ![s] = IF outbox = {} THEN "idle" ELSE "check"]
    /\ UNCHANGED <<cases, book, gate, reverts, dueSeen, verdict>>

\* For the first row, the playbook and its rate are read outside any transaction.
CheckFirst(s) ==
    /\ sweepPc[s] = "check"
    /\ verdict' = [verdict EXCEPT ![s] = IF ~enabled THEN "off"
                                        ELSE IF Over(runs + limits) THEN "over" ELSE "run"]
    /\ sweepPc' = [sweepPc EXCEPT ![s] = "drain"]
    /\ UNCHANGED <<cases, book, gate, reverts, dueSeen, rowsSeen>>

\* Broken variant: DELETE without the ids that were read.
Drained_All(s) == outbox
Drained(s) == rowsSeen[s]

\* From the first row's write to the commit: one transaction over all rows.
DrainOutbox(s) ==
    LET first == {c \in rowsSeen[s] : \A d \in rowsSeen[s] : c <= d}
        rest  == rowsSeen[s] \ first
        over  == verdict[s] = "over" /\ Disables(enabled)
        ran1  == IF verdict[s] = "run" THEN first ELSE {}
        n     == runs + limits + Cardinality(ran1) + (IF over THEN 1 ELSE 0)
        ran   == ran1 \cup Running(rest, enabled /\ ~over, n)
        trip  == Tripping(rest, enabled /\ ~over, n)
        new   == (IF over THEN 1 ELSE 0) + (IF trip THEN 1 ELSE 0)
    IN  /\ sweepPc[s] = "drain"
        /\ runs' = runs + Cardinality(ran)
        /\ limits' = limits + new /\ trips' = trips + new
        /\ enabled' = (enabled /\ ~over /\ ~trip)
        /\ approval' = Queued(NextIsolations(ran))
        /\ outbox' = outbox \ Drained(s)
        /\ served' = served \cup rowsSeen[s]
        /\ rowsSeen' = [rowsSeen EXCEPT ![s] = {}]
        /\ verdict' = [verdict EXCEPT ![s] = "off"]
        /\ sweepPc' = [sweepPc EXCEPT ![s] = "idle"]
        /\ UNCHANGED <<created, toggles, acted, reverts, dueSeen>>

\* The request dies: what it read is forgotten, what it wrote rolled back.  Dying
\* before the outbox is read is dying after it, or ending, if it is empty.
SweepDies(s) ==
    /\ sweepPc[s] \in {"reverts", "check", "drain"}
    /\ sweepPc' = [sweepPc EXCEPT ![s] = "idle"]
    /\ dueSeen' = [dueSeen EXCEPT ![s] = {}]
    /\ rowsSeen' = [rowsSeen EXCEPT ![s] = {}]
    /\ verdict' = [verdict EXCEPT ![s] = "off"]
    /\ UNCHANGED <<cases, book, gate, reverts>>

-----------------------------------------------------------------------------
(* The operators: deciding approvals, cancelling a scheduled revert.          *)

\* Broken variant: the status is not part of the claim.
Claimable_Always(a) == approval[a] # "absent"
Claimable(a) == approval[a] = "pending"

Twice(n) == IF n = 2 THEN 2 ELSE n + 1
CarryOut(a) ==
    /\ Claimable(a)
    /\ approval' = [approval EXCEPT ![a] = "approved"]
    /\ acted' = [acted EXCEPT ![a] = Twice(acted[a])]
Refuse(a) ==
    /\ Claimable(a)
    /\ approval' = [approval EXCEPT ![a] = "rejected"]
    /\ UNCHANGED acted

\* A revert is scheduled for every confirmed host of the case, if it has one.
ApproveIsolation(x) ==
    /\ CarryOut(x)
    /\ \/ x \in Scheduled /\ revert' = [revert EXCEPT ![x] = "pending"]
       \/ UNCHANGED revert
    /\ UNCHANGED <<cases, book, due, calledOff, sweeps>>

RejectIsolation(x) ==
    /\ Refuse(x)
    /\ UNCHANGED <<cases, book, reverts, sweeps>>

ApproveRestoration(y) ==
    /\ CarryOut(y)
    /\ revert' = [revert EXCEPT ![RevertOf(y)] = "reverted"]
    /\ UNCHANGED <<cases, book, due, calledOff, sweeps>>

\* Broken variant: the revert's row is forgotten.
RefusedRevert_Kept == "queued_for_approval"
RefusedRevert == "cancelled"

RejectRestoration(y) ==
    /\ Refuse(y)
    /\ revert' = [revert EXCEPT ![RevertOf(y)] = RefusedRevert]
    /\ UNCHANGED <<cases, book, due, calledOff, sweeps>>

CancelRevert(x) ==
    /\ revert[x] = "pending"
    /\ revert' = [revert EXCEPT ![x] = "cancelled"]
    /\ calledOff' = calledOff \cup {x}
    /\ UNCHANGED <<cases, book, gate, due, sweeps>>

-----------------------------------------------------------------------------
SweepStep(s) ==
    \/ ReadReverts(s) \/ QueueReverts(s) \/ ReadOutbox(s) \/ CheckFirst(s)
    \/ DrainOutbox(s)

Operators ==
    \/ \E x \in Isolation : ApproveIsolation(x) \/ RejectIsolation(x) \/ CancelRevert(x)
    \/ \E y \in Restoration : ApproveRestoration(y) \/ RejectRestoration(y)

Surroundings ==
    \/ \E c \in Case : CreateByHand(c) \/ CreateByEngine(c)
    \/ \E x \in Isolation : FallDue(x)
    \/ RunsAge \/ Toggle

Next ==
    \/ \E s \in Sweep : SweepStep(s) \/ SweepDies(s)
    \/ Operators \/ Surroundings

Spec == Init /\ [][Next]_vars

\* The engine requests a sweep every thirty seconds, and some day none dies.
FairSpec ==
    /\ Spec
    /\ \A s \in Sweep : WF_vars(SweepStep(s))
    /\ <>[][~ \E s \in Sweep : SweepDies(s)]_vars

-----------------------------------------------------------------------------
(* Properties.                                                               *)

\* A gated action is carried out once, only if approved, and never after it was
\* refused, however many operators decide it at the same time.
DecidedOnce ==
    \A a \in Approval :
        /\ acted[a] <= 1
        /\ approval[a] \in {"absent", "pending", "rejected"} => acted[a] = 0

\* A revert that waits for a decision has one to wait for: it is never left
\* 'queued_for_approval' "with no way to ever resolve".
NoDanglingRevert ==
    \A x \in Isolation : revert[x] = "queued_for_approval" =>
        \E y \in Restoration : RevertOf(y) = x /\ approval[y] = "pending"

\* A case leaves the outbox only after a sweep has taken it to the playbook, also
\* when sweeps die half-way or overlap with the engine opening another case.
NoCaseForgotten == created \ outbox \subseteq served

\* Sweeps that read the rate at the same time pass the limit by one run each.
RateBound == runs <= MaxRuns + Cardinality(Sweep)

\* Each time the limit, not an admin, switches the playbook off, one request says so.
TrippedOnce == trips = toggles + (IF enabled THEN 0 ELSE 1)

\* Every outbox row meets the playbook, and every revert that has fallen due is
\* put before an operator or called off.
EventuallySwept ==
    /\ \A c \in Case : c \in outbox ~> c \in served
    /\ \A x \in Scheduled : x \in due /\ revert[x] = "pending" ~> revert[x] # "pending"

\* "Scheduled network restore was cancelled -- host stays isolated": nothing queues
\* a revert again that was still pending when it was cancelled.
CancelledStaysCancelled == \A x \in calledOff : revert[x] = "cancelled"
=============================================================================
