-------------------------------- MODULE Cases --------------------------------
(* The cases analysts work on: a save reads the case, decides what changed and *)
(* writes the whole row back; items are added after a look at the status; the  *)
(* scheduler announces a breached SLA and nudges silent cases.  Every handler  *)
(* reads before its transaction and writes by the id alone.                    *)
EXTENDS Integers

CONSTANTS
    Analyst,    \* bound: requests about cases that may overlap
    MaxCases,   \* bound: cases ever created
    MaxNow,     \* bound: hours that pass
    MaxReopen,  \* bound: entries that a case was reopened
    Sla,        \* hours an open case may take (_case_sla_hours_for)
    StaleAfter  \* case_stale_hours

Never == -1
Id == 1 .. MaxCases
Hour == 0 .. MaxNow
Stamp == Hour \cup {Never}
CaseBounds == {MaxCases, MaxNow, MaxReopen, Sla, StaleAfter} \subseteq Nat

VARIABLES
    cases,      \* the table: id -> row
    last,       \* MAX(case_events.ts), per id
    opened,     \* case_events: how often "status_change open" was logged, per id
    children,   \* ids that have rows in case_items, case_assets, case_tasks ...
    now,
    apc, readRow,   \* per analyst: the request, and the row it has read
    breaching, silent,   \* the cases the scheduler's sweep has selected
    since, announced, nudged, everClosed,   \* history
    clashed              \* history: ids that a save wrote over another one's close or reopen

table == <<cases, last, opened, children, now>>
desk == <<apc, readRow, breaching, silent>>
past == <<since, announced, nudged, everClosed, clashed>>
vars == <<table, desk, past>>

Row == [status : {"open", "closed"}, workflow : {"new", "investigating", "resolved"},
        created : Hour, closedAt : Stamp, lastClosedAt : Stamp, reopened : Nat,
        acked : Stamp, sla : Stamp, stale : Stamp]
NoRow == [id |-> 0]
RowRead == [id : {0}] \cup [id : Id, row : Row]

TypeOK ==
    /\ DOMAIN cases \subseteq Id /\ \A c \in DOMAIN cases : cases[c] \in Row
    /\ now \in Hour
    /\ last \in [Id -> Stamp] /\ opened \in [Id -> Nat] /\ children \subseteq Id
    /\ apc \in [Analyst -> {"idle", "save", "add"}]
    /\ readRow \in [Analyst -> RowRead]
    /\ breaching \subseteq Id /\ silent \subseteq Id
    /\ since \in [Id -> Stamp] /\ announced \in [Id -> BOOLEAN]
    /\ nudged \in [Id -> BOOLEAN] /\ everClosed \subseteq Id /\ clashed \subseteq Id

Init ==
    /\ cases = <<>> /\ now = 0
    /\ last = [c \in Id |-> Never] /\ opened = [c \in Id |-> 0] /\ children = {}
    /\ apc = [a \in Analyst |-> "idle"] /\ readRow = [a \in Analyst |-> NoRow]
    /\ breaching = {} /\ silent = {}
    /\ since = [c \in Id |-> Never] /\ announced = [c \in Id |-> FALSE]
    /\ nudged = [c \in Id |-> FALSE] /\ everClosed = {} /\ clashed = {}

Existing == DOMAIN cases
IsOpen(c) == c \in Existing /\ cases[c].status = "open"

\* An entry on the timeline is activity: the silence starts anew.
Logs(c) == last' = [last EXCEPT ![c] = now] /\ nudged' = [nudged EXCEPT ![c] = FALSE]

Finish(a) ==
    /\ apc' = [apc EXCEPT ![a] = "idle"]
    /\ readRow' = [readRow EXCEPT ![a] = NoRow]

-----------------------------------------------------------------------------
\* POST /api/cases, and an engine's own case: the row, its number and tasks and the
\* event in one transaction.  Ids are never used again.
NewId(c) == \A d \in Id : last[d] # Never <=> d < c

Create(new) ==
    /\ NewId(new)
    /\ cases' = [c \in Existing \cup {new} |->
                   IF c \in Existing THEN cases[c]
                   ELSE [status |-> "open", workflow |-> "new", created |-> now,
                         closedAt |-> Never, lastClosedAt |-> Never, reopened |-> 0,
                         acked |-> Never, sla |-> Never, stale |-> Never]]
    /\ Logs(new)
    /\ since' = [since EXCEPT ![new] = now]
    /\ UNCHANGED <<opened, children, now, desk, announced, everClosed, clashed>>

-----------------------------------------------------------------------------
\* PUT /api/cases/<id>: the row is read ...
SaveRead(a) ==
    /\ apc[a] = "idle"
    /\ \E c \in Existing : readRow' = [readRow EXCEPT ![a] = [id |-> c, row |-> cases[c]]]
    /\ apc' = [apc EXCEPT ![a] = "save"]
    /\ UNCHANGED <<table, breaching, silent, past>>

Closes(row, s) == s = "closed" /\ row.status # "closed"
Reopens(row, s) == s = "open" /\ row.status = "closed"

\* Broken variant: a reopened case forgets that it was closed.
LastClosed_Forgotten(row, s) == row.lastClosedAt
LastClosed(row, s) == IF Reopens(row, s) THEN row.closedAt ELSE row.lastClosedAt

\* Broken variant: the stamp of the first breach stays.
SlaStamp_Kept(row, s) == row.sla
SlaStamp(row, s) == IF Reopens(row, s) THEN Never ELSE row.sla

\* Broken variant: every save of an acknowledged case stamps it.
Acknowledged_Anew(row, w) == IF w # "new" THEN now ELSE row.acked
Acknowledged(row, w) == IF w # "new" /\ row.acked = Never THEN now ELSE row.acked

\* ... and the whole row is written: what the request asks for, s and w, what follows
\* from it, and for every other column what was read.
Saved(row, s, w) ==
    [status |-> s, workflow |-> w, created |-> row.created,
     closedAt |-> IF Closes(row, s) THEN now ELSE Never,
     lastClosedAt |-> LastClosed(row, s),
     reopened |-> IF Reopens(row, s) THEN row.reopened + 1 ELSE row.reopened,
     acked |-> Acknowledged(row, w), sla |-> SlaStamp(row, s), stale |-> row.stale]

\* The columns a save does not name: stale_notified_at, created_at, case_number.
Written(c, row, s, w) ==
    [Saved(row, s, w) EXCEPT !.stale = cases[c].stale]

\* What tells one opening of a case, and one closing, from another.
Phase(row) == <<row.status, row.closedAt, row.lastClosedAt, row.reopened>>
Clashes(c, row) == c \in Existing /\ Phase(cases[c]) # Phase(row)

SaveWrite(a) ==
    /\ apc[a] = "save"
    /\ LET c == readRow[a].id  row == readRow[a].row IN
       \E s \in {"open", "closed"}, w \in {row.workflow, "investigating"} :
          LET workflow == IF Closes(row, s) /\ w = row.workflow THEN "resolved" ELSE w IN
          /\ ~(row.status = "closed" /\ s = "closed")
          /\ Reopens(row, s) => opened[c] < MaxReopen
          /\ cases' = IF c \in Existing
                      THEN [cases EXCEPT ![c] = Written(c, row, s, workflow)] ELSE cases
          /\ opened' = IF Reopens(row, s) THEN [opened EXCEPT ![c] = @ + 1] ELSE opened
          /\ IF s # row.status \/ workflow # row.workflow
             THEN Logs(c) ELSE UNCHANGED <<last, nudged>>
          /\ since' = IF c \in Existing /\ s = "open" /\ ~IsOpen(c)
                      THEN [since EXCEPT ![c] = now] ELSE since
          /\ announced' = IF c \in Existing /\ s = "open" /\ ~IsOpen(c)
                          THEN [announced EXCEPT ![c] = FALSE] ELSE announced
          /\ everClosed' = IF s = "closed" THEN everClosed \cup ({c} \cap Existing)
                                           ELSE everClosed
          /\ clashed' = IF Clashes(c, row) THEN clashed \cup {c} ELSE clashed
    /\ Finish(a)
    /\ UNCHANGED <<children, now, breaching, silent>>

-----------------------------------------------------------------------------
\* POST .../items, assets, tasks, iocs: _require_open_case, and then the INSERT.
AddLook(a) ==
    /\ apc[a] = "idle"
    /\ \E c \in Existing :
         /\ cases[c].status = "open"
         /\ readRow' = [readRow EXCEPT ![a] = [id |-> c, row |-> cases[c]]]
    /\ apc' = [apc EXCEPT ![a] = "add"]
    /\ UNCHANGED <<table, breaching, silent, past>>

AddInsert(a) ==
    /\ apc[a] = "add"
    /\ children' = children \cup {readRow[a].id}
    /\ Logs(readRow[a].id)
    /\ Finish(a)
    /\ UNCHANGED <<cases, opened, now, breaching, silent, since, announced, everClosed,
                   clashed>>

\* DELETE /api/cases/<id>: its children with it, in one transaction.
Delete(c) ==
    /\ c \in Existing
    /\ cases' = [d \in Existing \ {c} |-> cases[d]]
    /\ children' = children \ {c}
    /\ UNCHANGED <<last, opened, now, desk, past>>

-----------------------------------------------------------------------------
\* The scheduler, every 30 seconds.  The age is counted from created_at.
Overdue(c) == now - cases[c].created > Sla

SlaSelect ==
    /\ breaching = {}
    /\ breaching' = {c \in Existing : IsOpen(c) /\ cases[c].sla = Never /\ Overdue(c)}
    /\ breaching' # {}
    /\ UNCHANGED <<table, apc, readRow, silent, past>>

\* The sla_breached playbooks run for each, and each is stamped, in one transaction.
SlaStampAll ==
    /\ breaching # {}
    /\ breaching' = {}
    /\ cases' = [c \in Existing |-> IF c \in breaching THEN [cases[c] EXCEPT !.sla = now]
                                                       ELSE cases[c]]
    /\ announced' = [c \in Id |-> announced[c] \/ c \in breaching]
    /\ UNCHANGED <<last, opened, children, now, apc, readRow, silent, since, nudged,
                   everClosed, clashed>>

\* Broken variant: an event in the second of the nudge makes it due again.
Unnudged_Equal(c) == cases[c].stale = Never \/ cases[c].stale <= last[c]
Unnudged(c) == cases[c].stale = Never \/ cases[c].stale < last[c]
Silent(c) == IsOpen(c) /\ now - last[c] > StaleAfter /\ Unnudged(c)

StaleSelect ==
    /\ silent = {}
    /\ silent' = {c \in Existing : Silent(c)}
    /\ silent' # {}
    /\ UNCHANGED <<table, apc, readRow, breaching, past>>

StaleStampAll ==
    /\ silent # {}
    /\ silent' = {}
    /\ cases' = [c \in Existing |-> IF c \in silent THEN [cases[c] EXCEPT !.stale = now]
                                                    ELSE cases[c]]
    /\ nudged' = [c \in Id |-> nudged[c] \/ c \in silent]
    /\ UNCHANGED <<last, opened, children, now, apc, readRow, breaching, since,
                   announced, everClosed, clashed>>

\* A sweep that dies rolls back; what it selected it selects again.
SweepDies ==
    /\ breaching \cup silent # {}
    /\ breaching' = {} /\ silent' = {}
    /\ UNCHANGED <<table, apc, readRow, past>>

Tick ==
    /\ now < MaxNow
    /\ now' = now + 1
    /\ UNCHANGED <<cases, last, opened, children, desk, past>>

-----------------------------------------------------------------------------
Work(a) == SaveRead(a) \/ SaveWrite(a) \/ AddLook(a) \/ AddInsert(a)
Sweep == SlaSelect \/ SlaStampAll \/ StaleSelect \/ StaleStampAll \/ SweepDies

Next ==
    \/ \E c \in Id : Create(c)
    \/ \E a \in Analyst : Work(a)
    \/ \E c \in Id : Delete(c)
    \/ Sweep \/ Tick

Spec == Init /\ [][Next]_vars

\* Time passes; the scheduler comes by every 30 seconds, and not every sweep dies.
FairSpec == Spec /\ WF_vars(SlaSelect) /\ SF_vars(SlaStampAll)

-----------------------------------------------------------------------------
(* Properties.                                                               *)

\* "A genuine reopen preserves its close timestamp": a case that was ever closed never
\* vanishes from the closing statistics, however saves, sweeps and deletions overlap, unless
\* a save of it was written over a close or a reopen that it had not read.
CloseRemembered ==
    \A c \in (everClosed \cap Existing) \ clashed :
        cases[c].closedAt # Never \/ cases[c].lastClosedAt # Never

\* "Never re-stamped after that".
AcknowledgedOnce ==
    [][\A c \in Existing \cap Existing' :
          cases[c].acked # Never => cases[c].acked = cases'[c].acked]_vars

\* "Otherwise it could never breach again": an open case past its hours is announced
\* in this opening, or closed or deleted first, however saves and sweeps overlap, unless a
\* save of it was written over a close or a reopen that it had not read.
EventuallyAnnounced ==
    \A c \in Id : (IsOpen(c) /\ Overdue(c)) ~> (~IsOpen(c) \/ announced[c] \/ c \in clashed)

\* Not so: without that exception.  A save that read the open case with its stamp and is
\* written after a close opens it again under the old stamp.
AnnouncedWhateverClashes ==
    \A c \in Id : (IsOpen(c) /\ Overdue(c)) ~> (~IsOpen(c) \/ announced[c])

\* "The same silence never re-fires on every 30s poll".
NudgedOncePerSilence == \A c \in silent : ~nudged[c]

\* "A reopened case gets a fresh SLA clock".
FreshClock ==
    [][\A c \in Id : announced'[c] /\ ~announced[c] => now - since[c] > Sla]_vars

\* "Closed cases are read-only -- the one exception is this same request also leaving
\* 'closed' (a reopen)".
ClosedIsReadOnly ==
    [][\A c \in Existing \cap Existing' :
          cases[c].status = "closed" /\ cases'[c] # cases[c] => opened'[c] > opened[c]]_vars
=============================================================================
