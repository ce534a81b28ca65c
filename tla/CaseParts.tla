------------------------------ MODULE CaseParts ------------------------------
(* What a case is made of: implicated hosts, tasks, indicators and links to     *)
(* other cases, written by requests that overlap.  Each request reads first, in *)
(* no transaction, and then writes its row and its entry in the timeline in one.*)
EXTENDS Naturals, FiniteSets

CONSTANTS
    Call,   \* bound: the requests; each is made at most once
    Thing,  \* the hosts, titles, indicators or cases that the rows are about
    Kinds   \* the kinds of rows looked at

PartsBounds ==
    IsFiniteSet(Call) /\ IsFiniteSet(Thing)
    /\ Kinds \subseteq {"asset", "task", "indicator", "link"}

VARIABLES
    kind,      \* the kind of rows this behaviour looks at
    open,      \* the case is not closed
    table,     \* the rows, each by the request that added it
    timeline,  \* case_events: <<event, call, thing>>
    fired,     \* requests that ran the playbooks of a confirmed asset
    call       \* where each request is, and the row it read

vars == <<kind, open, table, timeline, fired, call>>

\* CASE_ASSET_STATUSES, and what a task may be; other rows have no status.
Statuses(k) ==
    CASE k = "asset" -> {"suspected", "confirmed", "cleared"}
      [] k = "task" -> {"open", "done"}
      [] OTHER -> {"none"}
\* The statuses a row can be added with.
Added(k) == IF k = "task" THEN {"open"} ELSE Statuses(k)
Status == UNION {Statuses(k) : k \in Kinds}

\* confirmed_at is the request that stamped it, place a task's position.
Row == [by : Call, on : Thing, status : Status, stamp : SUBSET Call, place : Nat]
TypeOK ==
    /\ kind \in Kinds /\ open \in BOOLEAN
    /\ table \subseteq Row /\ \A r, q \in table : r.by = q.by => r = q
    /\ timeline \subseteq {"added", "removed", "confirmed", "changed"} \X Call \X Thing
    /\ fired \subseteq Call
    /\ \A c \in Call :
          /\ call[c].op \in {"none", "add", "change", "remove"}
          /\ call[c].at \in {"start", "write", "done"}
          /\ call[c].read \subseteq Row /\ Cardinality(call[c].read) <= 1

Idle == [op |-> "none", at |-> "start", read |-> {}]
Init ==
    /\ kind \in Kinds /\ open = TRUE
    /\ table = {} /\ timeline = {} /\ fired = {} /\ call = [c \in Call |-> Idle]

-----------------------------------------------------------------------------
(* The reads: _require_open_case, and the row.                                *)

Asks(c, op, row) ==
    /\ open /\ call[c] = Idle
    /\ call' = [call EXCEPT ![c] = [op |-> op, at |-> "write", read |-> {row}]]
    /\ UNCHANGED <<kind, open, table, timeline, fired>>

\* _confirmed_at_value
\* Broken variant: what is confirmed when it is added gets no stamp.
Stamp_Changed(c, status, old, adds) ==
    IF status = "confirmed" /\ old = {} /\ ~adds THEN {c} ELSE old
Stamp(c, status, old, adds) ==
    IF status = "confirmed" /\ old = {} THEN {c} ELSE old

\* MAX(position) + 1, of the tasks there are.
NextPlace ==
    IF kind = "task" /\ table # {}
    THEN 1 + CHOOSE p \in {r.place : r \in table} : \A r \in table : r.place <= p
    ELSE 0

\* A host, an indicator or a link that the case has is refused; a task never is.
AskAdd(c, x, status) ==
    /\ kind = "task" \/ \A r \in table : r.on # x
    /\ Asks(c, "add", [by |-> c, on |-> x, status |-> status, place |-> NextPlace,
                       stamp |-> Stamp(c, status, {}, TRUE)])
AskChange(c, row) == kind \in {"asset", "task"} /\ Asks(c, "change", row)
AskRemove(c, row) == Asks(c, "remove", row)

-----------------------------------------------------------------------------
(* The writes, each with its commit.                                          *)

Ready(c, op) == call[c].op = op /\ call[c].at = "write"
Ends(c) == call' = [call EXCEPT ![c] = [op |-> @.op, at |-> "done", read |-> @.read]]
Read(c) == CHOOSE r \in call[c].read : TRUE

\* _fire_asset_confirmed_playbooks
Fires(c, status) == IF kind = "asset" /\ status = "confirmed" THEN {c} ELSE {}
Noted(c, x, status) ==
    {<<IF status = "confirmed" THEN "confirmed" ELSE "changed", c, x>>}

\* UNIQUE(case_id, host) and UNIQUE(case_id, ioc_type, value): a second row fails
\* the request.  Links have no such key.
Unique(x) == kind \in {"asset", "indicator"} => \A r \in table : r.on # x

Add(c) ==
    /\ Ready(c, "add") /\ Ends(c)
    /\ LET row == Read(c) IN
       IF Unique(row.on)
       THEN /\ table' = table \cup {row}
            /\ timeline' = timeline \cup {<<"added", c, row.on>>}
                   \cup IF row.status = "confirmed" THEN Noted(c, row.on, row.status) ELSE {}
            /\ fired' = fired \cup Fires(c, row.status)
       ELSE UNCHANGED <<table, timeline, fired>>
    /\ UNCHANGED <<kind, open>>

\* The row as the request found it, with or without a new status; the stamp only
\* when it is another one than was read.
Rewritten(c, r, status) ==
    LET read == Read(c) now == Stamp(c, status, read.stamp, FALSE) IN
    [by |-> r.by, on |-> r.on, status |-> status, place |-> r.place,
     stamp |-> IF status # read.status /\ now # read.stamp THEN now ELSE r.stamp]

Change(c, status) ==
    /\ Ready(c, "change") /\ Ends(c)
    /\ LET read == Read(c) IN
       /\ table' = {IF r.by = read.by THEN Rewritten(c, r, status) ELSE r : r \in table}
       /\ IF status # read.status
          THEN /\ timeline' = timeline \cup Noted(c, read.on, status)
               /\ fired' = fired \cup Fires(c, status)
          ELSE UNCHANGED <<timeline, fired>>
    /\ UNCHANGED <<kind, open>>

Remove(c) ==
    /\ Ready(c, "remove") /\ Ends(c)
    /\ table' = {r \in table : r.by # Read(c).by}
    /\ timeline' = timeline \cup {<<"removed", c, Read(c).on>>}
    /\ UNCHANGED <<kind, open, fired>>

\* The case is closed, or reopened.
CloseOrReopen ==
    /\ open' = ~open /\ UNCHANGED <<kind, table, timeline, fired, call>>

Next ==
    \/ \E c \in Call, x \in Thing, s \in Added(kind) : AskAdd(c, x, s)
    \/ \E c \in Call, r \in table : AskChange(c, r) \/ AskRemove(c, r)
    \/ \E c \in Call : Add(c) \/ Remove(c)
    \/ \E c \in Call, s \in Statuses(kind) : Change(c, s)
    \/ CloseOrReopen

Spec == Init /\ [][Next]_vars

-----------------------------------------------------------------------------
(* Properties.                                                                *)

\* A host that is confirmed has the stamp that the time to contain is counted
\* from, the timeline says so, and its playbooks were run: however it came to be
\* confirmed, and although a request that changes nothing writes back what it read.
ConfirmedCounts ==
    kind = "asset" =>
        \A r \in table : r.status = "confirmed" =>
            /\ r.stamp # {}
            /\ \E c \in fired : <<"confirmed", c, r.on>> \in timeline

\* The timeline has every row's coming, and its going.
ComingsAndGoings ==
    /\ \A r \in table : <<"added", r.by, r.on>> \in timeline
    /\ \A event \in timeline :
          event[1] = "added" /\ (\A r \in table : r.by # event[2]) =>
              \E c \in Call : <<"removed", c, event[3]>> \in timeline

\* A host or an indicator is in a case once, whatever overlaps.
TrackedOnce ==
    kind \in {"asset", "indicator"} =>
        \A r, q \in table : r.on = q.on => r = q

PartsTold == ConfirmedCounts /\ ComingsAndGoings /\ TrackedOnce

\* Not so: "stamped once, the first time"; "the same already-existing link"; a
\* place of its own for each task; a status that no entry of the timeline tells of.
StampedOnce == [][\A r \in table, q \in table' :
    r.by = q.by /\ r.stamp # {} => q.stamp = r.stamp]_vars
LinkedOnce == kind = "link" => \A r, q \in table : r.on = q.on => r = q
PlacedApart == kind = "task" => \A r, q \in table : r.place = q.place => r = q
ChangesTold == [][\A r \in table, q \in table' :
    r.by = q.by /\ r.status # q.status => timeline' # timeline]_vars
=============================================================================
