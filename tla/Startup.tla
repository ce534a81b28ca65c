------------------------------- MODULE Startup -------------------------------
(* The start of the console.  The service runs several workers, each imports  *)
(* app.py and so runs every migration, at the same time as the others.  A     *)
(* statement outside a transaction commits by itself; the first INSERT,       *)
(* UPDATE or DELETE of a function opens a transaction that its commit ends,   *)
(* and only one can be open.  A statement that fails ends its function: the   *)
(* exception is swallowed.  A worker that dies is started again.  Areas are   *)
(* groups of migrations that do not depend on each other, one a behaviour.    *)
EXTENDS Integers, Sequences, FiniteSets, Facts

CONSTANTS
    Worker,      \* gunicorn's workers
    MaxStart,    \* bound: starts of the service
    MaxDeath,    \* bound: workers that die during the starts
    Reported,    \* an agent reported to an earlier version
    Calls        \* the migrations of each area, in the order of the calls

StartupBounds ==
    MaxStart \in Nat \ {0} /\ MaxDeath \in Nat /\ Reported \in BOOLEAN /\ "nobody" \notin Worker

Entire(t, items) == {<<t, Itself>>} \cup {<<t, x>> : x \in items}

(* What schema.sql makes of a new installation, as far as migrations add to   *)
(* it; an old one has the tables without these columns, tokens in the clear   *)
(* and anomaly rules with one condition each.                                 *)
SchemaTables == {"users", "events", "live_logs", "live_logs_archive", "sigma_rules", "alerts",
                 "stix_indicators", "ti_feeds", "agent_commands", "ueba_entity_baselines",
                 "assets", "identities", "cases", "case_items", "case_tasks", "case_events",
                 "case_templates", "warninglists", "warninglist_entries", "ioc_sightings",
                 "enrichment_results", "ti_entities", "report_history", "risk_score_events"}
SchemaColumns ==
    Entire("events", {"entity_type"})
    \cup Entire("live_logs", {"source_ip", "destination_ip", "process_image", "command_line",
                "parent_image", "parent_command_line", "original_file_name", "raw_xml",
                "file_hash", "query_name"})
    \cup Entire("live_logs_archive", {"file_hash", "query_name"})
    \cup Entire("sigma_rules", {"source", "sigma_uuid", "cloned_from", "created_by",
                "created_at", "updated_by", "updated_at", "severity_override",
                "compliance_tags"})
    \cup Entire("alerts", {"rule_name", "host", "message", "username", "source_ip",
                "destination_ip", "log_event_id", "log_app", "occurrence_count", "last_seen",
                "status", "assignee"})
    \cup Entire("stix_indicators", {"ioc_type", "feed_id"})
    \cup Entire("ti_feeds", {"api_key", "sync_interval_minutes", "feed 1"})
    \cup Entire("agent_commands", {"sent_at"})
    \cup Entire("ueba_entity_baselines", {"days_seen", "baseline_mode"})
    \cup Entire("cases", {"tlp", "pap"})
    \cup Entire("risk_score_events", {"rule_id"})
    \cup Entire("anomaly_rules", {}) \cup Entire("anomaly_rule_conditions", {"logic"})
Empty == UNION {Entire(t, {}) : t \in SchemaTables}
New == Empty \cup SchemaColumns
Old == Empty \cup Entire("agent_tokens", {"token", "enrolled"})
             \cup Entire("anomaly_rules", {"field", "rule"})
             \cup Entire("settings", {"notifications"})
             \cup Entire("ir_runbooks", {"old wording"})
Polls == Entire("agent_polls", {"version", "os", "os_detail"})

VARIABLES
    area,     \* the migrations of this behaviour
    db,       \* what is committed
    writer,   \* the worker whose transaction is open, or "nobody"
    draft,    \* the database as that transaction sees it
    at,       \* per worker, the migration and the statement it comes to
    saw,      \* per worker, the result of its last query
    starts, deaths,
    failed    \* a check-in that was answered with an error

dataVars == <<db, writer, draft>>
vars == <<area, dataVars, at, saw, starts, deaths, failed>>

Nobody == "nobody"
Migration(i) == Calls[area][i]
Count(a) == Len(Calls[a])
Ended(w) == at[w][1] > Count(area)
Visible(w) == IF writer = w THEN draft ELSE db
ItemsOf(c, t) == {f[2] : f \in {g \in c : g[1] = t}}

LeftOut(st, seen) == st.unless \cap seen # {} \/ ~(st.given \subseteq seen)
\* The next statement from j on that a worker which saw this comes to.
Position(i, j, seen) ==
    <<i, CHOOSE k \in j .. Len(Migration(i)) + 1 :
            /\ k > Len(Migration(i)) \/ ~LeftOut(Migration(i)[k], seen)
            /\ \A n \in j .. k - 1 : LeftOut(Migration(i)[n], seen)>>
Beginning == [w \in Worker |-> <<1, 1>>]

\* What a statement needs and what must not be there yet.
Needed(st) == {<<st.on, Itself>>} \cup
              (IF st.op \in {"uses", "query"} THEN {<<st.on, x>> : x \in st.items} ELSE {}) \cup
              (IF st.op = "move" THEN {<<st.to, Itself>>} ELSE {})
Unwanted(st) == CASE st.op \in {"add", "insert"} -> {<<st.on, x>> : x \in st.items}
                  [] st.op \in {"make", "rename"} -> {<<st.to, Itself>>}
                  [] OTHER -> {}
Anywhere == {"look", "stop", "table", "make", "drop", "try"}
Fails(st, c) == \/ st.op \notin Anywhere /\ ~(Needed(st) \subseteq c)
                \/ Unwanted(st) \cap c # {}

After(st, c) ==
    LET new == {<<st.on, x>> : x \in st.items}
        others == {f \in c : f[1] # st.on} IN
    CASE st.op = "table" -> IF <<st.on, Itself>> \in c THEN c ELSE c \cup Entire(st.on, st.items)
      [] st.op = "make" -> c \cup Entire(st.on, st.items)
      [] st.op = "try" -> IF <<st.on, Itself>> \in c THEN c \cup new ELSE c
      [] st.op \in {"add", "insert", "seed"} -> c \cup new
      [] st.op = "copy" ->
           c \cup new \cup {<<Second, x>> : x \in st.items \cap ItemsOf(c, st.on)}
      [] st.op = "move" -> c \cup {<<st.to, x>> : x \in st.items \cap ItemsOf(c, st.on)}
      [] st.op = "drop" -> others
      [] st.op = "rename" -> others \cup {<<st.to, x>> : x \in ItemsOf(c, st.on)}
      [] OTHER -> c

Statements(a) == UNION {{Calls[a][i][j] : j \in DOMAIN Calls[a][i]} : i \in 1 .. Count(a)}

\* What a migration leaves when nothing disturbs it; a table that takes the place of
\* another has rows only where that one had some.
Brings(i, a) ==
    LET f == Calls[a][i]
        renamed == {f[n].on : n \in {m \in DOMAIN f : f[m].op = "rename"}} IN
    UNION {{<<f[k].on, x>> : x \in f[k].items \cup {Itself}} :
             k \in {n \in DOMAIN f : /\ f[n].op \in {"table", "add", "seed", "insert", "copy"}
                                     /\ f[n].on \notin renamed}}

\* A new or an old installation, or one that ran the first k migrations.
Init ==
    /\ area \in DOMAIN Calls
    /\ \E base \in {New, Old}, k \in 0 .. Count(area) :
          /\ k > 0 => base = New
          /\ db = {f \in base \cup (IF Reported THEN Polls ELSE {})
                              \cup UNION {Brings(i, area) : i \in 1 .. k} :
                     f[1] \in {st.on : st \in Statements(area)}}
    /\ writer = Nobody /\ draft = {}
    /\ at = Beginning
    /\ saw = [w \in Worker |-> {}]
    /\ starts = 1 /\ deaths = 0 /\ failed = FALSE

\* As if every statement committed by itself.
Opens_Never(st) == FALSE

Opens(st) == st.op \in {"seed", "insert", "copy", "move"}
Reads(st) == st.op \in {"look", "query", "stop"}

\* The statement does what it says and the worker comes to the next one.
Goes(w, i, j, seen) ==
    /\ at' = [at EXCEPT ![w] = Position(i, j, seen)]
    /\ saw' = [saw EXCEPT ![w] = seen]

\* The end of a migration, regular or not; the transaction is gone either way.
Leaves(w, c) ==
    /\ at' = [at EXCEPT ![w] = <<at[w][1] + 1, 1>>]
    /\ saw' = [saw EXCEPT ![w] = {}]
    /\ IF writer = w THEN db' = c /\ writer' = Nobody /\ draft' = {} ELSE UNCHANGED dataVars

Statement(w) ==
    LET i == at[w][1]
        j == at[w][2]
        st == Migration(i)[j]
        c == Visible(w) IN
    /\ ~Ended(w) /\ j <= Len(Migration(i))
    /\ Reads(st) \/ writer \in {w, Nobody}
    /\ CASE st.op = "stop" \/ Fails(st, c) -> Leaves(w, db)
         [] Reads(st) -> Goes(w, i, j + 1, ItemsOf(c, st.on)) /\ UNCHANGED dataVars
         [] OTHER ->
              /\ Goes(w, i, j + 1, saw[w])
              /\ IF Opens(st) \/ writer = w
                 THEN writer' = w /\ draft' = After(st, c) /\ UNCHANGED db
                 ELSE db' = After(st, c) /\ UNCHANGED <<writer, draft>>
    /\ UNCHANGED <<area, starts, deaths, failed>>

Commit(w) ==
    /\ ~Ended(w) /\ at[w][2] > Len(Migration(at[w][1]))
    /\ Leaves(w, draft)
    /\ UNCHANGED <<area, starts, deaths, failed>>

\* A worker dies; its transaction is rolled back and gunicorn starts another.
Dies(w) ==
    /\ deaths < MaxDeath /\ ~Ended(w)
    /\ deaths' = deaths + 1
    /\ at' = [at EXCEPT ![w] = <<1, 1>>]
    /\ saw' = [saw EXCEPT ![w] = {}]
    /\ IF writer = w THEN writer' = Nobody /\ draft' = {} /\ UNCHANGED db ELSE UNCHANGED dataVars
    /\ UNCHANGED <<area, starts, failed>>

\* A check-in at a worker that serves: agent_polls is made as it was before the
\* columns that later versions added, then both tables are written.
CheckIn(w) ==
    /\ area = "agents" /\ Ended(w) /\ writer = Nobody
    /\ db' = IF <<"agent_polls", Itself>> \in db THEN db ELSE db \cup Polls
    /\ failed' = (failed \/ ~({<<"agent_polls", "packaging">>,
                               <<"agent_version_history", Itself>>} \subseteq db))
    /\ UNCHANGED <<area, writer, draft, at, saw, starts, deaths>>

Restart ==
    /\ starts < MaxStart /\ \A w \in Worker : Ended(w)
    /\ starts' = starts + 1
    /\ at' = Beginning
    /\ UNCHANGED <<area, dataVars, saw, deaths, failed>>

Next == \/ \E w \in Worker : Statement(w) \/ Commit(w) \/ Dies(w) \/ CheckIn(w)
        \/ Restart

Spec == Init /\ [][Next]_vars

Started == starts = MaxStart /\ \A w \in Worker : Ended(w)

TypeOK ==
    /\ area \in DOMAIN Calls /\ writer \in Worker \cup {Nobody}
    /\ \A w \in Worker : at[w] \in (1 .. Count(area) + 1) \X (Nat \ {0})
    /\ writer = Nobody => draft = {}
    /\ starts \in 1 .. MaxStart /\ deaths \in 0 .. MaxDeath /\ failed \in BOOLEAN

(* Although workers get in each other's way and a failed statement ends a     *)
(* migration half-way, every table and column is there once all of them are   *)
(* through the last start: whoever is stopped by a column that is there       *)
(* already leaves the rest to the one who added it.                           *)
Demanded(a) ==
    {<<st.on, Itself>> : st \in {s \in Statements(a) : s.op = "table"}}
    \cup UNION {{<<st.on, x>> : x \in st.items} :
                  st \in {s \in Statements(a) : s.op \in {"add", "try"}}}
Upgraded == Started => Demanded(area) \subseteq db

(* Seeds that belong together arrive together, whoever dies in between: a     *)
(* dashboard with its widgets, a role or a flag with its permissions, a       *)
(* playbook with its action, a list with its entries.                         *)
Together == {
    <<"dashboards", "Overview", "dashboard_widgets", "of Overview">>,
    <<"dashboards", "Insider Threat", "dashboard_widgets", "of Insider Threat">>,
    <<"roles", "builtin", "role_permissions", "builtin">>,
    <<"roles", "insider_threat", "role_permissions", "insider_threat">>,
    <<"settings", "templates flag", "role_permissions", "templates grant">>,
    <<"settings", "runbooks flag", "role_permissions", "runbooks grant">>,
    <<"playbooks", "starter", "playbook_actions", "starter">>,
    <<"playbooks", "legacy", "playbook_actions", "legacy">>,
    <<"warninglists", "lists", "warninglist_entries", "entries">>,
    <<"anomaly_rules", "seed rules", "anomaly_rule_conditions", "seed conditions">>}
SeededWhole == \A g \in Together : <<g[1], g[2]>> \in db <=> <<g[3], g[4]>> \in db

(* The tables that are rebuilt keep their rows in every committed state: no   *)
(* enrolled agent and no rule is lost, whatever order the workers rebuild in. *)
Rebuilt == {[table |-> "agent_tokens", row |-> "enrolled", anew |-> "agent_tokens_hashed"],
            [table |-> "anomaly_rules", row |-> "rule", anew |-> "anomaly_rules_new"]}
RowsKept ==
    [][\A b \in Rebuilt : <<b.table, b.row>> \in db => <<b.table, b.row>> \in db']_vars

(* How it is done: the row is carried into the new table, by a statement that *)
(* moves it or, if the migration has read it, inserts it; then at once the    *)
(* old table is dropped and the new one takes its name.  Nothing else drops   *)
(* or renames these tables, or brings the row.                                *)
Unconditional(st) == st.unless = {} /\ st.given = {}
LastRead(f, q, k, t) ==
    /\ f[q].op \in {"look", "query"} /\ f[q].on = t /\ Unconditional(f[q])
    /\ \A m \in q + 1 .. k - 1 : ~Reads(f[m])
Carries(f, k, b) ==
    \/ /\ f[k].op = "move" /\ f[k].on = b.table /\ f[k].to = b.anew
       /\ b.row \in f[k].items /\ Unconditional(f[k])
    \/ /\ f[k].op = "seed" /\ f[k].on = b.anew
       /\ f[k].items = {b.row} /\ f[k].given = {b.row} /\ f[k].unless = {}
       /\ \E q \in 1 .. k - 1 : LastRead(f, q, k, b.table)
Swaps(f, k, b) ==
    /\ k \in 1 .. Len(f) - 2 /\ Carries(f, k, b)
    /\ f[k + 1].op = "drop" /\ f[k + 1].on = b.table /\ Unconditional(f[k + 1])
    /\ f[k + 2].op = "rename" /\ f[k + 2].on = b.anew /\ f[k + 2].to = b.table
    /\ Unconditional(f[k + 2])
Rebuilds(f, b) ==
    \A k \in DOMAIN f :
        LET st == f[k] IN
        /\ st.op = "drop" /\ st.on = b.table => Swaps(f, k - 1, b)
        /\ st.op = "rename" /\ {st.on, st.to} \cap {b.table, b.anew} # {} => Swaps(f, k - 2, b)
        /\ \/ st.op \in {"table", "make", "add", "try", "seed", "insert", "copy"}
                /\ st.on \in {b.table, b.anew}
           \/ st.op = "move" /\ st.to \in {b.table, b.anew}
           => (b.row \in st.items => Swaps(f, k, b))
Pairs(c) == \A f \in c : f = <<f[1], f[2]>>
RebuildsWell ==
    /\ \A a \in DOMAIN Calls :
          /\ Calls[a] \in Seq(Seq([op : STRING, on : STRING, items : SUBSET STRING,
                                  to : STRING, unless : SUBSET STRING, given : SUBSET STRING]))
          /\ \A i \in DOMAIN Calls[a], b \in Rebuilt : Rebuilds(Calls[a][i], b)
    /\ \A b \in Rebuilt : <<b.anew, b.row>> \notin New \cup Old \cup Polls
    /\ Pairs(New \cup Old \cup Polls)

(* What the comments say of the seeds: they are inserted once (violated).     *)
SeededOnce == ItemsOf(db, Second) = {}

(* What the comments say of the columns of agent_polls: a check-in finds them *)
(* (violated: on a new installation the table is made without them, after the *)
(* migration that adds them to an existing one).                              *)
CheckInServed == ~failed

=============================================================================
