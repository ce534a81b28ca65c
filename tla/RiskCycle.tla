------------------------------ MODULE RiskCycle ------------------------------
(* The hourly cycle of ueba_engine.py for one entity: the models look for      *)
(* anomalies, the new alerts are scored with the custom rules, an entity that  *)
(* trips several kinds of signal gets a bonus, its priority is computed anew,  *)
(* and one that crosses the threshold gets a case.  Every stage is a           *)
(* transaction of its own, and the process may die between two.                *)
EXTENDS Integers, Sequences, FiniteSets, FiniteSetsExt

CONSTANTS
    Models,        \* the models that can find the entity
    Stages,        \* the stages of the sequence its custom rules belong to: 1 .. Stages
    ChainWindow, ConvergenceWindow, ScoreWindow, Cooldown,   \* hours
    MinIndicators, \* ueba_convergence_min_indicators
    Threshold,     \* ueba_autocase_threshold, an indicator counting one
    MaxNow,        \* bound: hours
    MaxAlert,      \* bound: alerts about the entity
    Switches,      \* bound: the settings that change
    MaxToggle      \* bound: how often they do

Bonuses == {"sequence_chain_progression", "multi_signal_convergence"}

RiskCycleBounds ==
    /\ {Stages, ChainWindow, ConvergenceWindow, ScoreWindow, Cooldown, Threshold} \subseteq Nat
    /\ MinIndicators \in Nat \ {0, 1} /\ {MaxNow, MaxAlert, MaxToggle} \subseteq Nat
    /\ Switches \subseteq {"models", "chain", "convergence", "priority", "autocase"}
    /\ Models \cap Bonuses = {}

Time == 0 .. MaxNow
Never == -1
Stage == 1 .. Stages
Setting == {"models", "chain", "convergence", "priority", "autocase"}

VARIABLES
    now,        \* the hour
    pc,         \* the stage of the run that comes next
    due,        \* the run of this hour has not begun
    settings,   \* what is switched on; without "models" the entity is excluded from them
    toggles,
    alerts,     \* the alerts about the entity: the stage whose rule matches, 0 for none
    mark,       \* risk_scoring_last_alert_id
    events,     \* risk_score_events
    critical,   \* ueba_priority_scores has the entity in the highest tier
    lastCase,   \* ueba_autocase_log
    opened      \* history: when cases were opened for it

book == <<settings, toggles>>
vars == <<now, pc, due, book, alerts, mark, events, critical, lastCase, opened>>

\* An event: what it is for, the rule it belongs to (0 for none), and the alert (0 for none).
Event(indicator, rule, alert) ==
    [indicator |-> indicator, rule |-> rule, alert |-> alert, at |-> now]
Indicators ==
    Models \cup {"sigma_alert", "custom_alert_rule", "first_time_action"} \cup Bonuses

TypeOK ==
    /\ now \in Time /\ due \in BOOLEAN
    /\ pc \in {"idle", "score", "converge", "prioritise", "open"}
    /\ settings \subseteq Setting /\ toggles \in 0 .. MaxToggle
    /\ alerts \in Seq(0 .. Stages) /\ Len(alerts) <= MaxAlert /\ mark \in 0 .. Len(alerts)
    /\ events \subseteq [indicator : Indicators, rule : 0 .. Stages, alert : 0 .. MaxAlert,
                         at : Time]
    /\ critical \in BOOLEAN
    /\ lastCase \in Time \cup {Never} /\ opened \in Seq(Time)

Init ==
    /\ now = 0 /\ pc = "idle" /\ due = TRUE
    /\ settings = Setting /\ toggles = 0
    /\ alerts = <<>> /\ mark = 0 /\ events = {}
    /\ critical = FALSE
    /\ lastCase = Never /\ opened = <<>>

Within(window) == {e \in events : e.at >= now - window}
Of(E, indicator) == {e \in E : e.indicator = indicator}

-----------------------------------------------------------------------------

Tick ==
    /\ pc = "idle" /\ now < MaxNow
    /\ now' = now + 1 /\ due' = TRUE
    /\ UNCHANGED <<pc, book, alerts, mark, events, critical, lastCase, opened>>

Toggle(x) ==
    /\ toggles < MaxToggle /\ toggles' = toggles + 1
    /\ settings' = IF x \in settings THEN settings \ {x} ELSE settings \cup {x}
    /\ UNCHANGED <<now, pc, due, alerts, mark, events, critical, lastCase, opened>>

Alert(stage) ==
    /\ Len(alerts) < MaxAlert
    /\ alerts' = Append(alerts, stage)
    /\ UNCHANGED <<now, pc, due, book, mark, events, critical, lastCase, opened>>

\* run_ueba_models: what the models find (see Baselines) is scored, every hour anew.
RunModels(found) ==
    /\ pc = "idle" /\ due
    /\ due' = FALSE /\ pc' = "score"
    /\ events' = IF "models" \in settings THEN events \cup {Event(m, 0, 0) : m \in found}
                 ELSE events
    /\ UNCHANGED <<now, book, alerts, mark, critical, lastCase, opened>>

\* _sequence_chain_bonus_event: an earlier stage is on record, and no bonus for this one.
Progresses(stage) ==
    /\ "chain" \in settings /\ stage > 1
    /\ \E e \in Within(ChainWindow) : e.rule \in 1 .. stage - 1
    /\ \A e \in Of(Within(ChainWindow), "sequence_chain_progression") : e.rule # stage
FirstMatch(i) == \A j \in 1 .. i - 1 : alerts[j] # alerts[i]

\* _score_alerts: the alert itself, its rule, the first match, and the progression.
Scored(i) ==
    {Event("sigma_alert", 0, i)}
      \cup (IF alerts[i] = 0 THEN {} ELSE {Event("custom_alert_rule", alerts[i], i)})
      \cup (IF alerts[i] # 0 /\ FirstMatch(i) THEN {Event("first_time_action", alerts[i], i)}
            ELSE {})
      \cup (IF Progresses(alerts[i]) THEN {Event("sequence_chain_progression", alerts[i], i)}
            ELSE {})

\* run_risk_scoring.
ScoreAlerts ==
    /\ pc = "score"
    /\ events' = events \cup UNION {Scored(i) : i \in mark + 1 .. Len(alerts)}
    /\ mark' = Len(alerts)
    /\ pc' = "converge"
    /\ UNCHANGED <<now, due, book, alerts, critical, lastCase, opened>>

\* Broken variant: a bonus that still stands does not matter.
Converges_Again ==
    /\ "convergence" \in settings
    /\ Cardinality({e.indicator : e \in Within(ConvergenceWindow)
                                        \ Of(events, "multi_signal_convergence")})
         >= MinIndicators
Converges ==
    LET signals == Within(ConvergenceWindow) \ Of(events, "multi_signal_convergence")
    IN  /\ "convergence" \in settings
        /\ Cardinality({e.indicator : e \in signals}) >= MinIndicators
        /\ Of(Within(ConvergenceWindow), "multi_signal_convergence") = {}

\* run_convergence_scoring: several kinds of signal, and no bonus that still stands.
Converge ==
    /\ pc = "converge" /\ pc' = "prioritise"
    /\ events' = IF Converges THEN events \cup {Event("multi_signal_convergence", 0, 0)}
                 ELSE events
    /\ UNCHANGED <<now, due, book, alerts, mark, critical, lastCase, opened>>

\* run_priority_scoring: the snapshot is replaced; switched off, it stays as it was.
\* Which blend of peak, breadth and freshness is critical is left open.
Prioritise(verdict) ==
    /\ pc = "prioritise" /\ pc' = "open"
    /\ critical' = IF "priority" \in settings THEN verdict /\ events # {} ELSE critical
    /\ UNCHANGED <<now, due, book, alerts, mark, events, lastCase, opened>>

Points(e) == IF e.indicator = "sequence_chain_progression" THEN e.rule - 1 ELSE 1
Score == MapThenSumSet(Points, Within(ScoreWindow))
Crosses == Within(ScoreWindow) # {} /\ (Score >= Threshold \/ critical)

\* Broken variant: the row of the log is inserted and never renewed.
LogRow_Kept == IF lastCase = Never THEN now ELSE lastCase
LogRow == now

\* run_autocase_check: the case, its row in the log and in the outbox of the playbooks.
OpenCase ==
    /\ pc = "open" /\ pc' = "idle"
    /\ IF /\ "autocase" \in settings /\ Crosses
          /\ lastCase = Never \/ lastCase < now - Cooldown
       THEN /\ opened' = Append(opened, now)
            /\ lastCase' = LogRow
       ELSE UNCHANGED <<opened, lastCase>>
    /\ UNCHANGED <<now, due, book, alerts, mark, events, critical>>

Dies ==
    /\ pc # "idle" /\ pc' = "idle"
    /\ UNCHANGED <<now, due, book, alerts, mark, events, critical, lastCase, opened>>

Next ==
    \/ Tick \/ Dies
    \/ \E x \in Switches : Toggle(x)
    \/ \E stage \in 0 .. Stages : Alert(stage)
    \/ \E found \in SUBSET Models : RunModels(found)
    \/ ScoreAlerts \/ Converge
    \/ \E verdict \in BOOLEAN : Prioritise(verdict)
    \/ OpenCase

Spec == Init /\ [][Next]_vars

-----------------------------------------------------------------------------
(* Properties.                                                               *)

Apart(t, u, window) == t < u => u - t > window

\* "An entity that stays above threshold every cycle only gets one case per cooldown
\* window", and a bonus for convergence, or for a stage reached, is not stacked on one
\* from an earlier hour of the same window: whatever hours die half-way or are switched off.
NeverStacked ==
    /\ \A i, j \in DOMAIN opened : i < j => opened[j] - opened[i] > Cooldown
    /\ \A e, f \in Of(events, "multi_signal_convergence") : Apart(e.at, f.at, ConvergenceWindow)
    /\ \A e, f \in Of(events, "sequence_chain_progression") :
         e.rule = f.rule => Apart(e.at, f.at, ChainWindow)

\* "Only fires once per (entity, rule) thanks to the rule_id dedup check".
ChainFiresOnce ==
    \A e, f \in Of(events, "sequence_chain_progression") :
        e.rule = f.rule /\ e # f => Apart(e.at, f.at, ChainWindow) /\ e.at # f.at

\* "This rewards a SPECIFIC admin-defined ordered progression": two stages in a row, both
\* scored, leave a bonus.
ChainRewarded ==
    settings = Setting /\ toggles = 0 =>
        \A i, j \in 1 .. mark : i < j /\ 0 < alerts[i] /\ alerts[i] < alerts[j] =>
            \E e \in Of(events, "sequence_chain_progression") : e.rule = alerts[j]
=============================================================================
