----------------------------- MODULE Migrations -----------------------------
(* What the migrate_* functions that app.py calls while it is imported do to  *)
(* the database, each as the sequence of its statements.  A fact is a pair: a *)
(* table and an item of it, a column or seeded rows.  Columns appear when     *)
(* some function adds them, the other columns of a table with the table.      *)
EXTENDS Sequences, Facts

(* The statements.  "unless" and "given" name items of the result of the      *)
(* last query: the statement is left out if one was there, or was not.        *)
Plain(op, t, xs) ==
    [op |-> op, on |-> t, items |-> xs, to |-> t, unless |-> {}, given |-> {}]

Look(t) == Plain("look", t, {})                \* PRAGMA table_info
Query(t) == Plain("query", t, {})              \* SELECT
StopIf(x) == [Plain("stop", "", {}) EXCEPT !.given = {x}]         \* return
StopUnless(x) == [Plain("stop", "", {}) EXCEPT !.unless = {x}]    \* return
Table(t, cols) == Plain("table", t, cols)      \* CREATE TABLE IF NOT EXISTS
Make(t, cols) == Plain("make", t, cols)        \* CREATE TABLE
Uses(t, cols) == Plain("uses", t, cols)        \* fails without these columns
Index(t, cols) == Uses(t, cols)                \* CREATE INDEX IF NOT EXISTS
Column(t, c) == [Plain("add", t, {c}) EXCEPT !.unless = {c}]
Columns(t, cols) == [i \in DOMAIN cols |-> Column(t, cols[i])]
Drop(t) == Plain("drop", t, {})
Rename(from, to) == [Plain("rename", from, {}) EXCEPT !.to = to]
Seed(t, xs) == Plain("seed", t, xs)            \* INSERT OR IGNORE, UPDATE
Insert(t, x) == Plain("insert", t, {x})        \* INSERT into a unique key
Copy(t, x) == Plain("copy", t, {x})            \* INSERT that no key stops
Move(from, to, xs) == [Plain("move", from, xs) EXCEPT !.to = to]
If(x, step) == [step EXCEPT !.given = {x}]
Unless(x, step) == [step EXCEPT !.unless = {x}]

(* Settings, feeds, indicators and the reference data of threat intelligence. *)
migrate_settings == <<Table("settings", {}), Seed("settings", {"defaults"})>>

migrate_ti_feeds ==
    <<Table("ti_feeds", {}), Look("ti_feeds")>>
    \o Columns("ti_feeds", <<"api_key", "sync_interval_minutes">>)
    \o <<Seed("ti_feeds", {"feeds 1 to 3"}), Query("ti_feeds"),
         Unless("tor_exit", Copy("ti_feeds", "tor_exit"))>>

migrate_stix_indicators ==
    <<Look("stix_indicators")>>
    \o Columns("stix_indicators", <<"ioc_type", "feed_id">>)
    \o <<Query("stix_indicators"), Query("ti_feeds"), Seed("stix_indicators", {"types"})>>

migrate_stix_indicators_metadata_columns ==
    <<Look("stix_indicators")>>
    \o Columns("stix_indicators", <<"confidence", "category", "tlp", "tags">>)

migrate_warninglists ==
    <<Table("warninglists", {}), Table("warninglist_entries", {}),
      Index("warninglist_entries", {}), Look("warninglists"),
      Column("warninglists", "source_list"), Query("warninglists"),
      Unless("lists", Copy("warninglists", "lists")),
      Unless("lists", Seed("warninglist_entries", {"entries"}))>>

migrate_ioc_sightings == <<Table("ioc_sightings", {}), Index("ioc_sightings", {})>>

migrate_ioc_sightings_alert_id ==
    <<Look("ioc_sightings"), Column("ioc_sightings", "alert_id"),
      Unless("alert_id", Seed("ioc_sightings", {"alert ids"}))>>

migrate_ti_entities ==
    <<Table("ti_entities", {}), Table("ti_relationships", {}),
      Index("ti_relationships", {}), Seed("ti_entities", {"actors"})>>

migrate_ti_entities_confidence ==
    <<Look("ti_entities")>> \o Columns("ti_entities", <<"confidence", "attribution_note">>)

migrate_ti_entities_references ==
    <<Look("ti_entities"), Column("ti_entities", "external_references")>>

migrate_coverage_snapshots == <<Table("coverage_snapshots", {})>>
migrate_custom_parsers == <<Table("custom_parsers", {})>>
migrate_saved_searches == <<Table("saved_searches", {})>>

(* Agents: their commands, polls and tokens.                                  *)
migrate_agent_commands == <<Table("agent_commands", {}), Index("agent_commands", {})>>
migrate_agent_commands_sent_at == <<Look("agent_commands"), Column("agent_commands", "sent_at")>>

migrate_agent_offline_alerts ==
    <<Table("agent_offline_alerts", {}), Index("agent_offline_alerts", {}),
      Look("agent_offline_alerts"), Column("agent_offline_alerts", "resolved_at")>>

migrate_agent_polls_os_detail ==
    <<Look("agent_polls")>> \o Columns("agent_polls", <<"os_detail", "packaging">>)

migrate_agent_versions ==
    <<Look("agent_polls")>> \o Columns("agent_polls", <<"version", "os">>)
    \o <<Table("agent_version_history", {})>>

migrate_agent_tokens == <<Table("agent_tokens", {"token_hash", "group_name"})>>
migrate_agent_groups == <<Look("agent_tokens"), Column("agent_tokens", "group_name")>>

\* The rows are those read at the start; they are hashed into a table that takes
\* the place of the old one.
migrate_agent_token_hashing ==
    <<Look("agent_tokens"), StopUnless(Itself), StopIf("token_hash"),
      Plain("query", "agent_tokens", {"token"}),
      Drop("agent_tokens_hashed"),
      Make("agent_tokens_hashed", {"token_hash", "group_name"}),
      If("enrolled", Seed("agent_tokens_hashed", {"enrolled"})),
      Drop("agent_tokens"), Rename("agent_tokens_hashed", "agent_tokens")>>

migrate_fim_paths == <<Table("fim_paths", {})>>

(* Alerts.                                                                    *)
migrate_alerts_columns ==
    <<Look("alerts")>> \o Columns("alerts", <<"rule_name", "host", "message">>)
    \o <<Index("alerts", {})>>

migrate_alerts_enrichment ==
    <<Look("alerts")>>
    \o Columns("alerts", <<"username", "source_ip", "destination_ip", "log_event_id", "log_app">>)
    \o <<Uses("live_logs", {"source_ip", "destination_ip"}), Seed("alerts", {"from logs"})>>

migrate_alerts_dedup_columns ==
    <<Look("alerts")>> \o Columns("alerts", <<"occurrence_count", "last_seen">>)

migrate_alerts_effective_seen ==
    <<Look("alerts"), Column("alerts", "effective_seen"),
      Index("alerts", {"host", "username", "effective_seen"})>>

migrate_alert_escalations ==
    <<Table("alert_escalations", {}), Index("alert_escalations", {}),
      Look("alert_escalations"), Column("alert_escalations", "username"),
      Index("alert_escalations", {"username"})>>

migrate_atomic_tests ==
    <<Table("atomic_tests", {}), Index("atomic_tests", {}),
      Table("atomic_test_runs", {}), Index("atomic_test_runs", {})>>

migrate_alerts_atomic_test_flag == <<Look("alerts"), Column("alerts", "is_atomic_test")>>

migrate_alerts_triage ==
    <<Look("alerts")>> \o Columns("alerts", <<"status", "assignee">>)

migrate_alerts_geoip_columns ==
    <<Look("alerts")>> \o Columns("alerts", <<"country_code", "country_name">>)

migrate_alerts_mitre_column == <<Look("alerts"), Column("alerts", "mitre_techniques")>>

migrate_alerts_verdict_columns ==
    <<Look("alerts")>>
    \o Columns("alerts", <<"file_hash", "confidence_score", "confidence_tier">>)

(* Logs, their archive, their indexes and imports.                            *)
migrate_log_source_silent_alerts ==
    <<Table("log_source_silent_alerts", {}), Index("log_source_silent_alerts", {}),
      Look("log_source_silent_alerts"), Column("log_source_silent_alerts", "host"),
      Index("log_source_silent_alerts", {"host"})>>

migrate_live_logs_archive == <<Table("live_logs_archive", {}), Index("live_logs_archive", {})>>

migrate_live_logs_ip_columns ==
    <<Look("live_logs")>> \o Columns("live_logs", <<"source_ip", "destination_ip">>)

migrate_live_logs_process_columns ==
    <<Look("live_logs")>>
    \o Columns("live_logs", <<"process_image", "command_line", "parent_image",
                              "parent_command_line", "original_file_name", "raw_xml">>)

migrate_live_logs_hash_dns_columns ==
    <<Look("live_logs")>> \o Columns("live_logs", <<"file_hash", "query_name">>)
    \o <<Look("live_logs_archive")>>
    \o Columns("live_logs_archive", <<"file_hash", "query_name">>)

migrate_log_search_indexes ==
    <<Index("live_logs", {}), Index("live_logs_archive", {}), Index("alerts", {"host"}),
      Index("events", {}), Index("agent_commands", {})>>

migrate_ueba_insights_indexes == <<Index("live_logs", {}), Index("alerts", {"host"})>>

migrate_log_imports ==
    <<Table("imports", {}), Index("imports", {}),
      Table("import_errors", {}), Index("import_errors", {}),
      Table("imported_logs", {}), Index("imported_logs", {}),
      Table("import_mapping_profiles", {}), Look("imports")>>
    \o Columns("imports", <<"replay_status", "replay_rule_offset", "replay_alerts_created",
                            "replay_started_at", "replay_completed_at">>)

migrate_alerts_import_id == <<Look("alerts"), Column("alerts", "import_id")>>

(* Detection rules.                                                           *)
migrate_yara_forge_synced_rules == <<Table("yara_forge_synced_rules", {})>>

migrate_yara_repo_synced_files ==
    <<Table("yara_rules_project_synced_files", {}), Table("signature_base_synced_files", {})>>

migrate_yara_rule_tags == <<Table("yara_rule_tags", {}), Index("yara_rule_tags", {})>>

migrate_sigma_aggregation ==
    <<Table("sigma_aggregation_matches", {}), Index("sigma_aggregation_matches", {}),
      Table("sigma_aggregation_alerts", {}), Index("sigma_aggregation_alerts", {})>>

migrate_sigma_rules_columns ==
    <<Look("sigma_rules"), Column("sigma_rules", "source"),
      Unless("source", Seed("sigma_rules", {"sources"}))>>
    \o Columns("sigma_rules", <<"sigma_uuid", "cloned_from", "created_by", "created_at",
                                "updated_by", "updated_at">>)
    \o <<Unless("sigma_uuid", Seed("sigma_rules", {"uuids"})),
         Table("sigma_rule_history", {}), Index("sigma_rule_history", {})>>

migrate_rule_tuning ==
    <<Look("sigma_rules"), Column("sigma_rules", "severity_override"),
      Table("rule_exclusions", {}), Index("rule_exclusions", {})>>

migrate_rule_autocase ==
    <<Look("sigma_rules")>> \o Columns("sigma_rules", <<"auto_case", "auto_case_template_id">>)

migrate_compliance_tags == <<Look("sigma_rules"), Column("sigma_rules", "compliance_tags")>>

migrate_sigma_rules_original_yaml ==
    <<Look("sigma_rules"), Column("sigma_rules", "original_yaml"),
      Unless("original_yaml", Seed("sigma_rules", {"originals"}))>>

migrate_sigma_rules_upstream_yaml == <<Look("sigma_rules"), Column("sigma_rules", "upstream_yaml")>>
migrate_seed_ioc_correlation_rule ==
    <<Query("sigma_rules"), Unless("ioc rule", Copy("sigma_rules", "ioc rule"))>>

(* Entities, risk scores and the anomaly rules.                               *)
migrate_ueba_entities ==
    <<Look("events"), Column("events", "entity_type"),
      Table("ueba_exclusions", {}), Index("ueba_exclusions", {}),
      Table("ueba_entity_baselines", {})>>

migrate_ueba_math_v2 ==
    <<Look("ueba_entity_baselines")>>
    \o Columns("ueba_entity_baselines", <<"days_seen", "baseline_mode">>)

migrate_assets_identities == <<Table("assets", {}), Table("identities", {})>>

migrate_identities_watchlist ==
    <<Look("identities")>>
    \o Columns("identities", <<"watched", "watch_reason", "watched_at", "watched_by">>)

migrate_identities_departing ==
    <<Look("identities")>>
    \o Columns("identities", <<"departing", "departing_note", "departing_at", "departing_by">>)

migrate_ueba_priority_scores == <<Table("ueba_priority_scores", {})>>
migrate_ueba_autocase == <<Table("ueba_autocase_log", {})>>
migrate_risk_scoring == <<Table("risk_score_events", {}), Index("risk_score_events", {})>>

migrate_risk_score_events_rule_id ==
    <<Plain("try", "risk_score_events", {"rule_id"}), Index("risk_score_events", {"rule_id"})>>

migrate_anomaly_rules ==
    <<Table("anomaly_rules", {}), Seed("anomaly_rules", {"without audit_log"})>>

migrate_anomaly_rules_sequence_columns ==
    <<Look("anomaly_rules")>>
    \o Columns("anomaly_rules", <<"sequence_name", "sequence_stage">>)

migrate_anomaly_rules_description ==
    <<Look("anomaly_rules"), Column("anomaly_rules", "description")>>

\* An old table has the column "field": each rule's condition moves to a table of
\* its own and the rules to a table without it.
migrate_anomaly_rule_conditions ==
    <<Look("anomaly_rules"), Table("anomaly_rule_conditions", {"logic"}),
      Index("anomaly_rule_conditions", {}), StopUnless("field"),
      Plain("query", "anomaly_rules", {"field"}),
      Query("anomaly_rule_conditions"),
      Unless("condition", Copy("anomaly_rule_conditions", "condition")),
      Make("anomaly_rules_new", {}),
      Move("anomaly_rules", "anomaly_rules_new", {"rule", "seed rules"}),
      Drop("anomaly_rules"), Rename("anomaly_rules_new", "anomaly_rules")>>

migrate_anomaly_rule_conditions_logic ==
    <<Look("anomaly_rule_conditions"), Column("anomaly_rule_conditions", "logic")>>

migrate_seed_ueba_rules ==
    <<Query("anomaly_rules"), Unless("seed rules", Copy("anomaly_rules", "seed rules")),
      Unless("seed rules", Seed("anomaly_rule_conditions", {"seed conditions"}))>>

(* Cases.                                                                     *)
migrate_cases ==
    <<Table("cases", {}), Table("case_items", {}), Index("case_items", {})>>

migrate_case_visibility ==
    <<Look("cases"), Column("cases", "visibility"),
      Unless("visibility", Seed("cases", {"all visible"})),
      Table("case_acl", {})>>

migrate_case_upgrade ==
    <<Look("cases")>> \o Columns("cases", <<"tlp", "pap">>)
    \o <<Table("case_tasks", {}), Index("case_tasks", {}), Look("case_tasks"),
         Column("case_tasks", "due_date"), Table("case_events", {}), Index("case_events", {}),
         Table("case_templates", {}), Seed("case_templates", {"templates"})>>

migrate_case_template_fields ==
    <<Table("case_template_fields", {}), Index("case_template_fields", {}),
      Table("case_field_values", {}), Index("case_field_values", {})>>

migrate_case_numbering ==
    <<Look("case_templates")>> \o Columns("case_templates", <<"prefix", "number_mode">>)
    \o <<Look("cases"), Column("cases", "case_number"), Table("case_number_counters", {})>>

migrate_case_links == <<Table("case_links", {}), Index("case_links", {})>>

migrate_case_queues ==
    <<Table("case_queues", {}), Table("queue_members", {}), Look("cases"),
      Column("cases", "queue_id"), Look("case_queues"), Column("case_queues", "sla_hours"),
      Seed("case_queues", {"queues"})>>

migrate_case_assets ==
    <<Table("case_assets", {}), Index("case_assets", {}),
      Look("case_assets"), Column("case_assets", "confirmed_at")>>

migrate_case_severity ==
    <<Look("cases")>>
    \o Columns("cases", <<"severity", "workflow_state", "acknowledged_at",
                          "sla_breach_notified_at", "stale_notified_at", "root_cause",
                          "lessons_learned", "pir_notes", "severity_rationale">>)

migrate_case_reopen_tracking ==
    <<Look("cases")>> \o Columns("cases", <<"last_closed_at", "reopened_count">>)

migrate_case_iocs == <<Table("case_iocs", {}), Index("case_iocs", {})>>

migrate_case_attachments ==
    <<Table("case_attachments", {"sha256"}), Look("case_attachments"),
      Column("case_attachments", "sha256"), Index("case_attachments", {})>>

(* Dashboards, users, roles and runbooks.                                     *)
migrate_dashboards ==
    <<Table("dashboards", {}), Table("dashboard_widgets", {}), Index("dashboard_widgets", {}),
      Query("dashboards"), Unless("Overview", Insert("dashboards", "Overview")),
      Unless("Overview", Seed("dashboard_widgets", {"of Overview"})),
      Query("dashboards"), Unless("Home", Insert("dashboards", "Home")),
      Unless("Home", Seed("dashboard_widgets", {"of Home"})),
      Query("dashboards"), Unless("Senior Analyst", Insert("dashboards", "Senior Analyst")),
      Unless("Senior Analyst", Seed("dashboard_widgets", {"of Senior Analyst"})),
      Query("dashboards"), Unless("Insider Threat", Insert("dashboards", "Insider Threat")),
      Unless("Insider Threat", Seed("dashboard_widgets", {"of Insider Threat"}))>>

migrate_insider_threat_watchlist_widget ==
    <<Query("dashboards"), StopUnless("Insider Threat"),
      Query("dashboard_widgets"), StopIf("app_watchlist"),
      Seed("dashboard_widgets", {"shifted"}), Copy("dashboard_widgets", "app_watchlist")>>

\* The widget of Senior Analyst; a dashboard "Analyst Triage" is no seed.
migrate_case_analytics_widgets ==
    <<Query("dashboards"), StopUnless("Senior Analyst"), Query("dashboard_widgets"),
      Unless("chart_case_close_trend", Copy("dashboard_widgets", "chart_case_close_trend"))>>

migrate_role_casing == <<Seed("users", {"cased"})>>

migrate_users_must_change_password == <<Look("users"), Column("users", "must_change_password")>>
migrate_users_session_version == <<Look("users"), Column("users", "session_version")>>

migrate_role_permissions ==
    <<Table("roles", {}), Table("role_permissions", {}), Query("roles"),
      Insert("roles", "builtin"), Unless("builtin", Seed("role_permissions", {"builtin"}))>>

\* A permission that arrived later is given once to the roles that had an older
\* one; the flag keeps an admin's choice from being undone by the next start.
Granted(flag, grant) ==
    <<Table("settings", {}), Query("settings"), StopIf(flag), Query("role_permissions"),
      If("builtin", Seed("role_permissions", {grant})), Seed("settings", {flag})>>
migrate_case_templates_manage_permission == Granted("templates flag", "templates grant")
migrate_logsearch_import_permission == Granted("import flag", "import grant")
migrate_runbooks_permission == Granted("runbooks flag", "runbooks grant")

migrate_role_default_dashboard ==
    <<Look("roles"), Column("roles", "default_dashboard_id"), Query("dashboards"),
      If("Home", Seed("roles", {"at Home"}))>>

migrate_role_default_dashboard_v2 ==
    <<Query("dashboards"), If("Overview", Seed("roles", {"admin at Overview"})),
      Query("dashboards"), If("Senior Analyst", Seed("roles", {"senior at Senior Analyst"}))>>

migrate_insider_threat_role ==
    <<Query("roles"), StopIf("insider_threat"), Query("dashboards"),
      Uses("roles", {"default_dashboard_id"}),
      Insert("roles", "insider_threat"),
      Seed("role_permissions", {"insider_threat"})>>

migrate_ir_runbooks ==
    <<Table("ir_runbooks", {}), Seed("ir_runbooks", {"runbooks"}),
      Table("tabletop_exercises", {}), Index("tabletop_exercises", {})>>

migrate_insider_runbook_collection_reality ==
    <<Query("ir_runbooks"), StopUnless("old wording"), Seed("ir_runbooks", {"new wording"})>>

(* Playbooks.                                                                 *)
migrate_case_playbook_outbox == <<Table("case_playbook_outbox", {})>>

migrate_playbooks ==
    <<Table("playbooks", {}), Table("playbook_actions", {}), Index("playbook_actions", {}),
      Table("playbook_runs", {}), Index("playbook_runs", {})>>

migrate_playbook_secrets == <<Table("playbook_secrets", {})>>
migrate_playbook_custom_actions == <<Table("playbook_custom_actions", {})>>
migrate_email_templates == <<Table("email_templates", {})>>

migrate_playbook_approvals ==
    <<Look("playbook_actions"), Column("playbook_actions", "requires_approval"), Look("playbooks")>>
    \o Columns("playbooks", <<"condition_severity", "max_runs_per_hour",
                              "schedule_interval_minutes", "last_scheduled_run",
                              "condition_rule_name">>)
    \o <<Table("playbook_approvals", {}), Index("playbook_approvals", {})>>

migrate_playbook_pending_reverts ==
    <<Table("playbook_pending_reverts", {}), Index("playbook_pending_reverts", {})>>

migrate_playbook_alert_runs ==
    <<Table("playbook_alert_runs", {}), Index("playbook_alert_runs", {})>>

migrate_seed_legacy_notification_playbook ==
    <<Query("settings"), StopIf("legacy flag"), Query("settings"),
      If("notifications", Insert("playbooks", "legacy")),
      If("notifications", Seed("playbook_actions", {"legacy"})),
      Seed("settings", {"legacy flag"})>>

migrate_seed_starter_playbook ==
    <<Query("settings"), StopIf("starter flag"), Query("case_templates"),
      If("templates", Insert("playbooks", "starter")),
      If("templates", Seed("playbook_actions", {"starter"})),
      Seed("settings", {"starter flag"})>>

(* Vulnerabilities, reports, enrichment and the audit log.                    *)
migrate_cve_records == <<Table("cve_records", {}), Index("cve_records", {})>>
migrate_cve_kev_epss == <<Table("cve_kev", {}), Table("cve_epss", {})>>

migrate_cve_affected_products ==
    <<Table("cve_affected_products", {}), Index("cve_affected_products", {})>>

migrate_cve_affected_products_ranges ==
    <<Look("cve_affected_products")>>
    \o Columns("cve_affected_products", <<"version_start_including", "version_start_excluding",
                                          "version_end_including", "version_end_excluding">>)

migrate_vulnerability_remediation == <<Table("vulnerability_remediation", {})>>
migrate_audit_log == <<Table("audit_log", {}), Index("audit_log", {})>>
migrate_report_history == <<Table("report_history", {}), Index("report_history", {})>>

\* As if the index on the column were made before the columns.
migrate_report_history_case_id_IndexFirst ==
    <<Index("report_history", {"case_id"}), Look("report_history")>>
    \o Columns("report_history", <<"case_id", "case_title">>)

migrate_report_history_case_id ==
    <<Look("report_history")>> \o Columns("report_history", <<"case_id", "case_title">>)
    \o <<Index("report_history", {"case_id"})>>

migrate_report_history_framework ==
    <<Look("report_history")>> \o Columns("report_history", <<"framework_key", "framework_label">>)

migrate_report_history_days == <<Look("report_history"), Column("report_history", "report_days")>>

migrate_enrichment_results ==
    <<Table("enrichment_results", {}), Look("enrichment_results"),
      Column("enrichment_results", "tier")>>

migrate_sandbox_submissions ==
    <<Table("sandbox_submissions", {}), Index("sandbox_submissions", {})>>

(* The migrations of each area, in the order in which the file calls them.    *)
AllCalls == [
    intel |-> <<migrate_settings, migrate_ti_feeds, migrate_stix_indicators,
                migrate_stix_indicators_metadata_columns>>,
    lists |-> <<migrate_warninglists, migrate_ioc_sightings, migrate_ioc_sightings_alert_id,
                migrate_ti_entities, migrate_ti_entities_confidence,
                migrate_ti_entities_references>>,
    agents |-> <<migrate_agent_commands, migrate_agent_commands_sent_at,
                 migrate_agent_offline_alerts, migrate_agent_polls_os_detail,
                 migrate_fim_paths, migrate_agent_versions, migrate_agent_tokens,
                 migrate_agent_groups, migrate_agent_token_hashing>>,
    alerts |-> <<migrate_alerts_columns, migrate_alerts_enrichment,
                 migrate_alerts_dedup_columns, migrate_alerts_effective_seen,
                 migrate_live_logs_ip_columns>>,
    triage |-> <<migrate_alert_escalations, migrate_atomic_tests,
                 migrate_alerts_atomic_test_flag, migrate_alerts_triage,
                 migrate_alerts_geoip_columns, migrate_alerts_mitre_column,
                 migrate_alerts_verdict_columns>>,
    logs |-> <<migrate_live_logs_archive, migrate_live_logs_process_columns,
               migrate_live_logs_hash_dns_columns, migrate_log_search_indexes,
               migrate_ueba_insights_indexes>>,
    imports |-> <<migrate_log_source_silent_alerts, migrate_log_imports,
                  migrate_alerts_import_id>>,
    sigma |-> <<migrate_saved_searches, migrate_coverage_snapshots, migrate_custom_parsers,
                migrate_sigma_rules_columns, migrate_sigma_rules_original_yaml>>,
    rules |-> <<migrate_yara_forge_synced_rules, migrate_yara_repo_synced_files,
                migrate_sigma_aggregation, migrate_rule_tuning, migrate_rule_autocase,
                migrate_compliance_tags, migrate_sigma_rules_upstream_yaml,
                migrate_seed_ioc_correlation_rule, migrate_yara_rule_tags>>,
    entities |-> <<migrate_ueba_entities, migrate_ueba_math_v2, migrate_assets_identities,
                   migrate_identities_watchlist, migrate_identities_departing,
                   migrate_ueba_priority_scores, migrate_ueba_autocase>>,
    risk |-> <<migrate_audit_log, migrate_risk_scoring, migrate_risk_score_events_rule_id>>,
    anomalies |-> <<migrate_anomaly_rules, migrate_anomaly_rules_sequence_columns,
                    migrate_anomaly_rules_description, migrate_anomaly_rule_conditions,
                    migrate_anomaly_rule_conditions_logic, migrate_seed_ueba_rules>>,
    cases |-> <<migrate_cases, migrate_case_visibility, migrate_case_upgrade,
                migrate_case_template_fields, migrate_case_numbering>>,
    desk |-> <<migrate_case_queues, migrate_case_assets>>,
    progress |-> <<migrate_case_severity, migrate_case_reopen_tracking>>,
    evidence |-> <<migrate_case_links, migrate_case_iocs, migrate_case_attachments>>,
    boards |-> <<migrate_dashboards, migrate_role_permissions, migrate_role_default_dashboard,
                 migrate_role_default_dashboard_v2, migrate_insider_threat_role,
                 migrate_insider_threat_watchlist_widget, migrate_case_analytics_widgets>>,
    roles |-> <<migrate_role_casing, migrate_users_must_change_password,
                migrate_users_session_version, migrate_role_permissions,
                migrate_case_templates_manage_permission, migrate_logsearch_import_permission,
                migrate_ir_runbooks, migrate_insider_runbook_collection_reality,
                migrate_runbooks_permission>>,
    playbooks |-> <<migrate_settings, migrate_case_upgrade, migrate_playbooks,
                    migrate_seed_starter_playbook>>,
    legacy |-> <<migrate_settings, migrate_playbooks, migrate_playbook_approvals,
                 migrate_seed_legacy_notification_playbook>>,
    responses |-> <<migrate_case_playbook_outbox, migrate_playbook_secrets,
                    migrate_playbook_custom_actions, migrate_email_templates,
                    migrate_playbook_pending_reverts, migrate_playbook_alert_runs>>,
    reports |-> <<migrate_cve_records, migrate_cve_kev_epss, migrate_cve_affected_products,
                  migrate_cve_affected_products_ranges, migrate_vulnerability_remediation,
                  migrate_report_history, migrate_report_history_case_id,
                  migrate_report_history_framework, migrate_report_history_days,
                  migrate_enrichment_results, migrate_sandbox_submissions>>]
=============================================================================
