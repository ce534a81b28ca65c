------------------------------ MODULE Isolation ------------------------------
(* Is the isolation that the console shows still in force?  The scheduler asks *)
(* the endpoint, at most once per interval, and raises an alert when its last  *)
(* answer was no.  Sweeps of several workers may overlap: the interval is      *)
(* claimed by a compare-and-swap on a settings row.                            *)
EXTENDS Integers, FiniteSets

CONSTANTS
    Worker,     \* bound: sweeps that overlap
    Cooldown,   \* intervals between two alerts
    MaxTrouble  \* bound: containments that break, sweeps that die

IsolationBounds == Cooldown \in Nat /\ MaxTrouble \in Nat

VARIABLES
    contained,  \* the endpoint's firewall isolates it
    trouble,    \* how often something broke so far
    shown,      \* the newest completed isolate_host or restore_network
    order,      \* one of them that is queued
    probes,     \* verify_isolation commands pending or sent
    answer,     \* the newest completed one: "none", "yes" or "no"
    outdated,   \* history: that answer is older than the isolation shown
    claimed,    \* isolation_verify_last_check is less than an interval old
    quiet,      \* intervals for which 'Isolation Not Holding' stays silent
    alarmed,    \* history: it was raised since the containment broke
    falseAlarm, \* history: it was raised on an outdated answer
    ipc         \* per worker

endpoint == <<contained, trouble>>
commands == <<shown, order, probes, answer, outdated>>
checks == <<claimed, quiet, alarmed, falseAlarm>>
isolationVars == <<endpoint, commands, checks, ipc>>

IsolationTypeOK ==
    /\ contained \in BOOLEAN /\ outdated \in BOOLEAN /\ claimed \in BOOLEAN
    /\ alarmed \in BOOLEAN /\ falseAlarm \in BOOLEAN
    /\ trouble \in 0 .. MaxTrouble
    /\ shown \in {"none", "isolate", "restore"} /\ order \in {"none", "isolate", "restore"}
    /\ probes \in Nat /\ answer \in {"none", "yes", "no"}
    /\ quiet \in 0 .. Cooldown
    /\ ipc \in [Worker -> {"idle", "claim", "judge", "probe", "queue"}]

IsolationInit ==
    /\ contained = FALSE /\ trouble = 0
    /\ shown = "none" /\ order = "none" /\ probes = 0 /\ answer = "none" /\ outdated = FALSE
    /\ claimed = FALSE /\ quiet = 0 /\ alarmed = FALSE /\ falseAlarm = FALSE
    /\ ipc = [w \in Worker |-> "idle"]

VerifyAt(w, l) == ipc' = [ipc EXCEPT ![w] = l]

-----------------------------------------------------------------------------
(* The operator and the endpoint.                                             *)

\* Somebody on the endpoint clears its firewall.
Breaks ==
    /\ contained /\ trouble < MaxTrouble
    /\ contained' = FALSE /\ trouble' = trouble + 1
    /\ alarmed' = FALSE
    /\ UNCHANGED <<commands, claimed, quiet, falseAlarm, ipc>>

Queue(label) ==
    /\ order = "none"
    /\ order' = label
    /\ UNCHANGED <<endpoint, shown, probes, answer, outdated, checks, ipc>>

\* It runs what it is asked for and reports it done.
Obey ==
    /\ order # "none"
    /\ contained' = (order = "isolate")
    /\ shown' = order /\ order' = "none"
    /\ outdated' = TRUE /\ alarmed' = FALSE
    /\ UNCHANGED <<trouble, probes, answer, claimed, quiet, falseAlarm, ipc>>

\* The management connection survives isolation: it answers what it is asked.
Answer ==
    /\ probes > 0
    /\ probes' = probes - 1
    /\ answer' = IF contained THEN "yes" ELSE "no"
    /\ outdated' = FALSE
    /\ UNCHANGED <<endpoint, shown, order, checks, ipc>>

-----------------------------------------------------------------------------
(* _run_due_isolation_verification.                                           *)

\* _claim_due_check: the stamp is read, and found old ...
ReadVerifyStamp(w) ==
    /\ ipc[w] = "idle" /\ ~claimed
    /\ VerifyAt(w, "claim")
    /\ UNCHANGED <<endpoint, commands, checks>>

\* Broken variant: the UPDATE names only the key.
Wins_ByKey == TRUE
Wins == ~claimed

\* ... and replaced, if it is still the one that was read.
ClaimVerify(w) ==
    /\ ipc[w] = "claim"
    /\ claimed' = TRUE
    /\ VerifyAt(w, IF Wins THEN "judge" ELSE "idle")
    /\ UNCHANGED <<endpoint, commands, quiet, alarmed, falseAlarm>>

Believed == shown = "isolate"

\* The newest answer is judged, whenever it was given; one alert per cooldown.
Judge(w) ==
    /\ ipc[w] = "judge"
    /\ IF Believed /\ answer = "no" /\ quiet = 0
       THEN /\ quiet' = Cooldown /\ alarmed' = TRUE
            /\ falseAlarm' = (falseAlarm \/ outdated)
       ELSE UNCHANGED <<quiet, alarmed, falseAlarm>>
    /\ VerifyAt(w, IF Believed THEN "probe" ELSE "idle")
    /\ UNCHANGED <<endpoint, commands, claimed>>

\* Broken variant: a host that has answered once counts as being asked.
Outstanding_EverProbed == probes > 0 \/ answer # "none"
Outstanding == probes > 0

\* Never stack probes: the next one is queued when none is outstanding.
Probe(w) ==
    /\ ipc[w] = "probe"
    /\ VerifyAt(w, IF Outstanding THEN "idle" ELSE "queue")
    /\ UNCHANGED <<endpoint, commands, checks>>

QueueProbe(w) ==
    /\ ipc[w] = "queue"
    /\ probes' = probes + 1
    /\ VerifyAt(w, "idle")
    /\ UNCHANGED <<endpoint, shown, order, answer, outdated, checks>>

VerifyDies(w) ==
    /\ ipc[w] # "idle" /\ trouble < MaxTrouble
    /\ trouble' = trouble + 1
    /\ VerifyAt(w, "idle")
    /\ UNCHANGED <<contained, commands, checks>>

\* An interval of fifteen minutes passes; a sweep takes less than that.
Interval ==
    /\ \A w \in Worker : ipc[w] = "idle"
    /\ claimed \/ quiet > 0
    /\ claimed' = FALSE
    /\ quiet' = IF quiet > 0 THEN quiet - 1 ELSE 0
    /\ UNCHANGED <<endpoint, commands, alarmed, falseAlarm, ipc>>

Verify(w) == ReadVerifyStamp(w) \/ ClaimVerify(w) \/ Judge(w) \/ Probe(w) \/ QueueProbe(w)

IsolationNext ==
    \/ Breaks \/ Obey \/ Answer \/ Interval
    \/ \E label \in {"isolate", "restore"} : Queue(label)
    \/ \E w \in Worker : Verify(w) \/ VerifyDies(w)

IsolationSpec == IsolationInit /\ [][IsolationNext]_isolationVars

\* The endpoint answers, time passes, and the scheduler calls every thirty seconds.
IsolationFairSpec ==
    /\ IsolationSpec
    /\ WF_isolationVars(Answer) /\ WF_isolationVars(Interval)
    /\ \A w \in Worker : WF_isolationVars(Verify(w))

-----------------------------------------------------------------------------
(* Properties.                                                               *)

\* "Never stack probes": however many sweeps overlap, one is outstanding.
NoStackedProbes == probes <= 1

\* "The host you believe is contained is not" reaches the queue: a containment that
\* broke is alerted on, unless the endpoint is asked otherwise.
EventuallyAlarmed == (Believed /\ ~contained) ~> (alarmed \/ contained \/ ~Believed)

\* "The host you believe is contained is not": the alert speaks of the isolation
\* that is shown, not of an earlier one.
AlarmIsCurrent == ~falseAlarm
=============================================================================
