-------------------------------- MODULE Replay --------------------------------
(* Replay detection: the enabled rules are run over one complete import, a few *)
(* rules per request.  A request reads the offset, lists the enabled rules     *)
(* anew, runs its share of that list in a transaction of its own, and moves    *)
(* the offset on if it is still the one it started from.  Several tabs may     *)
(* drive the same replay, start it again, and die at any point.                *)
EXTENDS Integers, FiniteSets

CONSTANTS
    Tab,        \* bound: requests that may overlap, each from a tab of a browser
    Rules,      \* bound: rules, numbered by their ids
    MaxShare,   \* chunk_size
    MaxSwitch   \* bound: times an admin switches a rule on or off

Rule == 1 .. Rules
ReplayBounds ==
    Rules \in Nat /\ MaxShare \in Nat \ {0} /\ MaxSwitch \in Nat

VARIABLES
    enabled,    \* sigma_rules.enabled
    switches,   \* times a rule was switched so far
    replay,     \* imports.replay_status
    offset,     \* imports.replay_rule_offset
    alerts,     \* the alert rows of the import, per rule
    evaluated,  \* history: rules that have been run over the import
    rpc, startedAt, share, listed, fresh  \* per request: what it has read

replayBook == <<enabled, switches, replay, offset, alerts, evaluated>>
tabVars == <<rpc, startedAt, share, listed, fresh>>
replayVars == <<replayBook, tabVars>>

ReplayTypeOK ==
    /\ enabled \subseteq Rule /\ switches \in 0 .. MaxSwitch
    /\ replay \in {"none", "running", "complete"} /\ offset \in 0 .. Rules
    /\ alerts \in [Rule -> 0 .. Cardinality(Tab)] /\ evaluated \subseteq Rule
    /\ rpc \in [Tab -> {"idle", "list", "write", "advance"}]
    /\ startedAt \in [Tab -> 0 .. Rules] /\ listed \in [Tab -> 0 .. Rules]
    /\ share \in [Tab -> SUBSET Rule] /\ fresh \in [Tab -> BOOLEAN]

ReplayInit ==
    /\ enabled = Rule /\ switches = 0
    /\ replay = "none" /\ offset = 0
    /\ alerts = [r \in Rule |-> 0] /\ evaluated = {}
    /\ rpc = [q \in Tab |-> "idle"]
    /\ startedAt = [q \in Tab |-> 0] /\ listed = [q \in Tab |-> 0]
    /\ share = [q \in Tab |-> {}] /\ fresh = [q \in Tab |-> FALSE]

ReplayAt(q, l) == rpc' = [rpc EXCEPT ![q] = l]
Forget(q) ==
    /\ ReplayAt(q, "idle")
    /\ startedAt' = [startedAt EXCEPT ![q] = 0] /\ listed' = [listed EXCEPT ![q] = 0]
    /\ share' = [share EXCEPT ![q] = {}] /\ fresh' = [fresh EXCEPT ![q] = FALSE]

Switch(r) ==
    /\ switches < MaxSwitch
    /\ switches' = switches + 1
    /\ enabled' = IF r \in enabled THEN enabled \ {r} ELSE enabled \cup {r}
    /\ UNCHANGED <<replay, offset, alerts, evaluated, tabVars>>

\* A fresh run, when asked for or when none is running, is committed at once.
BeginReplay(q) ==
    /\ rpc[q] = "idle"
    /\ replay' = "running" /\ offset' = 0
    /\ startedAt' = [startedAt EXCEPT ![q] = 0]
    /\ ReplayAt(q, "list")
    /\ UNCHANGED <<enabled, switches, alerts, evaluated, share, listed, fresh>>

ContinueReplay(q) ==
    /\ rpc[q] = "idle" /\ replay = "running"
    /\ startedAt' = [startedAt EXCEPT ![q] = offset]
    /\ ReplayAt(q, "list")
    /\ UNCHANGED <<replayBook, share, listed, fresh>>

\* The rules at positions n + 1 .. n + k of the list, which is ordered by id.
Position(r) == Cardinality({s \in enabled : s <= r})
Share(n, k) == {r \in enabled : n < Position(r) /\ Position(r) <= n + k}
\* Broken variant: one rule too early.
Ends_Early(q) == startedAt[q] + Cardinality(share[q]) + 1 >= listed[q]
Ends(q) == startedAt[q] + Cardinality(share[q]) >= listed[q]
First(S) == {r \in S : \A s \in S : r <= s}

\* The list, and whether the first rule that matches has an alert already.
ListRules(q) ==
    /\ rpc[q] = "list"
    /\ \E k \in 1 .. MaxShare :
         /\ share' = [share EXCEPT ![q] = Share(startedAt[q], k)]
         /\ fresh' = [fresh EXCEPT ![q] =
                        \A r \in First(Share(startedAt[q], k)) : alerts[r] = 0]
    /\ listed' = [listed EXCEPT ![q] = Cardinality(enabled)]
    /\ ReplayAt(q, "write")
    /\ UNCHANGED <<replayBook, startedAt>>

\* From the first alert written to the commit: one transaction, in which the other
\* rules look again.
Alerted(q, r) ==
    IF r \notin share[q] THEN alerts[r]
    ELSE IF r \in First(share[q]) THEN alerts[r] + (IF fresh[q] THEN 1 ELSE 0)
    ELSE IF alerts[r] = 0 THEN 1 ELSE alerts[r]

WriteAlerts(q) ==
    /\ rpc[q] = "write"
    /\ alerts' = [r \in Rule |-> Alerted(q, r)]
    /\ evaluated' = evaluated \cup share[q]
    /\ ReplayAt(q, "advance")
    /\ UNCHANGED <<enabled, switches, replay, offset, startedAt, share, listed, fresh>>

StillMine(q) == offset = startedAt[q]

Advance(q) ==
    /\ rpc[q] = "advance"
    /\ IF StillMine(q)
       THEN /\ offset' = startedAt[q] + Cardinality(share[q])
            /\ replay' = IF Ends(q) THEN "complete" ELSE "running"
       ELSE UNCHANGED <<offset, replay>>
    /\ Forget(q)
    /\ UNCHANGED <<enabled, switches, alerts, evaluated>>

ReplayDies(q) ==
    /\ rpc[q] # "idle"
    /\ Forget(q)
    /\ UNCHANGED replayBook

ReplayNext ==
    \/ \E q \in Tab :
         \/ BeginReplay(q) \/ ContinueReplay(q) \/ ListRules(q) \/ WriteAlerts(q)
         \/ Advance(q) \/ ReplayDies(q)
    \/ \E r \in Rule : Switch(r)

ReplaySpec == ReplayInit /\ [][ReplayNext]_replayVars

-----------------------------------------------------------------------------
(* Properties.                                                               *)

\* What is shown as replayed was replayed, by whichever tabs and however often it
\* was started again: as long as nobody switches a rule, every rule has been run.
ReplayedAll == replay = "complete" /\ switches = 0 => evaluated = Rule

\* The run is of "every enabled Sigma rule": a rule that stays enabled is not left
\* out when another one is switched off between two requests.
EveryRuleReplayed == replay = "complete" => enabled \subseteq evaluated

\* "Must never duplicate an alert this exact rule/host/user combo already produced".
OneAlertPerRule == \A r \in Rule : alerts[r] <= 1
=============================================================================
