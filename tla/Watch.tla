-------------------------------- MODULE Watch --------------------------------
(* What the scheduler notices about an endpoint that goes quiet: an agent that *)
(* no longer checks in, a host that no longer sends logs, and one channel of   *)
(* a host that no longer does.  Sweeps of several workers may overlap.  The    *)
(* sweep for silence is claimed per interval by a compare-and-swap; the sweep  *)
(* for offline agents is not.                                                  *)
EXTENDS Integers, FiniteSets

CONSTANTS
    Sweeper,    \* bound: workers whose sweeps overlap
    App,        \* the channels that the host logs to
    TooLong,         \* intervals of silence that are too many
    QuietBaseline,   \* intervals of history that the silence of a host is judged by
    HushLength,   \* intervals between two alerts for the same thing
    MaxOffline, \* bound: unresolved rows of agent_offline_alerts that are told apart
    MaxDeaths   \* bound: sweeps that die

WatchBounds ==
    /\ TooLong \in Nat /\ QuietBaseline \in Nat /\ HushLength \in Nat
    /\ MaxDeaths \in Nat /\ MaxOffline \in Nat \ {0}

VARIABLES
    online,     \* the endpoint is up and connected
    polled,     \* intervals since the last check-in
    logged,     \* per channel: intervals since its last log
    checkDue,   \* log_source_silent_last_check is an interval old
    unresolved, \* rows of agent_offline_alerts without resolved_at
    hush,       \* intervals for which 'Agent Offline' stays silent
    quietFor,   \* per key of log_source_silent_alerts: the same
    twice,      \* history: keys that were alerted on twice within the cooldown
    wpc, picked, \* per worker: where it is, and what it is about to alert on
    deaths

watchVars == <<online, polled, logged, checkDue, unresolved, hush, quietFor, twice, wpc,
               picked, deaths>>

Key == {"host"} \cup App

WatchTypeOK ==
    /\ online \in BOOLEAN /\ polled \in 0 .. TooLong + 1
    /\ logged \in [App -> 0 .. QuietBaseline]
    /\ checkDue \in BOOLEAN
    /\ unresolved \in 0 .. MaxOffline
    /\ hush \in 0 .. HushLength /\ quietFor \in [Key -> 0 .. HushLength]
    /\ twice \subseteq Key
    /\ wpc \in [Sweeper -> {"idle", "claim", "look", "raise", "offline", "back"}]
    /\ picked \in [Sweeper -> SUBSET Key]
    /\ deaths \in 0 .. MaxDeaths

WatchInit ==
    /\ online = TRUE /\ polled = 0 /\ logged = [a \in App |-> 0]
    /\ checkDue = TRUE
    /\ unresolved = 0 /\ hush = 0
    /\ quietFor = [k \in Key |-> 0] /\ twice = {}
    /\ wpc = [w \in Sweeper |-> "idle"] /\ picked = [w \in Sweeper |-> {}]
    /\ deaths = 0

Less(n) == IF n > 0 THEN n - 1 ELSE 0
Upto(n, top) == IF n < top THEN n + 1 ELSE n
WatchAt(w, l) == wpc' = [wpc EXCEPT ![w] = l]

-----------------------------------------------------------------------------
(* The endpoint.                                                              *)

\* It checks in with every poll.
CheckIn ==
    /\ online /\ polled > 0
    /\ polled' = 0
    /\ UNCHANGED <<online, logged, checkDue, unresolved, hush, quietFor, twice, wpc, picked,
                   deaths>>

\* A channel logs when its service runs and the host is up.
LogTo(a) ==
    /\ online /\ logged[a] > 0
    /\ logged' = [logged EXCEPT ![a] = 0]
    /\ UNCHANGED <<online, polled, checkDue, unresolved, hush, quietFor, twice, wpc, picked,
                   deaths>>

Connection ==
    /\ online' = ~online
    /\ UNCHANGED <<polled, logged, checkDue, unresolved, hush, quietFor, twice, wpc, picked,
                   deaths>>

-----------------------------------------------------------------------------
(* _run_due_log_source_silent_alerts.                                         *)

\* _claim_due_check: the stamp is read ...
ReadStamp(w) ==
    /\ wpc[w] = "idle" /\ checkDue
    /\ WatchAt(w, "claim")
    /\ UNCHANGED <<online, polled, logged, checkDue, unresolved, hush, quietFor, twice, picked,
                   deaths>>

\* Broken variant: the UPDATE names only the key.
Mine_ByKey == TRUE
Mine == checkDue

\* ... and replaced, if nobody has replaced it.
Claim(w) ==
    /\ wpc[w] = "claim"
    /\ checkDue' = FALSE
    /\ WatchAt(w, IF Mine THEN "look" ELSE "idle")
    /\ UNCHANGED <<online, polled, logged, unresolved, hush, quietFor, twice, picked, deaths>>

\* A channel without a log in the whole baseline is not looked at any more.
Late(a) == TooLong < logged[a] /\ logged[a] < QuietBaseline
Known == {a \in App : logged[a] < QuietBaseline}
HostSilent == Known # {} /\ \A a \in Known : Late(a)
\* One channel: the host itself has logged within the least threshold.
ChannelSilent(a) == Late(a) /\ \E b \in App : logged[b] <= TooLong
SilentKeys == {k \in Key : IF k = "host" THEN HostSilent ELSE ChannelSilent(k)}

LookSilent(w) ==
    /\ wpc[w] = "look"
    /\ picked' = [picked EXCEPT ![w] = {k \in SilentKeys : quietFor[k] = 0}]
    /\ WatchAt(w, "raise")
    /\ UNCHANGED <<online, polled, logged, checkDue, unresolved, hush, quietFor, twice, deaths>>

RaiseSilent(w) ==
    /\ wpc[w] = "raise"
    /\ twice' = twice \cup {k \in picked[w] : quietFor[k] > 0}
    /\ quietFor' = [k \in Key |-> IF k \in picked[w] THEN HushLength ELSE quietFor[k]]
    /\ picked' = [picked EXCEPT ![w] = {}]
    /\ WatchAt(w, "idle")
    /\ UNCHANGED <<online, polled, logged, checkDue, unresolved, hush, deaths>>

-----------------------------------------------------------------------------
(* _run_due_offline_agent_alerts.                                             *)

Offline == polled > TooLong

\* The last check-in and the earlier alerts are read ...
LookOffline(w) ==
    /\ wpc[w] = "idle"
    /\ \/ Offline /\ hush = 0 /\ WatchAt(w, "offline")
       \/ ~Offline /\ unresolved > 0 /\ WatchAt(w, "back")
    /\ UNCHANGED <<online, polled, logged, checkDue, unresolved, hush, quietFor, twice, picked,
                   deaths>>

\* ... and an alert is raised, whatever another sweep has done meanwhile.
RaiseOffline(w) ==
    /\ wpc[w] = "offline"
    /\ unresolved' = Upto(unresolved, MaxOffline)
    /\ hush' = HushLength
    /\ WatchAt(w, "idle")
    /\ UNCHANGED <<online, polled, logged, checkDue, quietFor, twice, picked, deaths>>

\* Broken variant: the UPDATE is given the id of the new alert for the host name.
Resolved_ByAlert == unresolved
Resolved == 0

BackOnline(w) ==
    /\ wpc[w] = "back"
    /\ unresolved' = Resolved
    /\ WatchAt(w, "idle")
    /\ UNCHANGED <<online, polled, logged, checkDue, hush, quietFor, twice, picked, deaths>>

-----------------------------------------------------------------------------
SweepDies(w) ==
    /\ wpc[w] # "idle" /\ deaths < MaxDeaths
    /\ deaths' = deaths + 1
    /\ picked' = [picked EXCEPT ![w] = {}]
    /\ WatchAt(w, "idle")
    /\ UNCHANGED <<online, polled, logged, checkDue, unresolved, hush, quietFor, twice>>

\* An interval passes; a sweep takes less than that.
Tick ==
    /\ \A w \in Sweeper : wpc[w] = "idle"
    /\ polled' = Upto(polled, TooLong + 1)
    /\ logged' = [a \in App |-> Upto(logged[a], QuietBaseline)]
    /\ checkDue' = TRUE
    /\ hush' = Less(hush) /\ quietFor' = [k \in Key |-> Less(quietFor[k])]
    /\ UNCHANGED <<online, unresolved, twice, wpc, picked, deaths>>

Silence(w) == ReadStamp(w) \/ Claim(w) \/ LookSilent(w) \/ RaiseSilent(w)
Presence(w) == LookOffline(w) \/ RaiseOffline(w) \/ BackOnline(w)

WatchNext ==
    \/ CheckIn \/ Connection \/ Tick
    \/ \E a \in App : LogTo(a)
    \/ \E w \in Sweeper : Silence(w) \/ Presence(w) \/ SweepDies(w)

WatchSpec == WatchInit /\ [][WatchNext]_watchVars

\* An agent that is up polls every few seconds, time passes, and the scheduler calls
\* both sweeps every thirty seconds.
WatchFairSpec ==
    /\ WatchSpec
    /\ WF_watchVars(CheckIn) /\ WF_watchVars(Tick)
    /\ \A w \in Sweeper : WF_watchVars(Silence(w))
    /\ SF_watchVars(\E w \in Sweeper : Presence(w))

-----------------------------------------------------------------------------
(* Properties.                                                               *)

\* What the claim is for: two overlapping sweeps do not both raise 'Host Silent' or
\* 'Log Channel Silent' for the same source.
SilenceToldOnce == twice = {}

\* An agent that stays away is reported, and every report is closed when it stays back.
EventuallyReported ==
    /\ Offline ~> (unresolved > 0 \/ ~Offline)
    /\ (unresolved > 0 /\ ~Offline) ~> (unresolved = 0 \/ Offline)
=============================================================================
