----------------------------- MODULE SweepsProofs -----------------------------
(* The sweeps of the scheduler and the syncs of the feeds, each by an inductive *)
(* invariant of its own: probes never stack, silence is told once, the evidence *)
(* of an open case is found, every row is scored once, what the feeds brought   *)
(* is kept, rules heal, and a host is told of a vulnerability as it is.         *)
EXTENDS Isolation, Watch, Retention, RiskMarks, Syncs, WellFoundedInduction, TLAPS

-----------------------------------------------------------------------------
(* Probes for isolated hosts.  The compare-and-swap on the stamp is what     *)
(* makes the look before QueueProbe safe.                                    *)

IsolationInside == {"judge", "probe", "queue"}

IsolationTyped ==
    /\ probes \in Nat
    /\ ipc \in [Worker -> {"idle", "claim", "judge", "probe", "queue"}]

\* Whoever won the claim of this interval is alone until the next one.
IsolationOneInside ==
    \A v, w \in Worker : ipc[v] \in IsolationInside /\ ipc[w] \in IsolationInside => v = w
IsolationClaimHeld == \A w \in Worker : ipc[w] \in IsolationInside => claimed
RoomForOne == \A w \in Worker : ipc[w] = "queue" => probes = 0

IsolationIInv ==
    IsolationTyped /\ IsolationOneInside /\ IsolationClaimHeld /\ RoomForOne /\ NoStackedProbes

LEMMA IsolationInitially ==
  ASSUME IsolationInit
  PROVE  IsolationIInv
BY DEF IsolationInit, IsolationIInv, IsolationTyped, IsolationOneInside,
       IsolationClaimHeld, RoomForOne, NoStackedProbes, IsolationInside

\* The operator and the endpoint move no sweep and add no probe.
LEMMA IsolationEndpointKeeps ==
  ASSUME IsolationIInv,
         Breaks \/ Obey \/ Answer \/ \E label \in {"isolate", "restore"} : Queue(label)
  PROVE  IsolationIInv'
<1>1. UNCHANGED <<ipc,
                  claimed>> /\ (probes' = probes \/ (probes > 0 /\ probes' = probes - 1))
  BY DEF Breaks, Obey, Answer, Queue, commands, endpoint, checks
<1>2. probes' \in Nat /\ probes' <= probes
  BY <1>1 DEF IsolationIInv, IsolationTyped
<1> QED
  BY <1>1, <1>2 DEF IsolationIInv, IsolationTyped, IsolationOneInside, IsolationClaimHeld,
                    RoomForOne, NoStackedProbes

\* Reading the stamp leads to nothing by itself, and neither does a death.
LEMMA IsolationOutsideKeeps ==
  ASSUME IsolationIInv, NEW w \in Worker, ReadVerifyStamp(w) \/ VerifyDies(w)
  PROVE  IsolationIInv'
<1>1. UNCHANGED <<claimed, probes>> /\ \E l \in {"claim", "idle"} : ipc' = [ipc EXCEPT ![w] = l]
  BY DEF ReadVerifyStamp, VerifyDies, VerifyAt, endpoint, commands, checks
<1>2. ipc' \in [Worker -> {"idle", "claim", "judge", "probe", "queue"}]
  BY <1>1 DEF IsolationIInv, IsolationTyped
<1>3. \A v \in Worker : ipc'[v] \in IsolationInside => ipc'[v] = ipc[v]
  BY <1>1 DEF IsolationIInv, IsolationTyped, IsolationInside
<1>4. IsolationOneInside' /\ IsolationClaimHeld'
  BY <1>1, <1>3 DEF IsolationIInv, IsolationOneInside, IsolationClaimHeld
<1>5. RoomForOne'
  BY <1>1, <1>3 DEF IsolationIInv, RoomForOne, IsolationInside
<1> QED
  BY <1>1, <1>2, <1>4, <1>5 DEF IsolationIInv, IsolationTyped, NoStackedProbes

\* Only the first of the claims of an interval finds the stamp unclaimed, and then
\* nobody is inside.
LEMMA IsolationClaimKeeps ==
  ASSUME IsolationIInv, NEW w \in Worker, ClaimVerify(w)
  PROVE  IsolationIInv'
<1>1. /\ claimed' /\ probes' = probes
      /\ ipc' = [ipc EXCEPT ![w] = IF claimed THEN "idle" ELSE "judge"]
  BY DEF ClaimVerify, VerifyAt, Wins, commands
<1>2. ~claimed => \A v \in Worker : ipc[v] \notin IsolationInside
  BY DEF IsolationIInv, IsolationClaimHeld
<1>3. IsolationTyped'
  BY <1>1 DEF IsolationIInv, IsolationTyped
<1>4. /\ \A v \in Worker : v # w => ipc'[v] = ipc[v]
      /\ ipc'[w] = IF claimed THEN "idle" ELSE "judge"
  BY <1>1 DEF IsolationIInv, IsolationTyped
<1>5. IsolationOneInside'
  BY <1>2, <1>4 DEF IsolationIInv, IsolationOneInside, IsolationInside
<1>6. IsolationClaimHeld'
  BY <1>1 DEF IsolationClaimHeld
<1>7. RoomForOne'
  BY <1>1, <1>4 DEF IsolationIInv, RoomForOne
<1> QED
  BY <1>1, <1>3, <1>5, <1>6, <1>7 DEF IsolationIInv, NoStackedProbes

\* The sweep that is inside goes on or leaves; it looks before it queues a probe
\* and nobody else can queue one in between.
LEMMA IsolationInsideKeeps ==
  ASSUME IsolationIInv, NEW w \in Worker, Judge(w) \/ Probe(w) \/ QueueProbe(w)
  PROVE  IsolationIInv'
<1>1. /\ ipc[w] \in IsolationInside /\ claimed' = claimed
      /\ \E l \in {"probe", "queue", "idle"} : ipc' = [ipc EXCEPT ![w] = l]
  BY DEF Judge, Probe, QueueProbe, VerifyAt, IsolationInside, checks
<1>2. /\ ipc' \in [Worker -> {"idle", "claim", "judge", "probe", "queue"}]
      /\ \A v \in Worker : v # w => ipc'[v] = ipc[v]
  BY <1>1 DEF IsolationIInv, IsolationTyped
<1>3. IsolationOneInside' /\ IsolationClaimHeld'
  BY <1>1, <1>2 DEF IsolationIInv, IsolationOneInside, IsolationClaimHeld
<1>4. \A v \in Worker : v # w => ipc'[v] # "queue"
  BY <1>1, <1>2 DEF IsolationIInv, IsolationOneInside, IsolationInside
<1>5. CASE Judge(w)
  <2>1. ipc'[w] # "queue" /\ probes' = probes
    BY <1>5 DEF Judge, VerifyAt, commands, IsolationIInv, IsolationTyped
  <2> QED
    BY <1>2, <1>3, <1>4, <2>1 DEF IsolationIInv, IsolationTyped, RoomForOne, NoStackedProbes
<1>6. CASE Probe(w)
  <2>1. probes' = probes /\ (ipc'[w] = "queue" => ~(probes > 0))
    BY <1>6 DEF Probe, Outstanding, VerifyAt, commands, IsolationIInv, IsolationTyped
  <2> QED
    BY <1>2, <1>3, <1>4, <2>1 DEF IsolationIInv, IsolationTyped, RoomForOne, NoStackedProbes
<1>7. CASE QueueProbe(w)
  <2>1. probes = 0 /\ probes' = probes + 1 /\ ipc'[w] = "idle"
    BY <1>7 DEF QueueProbe, VerifyAt, IsolationIInv, IsolationTyped, RoomForOne
  <2> QED
    BY <1>2, <1>3, <1>4, <2>1 DEF IsolationIInv, IsolationTyped, RoomForOne, NoStackedProbes
<1> QED
  BY <1>5, <1>6, <1>7

\* An interval ends when nobody is in.
LEMMA IntervalKeeps ==
  ASSUME IsolationIInv, Interval
  PROVE  IsolationIInv'
BY DEF IsolationIInv, IsolationTyped, Interval, IsolationInside, IsolationOneInside,
       IsolationClaimHeld, RoomForOne, NoStackedProbes,
       endpoint, commands

LEMMA IsolationStepKeeps ==
  ASSUME IsolationIInv, [IsolationNext]_isolationVars
  PROVE  IsolationIInv'
<1>1. CASE UNCHANGED isolationVars
  BY <1>1 DEF IsolationIInv, IsolationTyped, IsolationOneInside, IsolationClaimHeld,
              RoomForOne, NoStackedProbes, isolationVars,
      endpoint, commands, checks
<1>2. CASE IsolationNext
  BY <1>2, IsolationEndpointKeeps, IsolationOutsideKeeps, IsolationClaimKeeps,
     IsolationInsideKeeps, IntervalKeeps
     DEF IsolationNext, Verify
<1> QED
  BY <1>1, <1>2

\* However many sweeps of the scheduler overlap and wherever they die, at most one
\* verify_isolation command is outstanding.
THEOREM ProbesNeverStack == IsolationSpec => []NoStackedProbes
<1>1. IsolationInit => IsolationIInv
  BY IsolationInitially
<1>2. IsolationIInv /\ [IsolationNext]_isolationVars => IsolationIInv'
  BY IsolationStepKeeps
<1>3. IsolationIInv => NoStackedProbes
  BY DEF IsolationIInv
<1> QED
  BY <1>1, <1>2, <1>3, PTL DEF IsolationSpec

-----------------------------------------------------------------------------
(* Alerts on silence.  The claim lets one sweep look at the sources of an    *)
(* interval, so what it picked is still quiet when it raises.                *)

WatchInside == {"look", "raise"}

WatchTyped ==
    /\ wpc \in [Sweeper -> {"idle", "claim", "look", "raise", "offline", "back"}]
    /\ picked \in [Sweeper -> SUBSET Key]

WatchOneInside ==
    \A v, w \in Sweeper : wpc[v] \in WatchInside /\ wpc[w] \in WatchInside => v = w
WatchClaimHeld == \A w \in Sweeper : wpc[w] \in WatchInside => ~checkDue
StillQuiet ==
    \A w \in Sweeper : wpc[w] = "raise" => \A k \in picked[w] : quietFor[k] = 0

WatchIInv == WatchTyped /\ WatchOneInside /\ WatchClaimHeld /\ StillQuiet /\ SilenceToldOnce

LEMMA WatchInitially ==
  ASSUME WatchInit
  PROVE  WatchIInv
BY DEF WatchInit, WatchIInv, WatchTyped, WatchOneInside, WatchClaimHeld, StillQuiet,
       SilenceToldOnce, WatchInside

\* The endpoint changes nothing that the sweeps rely on.
LEMMA WatchEndpointKeeps ==
  ASSUME WatchIInv, CheckIn \/ Connection \/ \E a \in App : LogTo(a)
  PROVE  WatchIInv'
<1>1. UNCHANGED <<wpc, picked, checkDue, quietFor, twice>>
  BY DEF CheckIn, Connection, LogTo
<1> QED
  BY <1>1 DEF WatchIInv, WatchTyped, WatchOneInside, WatchClaimHeld, StillQuiet,
              SilenceToldOnce

\* Steps of a sweep that is not inside and does not come in.
LEMMA WatchOutsideKeeps ==
  ASSUME WatchIInv, NEW w \in Sweeper, ReadStamp(w) \/ Presence(w) \/ SweepDies(w)
  PROVE  WatchIInv'
<1>1. /\ UNCHANGED <<checkDue, quietFor, twice>>
      /\ \E l \in {"claim", "idle", "offline", "back"} : wpc' = [wpc EXCEPT ![w] = l]
      /\ picked' = picked \/ picked' = [picked EXCEPT ![w] = {}]
  BY DEF ReadStamp, Presence, LookOffline, RaiseOffline, BackOnline, SweepDies, WatchAt
<1>2. WatchTyped'
  BY <1>1 DEF WatchIInv, WatchTyped
<1>3. \A v \in Sweeper : wpc'[v] \in WatchInside => wpc'[v] = wpc[v] /\ picked'[v] = picked[v]
  BY <1>1 DEF WatchIInv, WatchTyped, WatchInside
<1>4. WatchOneInside' /\ WatchClaimHeld'
  BY <1>1, <1>3 DEF WatchIInv, WatchOneInside, WatchClaimHeld
<1>5. StillQuiet'
  BY <1>1, <1>3 DEF WatchIInv, StillQuiet, WatchInside
<1> QED
  BY <1>1, <1>2, <1>4, <1>5 DEF WatchIInv, SilenceToldOnce

\* The first claim of an interval finds nobody inside, the others fail.
LEMMA WatchClaimKeeps ==
  ASSUME WatchIInv, NEW w \in Sweeper, Claim(w)
  PROVE  WatchIInv'
<1>1. /\ ~checkDue' /\ UNCHANGED <<picked, quietFor, twice>>
      /\ wpc' = [wpc EXCEPT ![w] = IF checkDue THEN "look" ELSE "idle"]
  BY DEF Claim, WatchAt, Mine
<1>2. checkDue => \A v \in Sweeper : wpc[v] \notin WatchInside
  BY DEF WatchIInv, WatchClaimHeld
<1>3. WatchTyped'
  BY <1>1 DEF WatchIInv, WatchTyped
<1>4. /\ \A v \in Sweeper : v # w => wpc'[v] = wpc[v]
      /\ wpc'[w] = IF checkDue THEN "look" ELSE "idle"
  BY <1>1 DEF WatchIInv, WatchTyped
<1>5. WatchOneInside'
  BY <1>2, <1>4 DEF WatchIInv, WatchOneInside, WatchInside
<1>6. WatchClaimHeld' /\ StillQuiet'
  BY <1>1, <1>4 DEF WatchIInv, WatchClaimHeld, StillQuiet
<1> QED
  BY <1>1, <1>3, <1>5, <1>6 DEF WatchIInv, SilenceToldOnce

\* Between the look and the alert nobody else is inside to raise one.
LEMMA WatchInsideKeeps ==
  ASSUME WatchIInv, NEW w \in Sweeper, LookSilent(w) \/ RaiseSilent(w)
  PROVE  WatchIInv'
<1>1. /\ wpc[w] \in WatchInside /\ checkDue' = checkDue
      /\ \E l \in {"raise", "idle"} : wpc' = [wpc EXCEPT ![w] = l]
      /\ \E P \in SUBSET Key : picked' = [picked EXCEPT ![w] = P]
  BY DEF LookSilent, RaiseSilent, WatchAt, WatchInside, SilentKeys
<1>2. WatchTyped'
  BY <1>1 DEF WatchIInv, WatchTyped
<1>3. \A v \in Sweeper : v # w => wpc'[v] = wpc[v] /\ wpc'[v] \notin WatchInside
  BY <1>1 DEF WatchIInv, WatchTyped, WatchOneInside
<1>4. WatchOneInside' /\ WatchClaimHeld'
  BY <1>1, <1>3 DEF WatchIInv, WatchOneInside, WatchClaimHeld
<1>5. CASE LookSilent(w)
  <2>1. UNCHANGED <<quietFor, twice>>
    BY <1>5 DEF LookSilent
  <2>2. \A k \in picked'[w] : quietFor[k] = 0
    BY <1>5 DEF LookSilent, WatchIInv, WatchTyped
  <2>3. StillQuiet'
    BY <1>3, <2>1, <2>2 DEF StillQuiet, WatchInside
  <2> QED
    BY <1>2, <1>4, <2>1, <2>3 DEF WatchIInv, SilenceToldOnce
<1>6. CASE RaiseSilent(w)
  <2>1. wpc'[w] = "idle"
    BY <1>6 DEF RaiseSilent, WatchAt, WatchIInv, WatchTyped
  <2>2. StillQuiet'
    BY <1>3, <2>1 DEF StillQuiet, WatchInside
  <2>3. \A k \in picked[w] : ~ (quietFor[k] > 0)
    BY <1>6 DEF RaiseSilent, WatchIInv, StillQuiet
  <2>4. twice' = {}
    BY <1>6, <2>3 DEF RaiseSilent, WatchIInv, SilenceToldOnce
  <2> QED
    BY <1>2, <1>4, <2>2, <2>4 DEF WatchIInv, SilenceToldOnce
<1> QED
  BY <1>5, <1>6

\* When an interval ends nobody is inside.
LEMMA TickKeeps ==
  ASSUME WatchIInv, Tick
  PROVE  WatchIInv'
BY DEF WatchIInv, WatchTyped, Tick, WatchInside, WatchOneInside, WatchClaimHeld,
       StillQuiet, SilenceToldOnce

LEMMA WatchStepKeeps ==
  ASSUME WatchIInv, [WatchNext]_watchVars
  PROVE  WatchIInv'
<1>1. CASE UNCHANGED watchVars
  BY <1>1 DEF WatchIInv, WatchTyped, WatchOneInside, WatchClaimHeld, StillQuiet,
              SilenceToldOnce, watchVars
<1>2. CASE WatchNext
  BY <1>2, WatchEndpointKeeps, WatchOutsideKeeps, WatchClaimKeeps, WatchInsideKeeps,
     TickKeeps DEF WatchNext, Silence
<1> QED
  BY <1>1, <1>2

\* Whatever the thresholds, the cooldown and the number of overlapping sweeps, no
\* source is alerted on again while its last alert keeps it quiet.
THEOREM SilenceIsToldOnce == WatchSpec => []SilenceToldOnce
<1>1. WatchInit => WatchIInv
  BY WatchInitially
<1>2. WatchIInv /\ [WatchNext]_watchVars => WatchIInv'
  BY WatchStepKeeps
<1>3. WatchIInv => SilenceToldOnce
  BY DEF WatchIInv
<1> QED
  BY <1>1, <1>2, <1>3, PTL DEF WatchSpec

-----------------------------------------------------------------------------
(* Archiving and purge.  A view looks into live_logs first, and rows only    *)
(* ever go from there to the archive: a row that was not there at the first  *)
(* look is not there at the second.                                          *)

RetentionTyped ==
    /\ vpc \in [Reader -> 0 .. 2] /\ viewed \in [Reader -> SUBSET Log]

OnceArrived ==
    /\ linked \subseteq arrived
    /\ \A v \in Reader : viewed[v] \subseteq arrived

\* What the hold covers is linked to the open case, and in one of the tables.
HeldFast ==
    /\ owed \subseteq linked /\ owed \subseteq live \cup archived
    /\ owed # {} => holding

\* A view shows one item, and comes to the archive when live_logs has it no more.
Looking ==
    \A v \in Reader :
        /\ vpc[v] > 0 => \E r \in Log : viewed[v] = {r}
        /\ vpc[v] = 2 => viewed[v] \cap live = {}

RetentionIInv == RetentionTyped /\ OnceArrived /\ HeldFast /\ Looking /\ EvidenceFound

LEMMA RetentionInitially ==
  ASSUME RetentionInit
  PROVE  RetentionIInv
<1>1. RetentionTyped
  BY DEF RetentionInit, RetentionTyped
<1>2. OnceArrived /\ HeldFast /\ EvidenceFound
  BY DEF RetentionInit, OnceArrived, HeldFast, EvidenceFound
<1>3. Looking
  BY DEF RetentionInit, Looking
<1> QED
  BY <1>1, <1>2, <1>3 DEF RetentionIInv

\* A new row is no item of any case yet.
LEMMA IngestKeeps ==
  ASSUME RetentionIInv, NEW r \in Log, NEW d \in 0 .. MaxAge, Ingest(r, d)
  PROVE  RetentionIInv'
<1>1. r \notin arrived /\ arrived' = arrived \cup {r} /\ live' = live \cup {r}
  BY DEF Ingest
<1>2. UNCHANGED <<archived, holding, linked, owed, missing, vpc, viewed>>
  BY DEF Ingest, case, views
<1>3. \A v \in Reader : r \notin viewed[v]
  BY <1>1 DEF RetentionIInv, OnceArrived
<1>4. Looking'
  BY <1>1, <1>2, <1>3 DEF RetentionIInv, Looking
<1> QED
  BY <1>1, <1>2, <1>4 DEF RetentionIInv, RetentionTyped, OnceArrived, HeldFast,
                          EvidenceFound

\* Rows leave live_logs: for the archive, or with no hold on them.
LEMMA RemovalKeeps ==
  ASSUME RetentionIInv, Archive \/ Purge \/ \E n \in 1 .. MaxAge,
         S \in SUBSET Log : PurgeByHand(n, S)
  PROVE  RetentionIInv'
<1>1. UNCHANGED <<arrived, holding, linked, missing, vpc, viewed>>
  BY DEF Archive, Purge, PurgeByHand, case, views
<1>2. live' \subseteq live /\ owed' \subseteq owed /\ archived \subseteq archived'
  BY DEF Archive, Purge, PurgeByHand, case, views
<1>3. owed' \subseteq live' \cup archived'
  <2>1. CASE Archive
    BY <2>1 DEF Archive, Copied, Deleted, RetentionIInv, HeldFast, case
  <2>2. CASE Purge
    <3>1. owed \cap Aged(keep) \subseteq Held
      BY DEF RetentionIInv, HeldFast, Held
    <3> QED
      BY <2>2, <3>1 DEF Purge, RetentionIInv, HeldFast, case
  <2>3. CASE \E n \in 1 .. MaxAge, S \in SUBSET Log : PurgeByHand(n, S)
    BY <2>3 DEF PurgeByHand, RetentionIInv, HeldFast
  <2> QED
    BY <2>1, <2>2, <2>3
<1>4. HeldFast'
  BY <1>1, <1>2, <1>3 DEF RetentionIInv, HeldFast
<1>5. Looking'
  BY <1>1, <1>2 DEF RetentionIInv, Looking
<1> QED
  BY <1>1, <1>4, <1>5 DEF RetentionIInv, RetentionTyped, OnceArrived, EvidenceFound

\* Items come and go, the case is closed and reopened: only what is somewhere is
\* covered by the hold.
LEMMA CaseKeeps ==
  ASSUME RetentionIInv, Close \/ Reopen \/ \E r \in Log : Link(r) \/ Unlink(r)
  PROVE  RetentionIInv'
<1>1. UNCHANGED <<live, archived, arrived, missing, vpc, viewed>>
  BY DEF Close, Reopen, Link, Unlink, tables, views
<1>2. linked' \subseteq arrived
  BY DEF Close, Reopen, Link, Unlink, RetentionIInv, OnceArrived
<1>3. HeldFast'
  <2>1. CASE Close
    BY <2>1, <1>1 DEF Close, HeldFast
  <2>2. CASE Reopen
    BY <2>2, <1>1 DEF Reopen, HeldFast
  <2>3. CASE \E r \in Log : Link(r) \/ Unlink(r)
    BY <2>3, <1>1 DEF Link, Unlink, RetentionIInv, HeldFast
  <2> QED
    BY <2>1, <2>2, <2>3
<1> QED
  BY <1>1, <1>2, <1>3 DEF RetentionIInv, RetentionTyped, OnceArrived, Looking, EvidenceFound

LEMMA ViewKeeps ==
  ASSUME RetentionIInv, NEW v \in Reader, NEW r \in Log, View(v, r)
  PROVE  RetentionIInv'
<1>1. UNCHANGED <<live, archived, arrived, holding, linked, owed, missing>>
  BY DEF View, tables, case
<1>2. /\ r \in linked /\ viewed' = [viewed EXCEPT ![v] = {r}]
      /\ vpc' = [vpc EXCEPT ![v] = 1]
  BY DEF View
<1>3. RetentionTyped' /\ OnceArrived' /\ Looking'
  BY <1>1, <1>2 DEF RetentionIInv, RetentionTyped, OnceArrived, Looking
<1> QED
  BY <1>1, <1>3 DEF RetentionIInv, HeldFast, EvidenceFound

\* What neither look has found is in no table: the hold did not cover it.
LEMMA LookKeeps ==
  ASSUME RetentionIInv, NEW v \in Reader, Look(v)
  PROVE  RetentionIInv'
<1> DEFINE found == viewed[v] \subseteq Table(vpc[v])
           over == found \/ vpc[v] = 2
<1>1. UNCHANGED <<live, archived, arrived, holding, linked, owed>>
  BY DEF Look, tables, case
<1>2. /\ vpc[v] > 0
      /\ vpc' = [vpc EXCEPT ![v] = IF over THEN 0 ELSE 2]
      /\ viewed' = [viewed EXCEPT ![v] = IF over THEN {} ELSE viewed[v]]
      /\ missing' = IF over /\ ~found THEN missing \cup (viewed[v] \cap owed) ELSE missing
  BY DEF Look
<1>3. PICK r \in Log : viewed[v] = {r}
  BY <1>2 DEF RetentionIInv, Looking
<1>4. RetentionTyped' /\ OnceArrived'
  BY <1>1, <1>2 DEF RetentionIInv, RetentionTyped, OnceArrived
<1>5. ~over => viewed[v] \cap live = {}
  BY <1>2, <1>3 DEF Table, RetentionIInv, RetentionTyped
<1>6. Looking'
  BY <1>1, <1>2, <1>3, <1>5 DEF RetentionIInv, RetentionTyped, Looking
<1>7. over /\ ~found => viewed[v] \cap owed = {}
  BY <1>3 DEF Table, RetentionIInv, Looking, HeldFast
<1>8. missing' = {}
  BY <1>2, <1>7 DEF RetentionIInv, EvidenceFound
<1> QED
  BY <1>1, <1>4, <1>6, <1>8 DEF RetentionIInv, HeldFast, EvidenceFound

LEMMA RetentionStepKeeps ==
  ASSUME RetentionIInv, [RetentionNext]_retentionVars
  PROVE  RetentionIInv'
<1>1. CASE NextDay \/ UNCHANGED retentionVars \/ \E k, h \in 0 .. MaxAge : SetPolicy(k, h)
  <2>1. UNCHANGED <<live, archived, arrived, holding, linked, owed, missing, vpc, viewed>>
    BY <1>1 DEF NextDay, SetPolicy, retentionVars, tables, policy, case, views
  <2> QED
    BY <2>1 DEF RetentionIInv, RetentionTyped, OnceArrived, HeldFast, Looking, EvidenceFound
<1>2. CASE RetentionNext
  BY <1>1, <1>2, IngestKeeps, RemovalKeeps, CaseKeeps, ViewKeeps, LookKeeps
     DEF RetentionNext
<1> QED
  BY <1>1, <1>2

\* Neither archiving nor retention takes the evidence of an open case from under a
\* view of it, for any rows, ages and settings and any number of views.
THEOREM EvidenceIsFound == RetentionSpec => []EvidenceFound
<1>1. RetentionInit => RetentionIInv
  BY RetentionInitially
<1>2. RetentionIInv /\ [RetentionNext]_retentionVars => RetentionIInv'
  BY RetentionStepKeeps
<1>3. RetentionIInv => EvidenceFound
  BY DEF RetentionIInv
<1> QED
  BY <1>1, <1>2, <1>3, PTL DEF RetentionSpec

-----------------------------------------------------------------------------
(* Risk scores.  What a run has read is all there was above the mark, and    *)
(* the mark is saved with the scores.                                        *)

RiskTyped ==
    /\ newest \in [Source -> 0 .. MaxId] /\ mark \in [Source -> 0 .. MaxId]
    /\ ready \in [Source -> SUBSET Id] /\ taken \in [Source -> SUBSET Id]
    /\ scored \in [Source -> [Id -> Nat]]

\* An id below the newest of such a source is a row that can be scored.
NoGaps == \A s \in Source \ Delayed : ready[s] = 1 .. newest[s]
KnownIds == \A s \in Source : \A i \in ready[s] : i <= newest[s]

\* A run has read rows above the mark, and with a row all below it.
TakenAbove == \A s \in Source : taken[s] \subseteq ready[s] /\ \A i \in taken[s] : i > mark[s]
TakenWhole ==
    \A s \in Source \ Delayed : \A i \in taken[s] :
        \A j \in Id : mark[s] < j /\ j <= i => j \in taken[s]

ScoredBelow == \A s \in Source, i \in Id : scored[s][i] > 0 => i <= mark[s]

RiskIInv ==
    RiskTyped /\ NoGaps /\ KnownIds /\ TakenAbove /\ TakenWhole /\ ScoredBelow /\ ScoredExactlyOnce

(* Finite sets of ids have a largest one.                                     *)

LEMMA LargestId ==
  ASSUME RiskBounds, NEW S \in SUBSET (0 .. MaxId), S # {}
  PROVE  Max(S) \in S /\ \A y \in S : Max(S) >= y
<1> DEFINE T == {MaxId - c : c \in S}
<1>1. T \subseteq Nat /\ T # {}
  <2>1. \A c \in S : MaxId - c \in Nat
    BY DEF RiskBounds
  <2> QED
    BY <2>1
<1>2. PICK x \in T : \A y \in T : ~ (<<y, x>> \in OpToRel(<, Nat))
  <2> HIDE DEF T
  <2> QED
    BY <1>1, NatLessThanWellFounded, WFMin
<1>3. \A y \in T : ~ (y < x)
  BY <1>1, <1>2 DEF OpToRel
<1>4. PICK c \in S : x = MaxId - c
  BY DEF T
<1>5. \A y \in S : ~ (MaxId - y < MaxId - c)
  BY <1>3, <1>4
<1>6. \A y \in S : c >= y
  BY <1>5 DEF RiskBounds
<1> QED
  BY <1>6 DEF Max

LEMMA MarkAfter ==
  ASSUME RiskBounds, RiskIInv, NEW s \in Source
  PROVE  /\ NewMark(s) \in 0 .. MaxId /\ NewMark(s) >= mark[s]
         /\ \A i \in taken[s] : NewMark(s) >= i
         /\ NewMark(s) = mark[s] \/ NewMark(s) \in taken[s]
<1> DEFINE S == taken[s] \cup {mark[s]}
<1>1. S \in SUBSET (0 .. MaxId) /\ S # {}
  BY DEF RiskIInv, RiskTyped, Id, RiskBounds
<1> HIDE DEF S
<1>2. Max(S) \in S /\ \A y \in S : Max(S) >= y
  BY <1>1, LargestId
<1> QED
  BY <1>1, <1>2 DEF S, NewMark

LEMMA RiskInitially ==
  ASSUME RiskBounds, RiskInit
  PROVE  RiskIInv
<1>1. RiskTyped
  BY DEF RiskBounds, RiskInit, RiskTyped, Nothing
<1> QED
  BY <1>1 DEF RiskInit, RiskIInv, RiskTyped, Nothing, NoGaps, KnownIds, TakenAbove,
              TakenWhole, ScoredBelow,
              ScoredExactlyOnce, Id

LEMMA InsertKeeps ==
  ASSUME RiskBounds, RiskIInv, NEW s \in Source, Insert(s)
  PROVE  RiskIInv'
<1>1. /\ newest[s] < MaxId /\ newest' = [newest EXCEPT ![s] = newest[s] + 1]
      /\ ready' = IF s \in Delayed THEN ready
                  ELSE [ready EXCEPT ![s] = ready[s] \cup {newest[s] + 1}]
      /\ UNCHANGED <<mark, scored, running, taken>>
  BY DEF Insert
<1>2. RiskTyped'
  <2>1. newest' \in [Source -> 0 .. MaxId]
    BY <1>1 DEF RiskBounds, RiskIInv, RiskTyped
  <2>2. newest[s] + 1 \in Id
    BY <1>1 DEF RiskBounds, RiskIInv, RiskTyped, Id
  <2>3. ready' \in [Source -> SUBSET Id]
    BY <1>1, <2>2 DEF RiskIInv, RiskTyped
  <2> QED
    BY <1>1, <2>1, <2>3 DEF RiskIInv, RiskTyped
<1>3. \A t \in Source : ready[t] \subseteq ready'[t] /\ newest[t] <= newest'[t]
  BY <1>1 DEF RiskIInv, RiskTyped
<1>4. ASSUME NEW t \in Source \ Delayed
      PROVE  ready'[t] = 1 .. newest'[t]
  <2>1. ready[t] = 1 .. newest[t] /\ newest[t] \in Nat
    BY DEF RiskIInv, RiskTyped, NoGaps
  <2>2. CASE t = s
    <3>1. ready'[t] = ready[t] \cup {newest[t] + 1} /\ newest'[t] = newest[t] + 1
      BY <1>1, <2>2 DEF RiskIInv, RiskTyped
    <3>2. 1 .. (newest[t] + 1) = (1 .. newest[t]) \cup {newest[t] + 1}
      BY <2>1
    <3> QED
      BY <2>1, <3>1, <3>2
  <2>3. CASE t # s
    BY <1>1, <2>1, <2>3 DEF RiskIInv, RiskTyped
  <2> QED
    BY <2>2, <2>3
<1>5. ASSUME NEW t \in Source, NEW i \in ready'[t]
      PROVE  i <= newest'[t]
  <2>1. newest[t] \in Nat /\ newest[t] <= newest'[t] /\ newest'[t] \in Nat
    BY <1>2, <1>3 DEF RiskIInv, RiskTyped
  <2>2. CASE i \in ready[t]
    BY <2>1, <2>2 DEF RiskIInv, RiskTyped, KnownIds, Id
  <2>3. CASE i \notin ready[t]
    <3>1. i = newest[t] + 1 /\ newest'[t] = newest[t] + 1
      BY <1>1, <2>3 DEF RiskIInv, RiskTyped
    <3> QED
      BY <2>1, <3>1
  <2> QED
    BY <2>2, <2>3
<1> QED
  BY <1>1, <1>2, <1>3, <1>4, <1>5
     DEF RiskIInv, NoGaps, KnownIds, TakenAbove, TakenWhole, ScoredBelow, ScoredExactlyOnce

LEMMA CompleteKeeps ==
  ASSUME RiskIInv, NEW s \in Source, NEW i \in Id, Complete(s, i)
  PROVE  RiskIInv'
<1>1. /\ s \in Delayed /\ i <= newest[s] /\ ready' = [ready EXCEPT ![s] = ready[s] \cup {i}]
      /\ UNCHANGED <<newest, mark, scored, running, taken>>
  BY DEF Complete
<1>2. RiskTyped' /\ NoGaps' /\ KnownIds'
  BY <1>1 DEF RiskIInv, RiskTyped, NoGaps, KnownIds
<1>3. TakenAbove'
  BY <1>1 DEF RiskIInv, RiskTyped, TakenAbove
<1> QED
  BY <1>1, <1>2, <1>3 DEF RiskIInv, TakenWhole, ScoredBelow, ScoredExactlyOnce

\* All that is above the mark is read at once.
LEMMA CollectKeeps ==
  ASSUME RiskBounds, RiskIInv, Collect
  PROVE  RiskIInv'
<1>1. /\ taken' = [s \in Source |-> {i \in ready[s] : i > mark[s]}]
      /\ UNCHANGED <<newest, ready, mark, scored>>
  BY DEF Collect, rows, Unscored
<1>2. RiskTyped' /\ TakenAbove'
  BY <1>1 DEF RiskIInv, RiskTyped, TakenAbove
<1>3. TakenWhole'
  BY <1>1 DEF RiskIInv, RiskTyped, NoGaps, TakenWhole, Id, RiskBounds
<1> QED
  BY <1>1, <1>2, <1>3 DEF RiskIInv, NoGaps, KnownIds, ScoredBelow, ScoredExactlyOnce

\* Scores and mark move together: what was taken is scored for the first time, and
\* nothing between the old mark and the new one was not taken.
LEMMA SaveKeeps ==
  ASSUME RiskBounds, RiskIInv, Save
  PROVE  RiskIInv'
<1>1. /\ scored' = [s \in Source |-> [i \in Id |->
                       scored[s][i] + IF i \in taken[s] THEN 1 ELSE 0]]
      /\ mark' = [s \in Source |-> NewMark(s)]
      /\ taken' = Nothing /\ UNCHANGED <<newest, ready>>
  BY DEF Save, rows
<1>2. \A s \in Source :
        /\ mark'[s] \in 0 .. MaxId /\ mark'[s] >= mark[s]
        /\ \A i \in taken[s] : mark'[s] >= i
        /\ mark'[s] = mark[s] \/ mark'[s] \in taken[s]
  BY <1>1, MarkAfter
<1>3. \A s \in Source, i \in Id :
        scored'[s][i] = scored[s][i] + IF i \in taken[s] THEN 1 ELSE 0
  BY <1>1
<1>4. mark' \in [Source -> 0 .. MaxId]
  BY <1>1, <1>2
<1>5. scored' \in [Source -> [Id -> Nat]]
  BY <1>1 DEF RiskIInv, RiskTyped
<1>6. RiskTyped'
  BY <1>1, <1>4, <1>5 DEF RiskIInv, RiskTyped, Nothing
<1>7. ScoredBelow'
  BY <1>2, <1>3, <1>6 DEF RiskIInv, RiskTyped, ScoredBelow, Id, RiskBounds
<1>8. \A s \in Source, i \in Id : i \in taken[s] => scored[s][i] = 0
  BY DEF RiskIInv, RiskTyped, TakenAbove, ScoredBelow, Id, RiskBounds
<1>9. \A s \in Source, i \in Id : scored'[s][i] <= 1
  BY <1>3, <1>8 DEF RiskIInv, RiskTyped, ScoredExactlyOnce
<1>10. ASSUME NEW s \in Source, s \notin Delayed, NEW i \in Id, i <= mark'[s]
       PROVE  scored'[s][i] = 1
  <2>1. CASE i <= mark[s]
    <3>1. i \notin taken[s]
      BY <2>1 DEF RiskIInv, RiskTyped, TakenAbove, Id, RiskBounds
    <3> QED
      BY <1>3, <2>1, <3>1, <1>10 DEF RiskIInv, RiskTyped, ScoredExactlyOnce
  <2>2. CASE i > mark[s]
    <3>1. mark'[s] \in taken[s]
      BY <1>2, <1>10, <2>2 DEF RiskIInv, RiskTyped, Id, RiskBounds
    <3>2. i \in taken[s]
      BY <1>10, <2>2, <3>1 DEF RiskIInv, TakenWhole
    <3> QED
      BY <1>3, <1>8, <3>2
  <2> QED
    BY <2>1, <2>2 DEF RiskIInv, RiskTyped, Id, RiskBounds
<1>11. ScoredExactlyOnce'
  BY <1>9, <1>10 DEF ScoredExactlyOnce
<1>12. NoGaps' /\ KnownIds' /\ TakenAbove' /\ TakenWhole'
  BY <1>1 DEF RiskIInv, NoGaps, KnownIds, TakenAbove, TakenWhole, Nothing
<1> QED
  BY <1>6, <1>7, <1>11, <1>12 DEF RiskIInv

\* What a run that dies has read is read again.
LEMMA RunDiesKeeps ==
  ASSUME RiskIInv, RunDies
  PROVE  RiskIInv'
<1>1. taken' = Nothing /\ UNCHANGED <<newest, ready, mark, scored>>
  BY DEF RunDies, rows
<1>2. RiskTyped'
  BY <1>1 DEF RiskIInv, RiskTyped, Nothing
<1> QED
  BY <1>1, <1>2 DEF RiskIInv, NoGaps, KnownIds, TakenAbove, TakenWhole, ScoredBelow,
                    ScoredExactlyOnce, Nothing

LEMMA RiskStepKeeps ==
  ASSUME RiskBounds, RiskIInv, [RiskNext]_riskVars
  PROVE  RiskIInv'
<1>1. CASE UNCHANGED riskVars
  BY <1>1 DEF RiskIInv, RiskTyped, NoGaps, KnownIds, TakenAbove, TakenWhole, ScoredBelow,
              ScoredExactlyOnce, riskVars, rows
<1>2. CASE RiskNext
  BY <1>2, InsertKeeps, CompleteKeeps, CollectKeeps, SaveKeeps, RunDiesKeeps DEF RiskNext
<1> QED
  BY <1>1, <1>2

\* No row's points are given twice, and no row whose id comes with it is skipped by
\* the mark of its source, wherever runs die.
THEOREM EveryRowScoredOnce ==
  ASSUME RiskBounds
  PROVE  RiskSpec => []ScoredExactlyOnce
<1>1. RiskInit => RiskIInv
  BY RiskInitially
<1>2. RiskIInv /\ [RiskNext]_riskVars => RiskIInv'
  BY RiskStepKeeps
<1>3. RiskIInv => ScoredExactlyOnce
  BY DEF RiskIInv
<1> QED
  BY <1>1, <1>2, <1>3, PTL DEF RiskSpec

-----------------------------------------------------------------------------
(* Feeds.  Whatever a sync stored, or a successful sync brought, is in the      *)
(* table since that time or later, or a purge has reached back to it.         *)

FeedTyped ==
    /\ feedDay \in Nat /\ purgedTo \in Int
    /\ source \subseteq Listed
    /\ indicators \in [Feeding!Ioc -> Int \cup {None}]
    /\ renewed \in [Feeding!Ioc -> Nat \cup {Feeding!Never}]
    /\ feedSync \in [Feeding!Syncer ->
          [pc : {"fetching", "refused", "stored"}, feed : 1 .. MaxFeed, at : Nat,
           got : SUBSET Listed] \cup {Feeding!Idle}]

Past ==
    /\ \A i \in Feeding!Ioc : renewed[i] <= feedDay
    /\ \A s \in Feeding!Syncer : feedSync[s] # Feeding!Idle => feedSync[s].at <= feedDay

\* The indicator is in the table since the local time or later, or a purge has reached
\* beyond it.
Kept(i, day) ==
    (indicators[i] # None /\ indicators[i] >= Feeding!Utc(day)) \/ purgedTo > Feeding!Utc(day)

LEMMA UtcIsLater ==
    ASSUME Feeding!FeedBounds, NEW m \in Int, NEW n \in Int, m <= n
    PROVE  Feeding!Utc(m) \in Int /\ Feeding!Utc(n) \in Int /\ Feeding!Utc(m) <= Feeding!Utc(n)
BY DEF Feeding!FeedBounds, Feeding!Utc

RenewedKept ==
    \A i \in Feeding!Ioc : renewed[i] # Feeding!Never => Kept(i, renewed[i])

StoredKept ==
    \A s \in Feeding!Syncer :
        feedSync[s] # Feeding!Idle /\ feedSync[s].pc = "stored" =>
            \A i \in feedSync[s].got : Kept(i, feedSync[s].at)

FeedInv == FeedTyped /\ Past /\ RenewedKept /\ StoredKept

LEMMA MaxOfTwo ==
    ASSUME NEW m \in Int, NEW n \in Int
    PROVE  /\ Feeding!Max({m, n}) \in {m, n}
           /\ Feeding!Max({m, n}) >= m /\ Feeding!Max({m, n}) >= n
<1>1. \E x \in {m, n} : \A y \in {m, n} : x >= y
  <2>1. CASE m >= n  BY <2>1
  <2>2. CASE n >= m  BY <2>2
  <2> QED  BY <2>1, <2>2
<1> QED  BY <1>1 DEF Feeding!Max

LEMMA FeedInitially == Feeding!FeedBounds /\ Feeding!Init => FeedInv
BY DEF Feeding!FeedBounds, Feeding!Init, FeedInv, FeedTyped, Past, RenewedKept, StoredKept,
       Feeding!Never, Feeding!Idle

LEMMA FeedIdle ==
    ASSUME NEW r \in [pc : {"fetching", "refused", "stored"}, feed : 1 .. MaxFeed, at : Nat,
           got : SUBSET Listed]
    PROVE r # Feeding!Idle
<1>1. r.pc # "idle"  OBVIOUS
<1>2. Feeding!Idle.pc = "idle"  BY DEF Feeding!Idle
<1> QED  BY <1>1, <1>2

\* What leaves the table, the syncs and the purge alone.
LEMMA FeedRoutesKeep ==
    ASSUME FeedInv, Feeding!FeedBounds,
           \/ Feeding!Tick \/ Feeding!LookForFeed \/ Feeding!AddFeed
           \/ \E listing \in SUBSET Listed : Feeding!Publish(listing)
           \/ \E f \in 1 .. MaxFeed : Feeding!Switch(f) \/ Feeding!DeleteFeed(f)
    PROVE  FeedInv'
<1>1. /\ feedDay' \in Nat /\ feedDay' >= feedDay /\ source' \subseteq Listed
      /\ UNCHANGED <<indicators, purgedTo, feedSync, renewed>>
  BY DEF FeedInv, FeedTyped, Feeding!Tick, Feeding!LookForFeed, Feeding!AddFeed,
         Feeding!Publish, Feeding!Change, Feeding!Switch, Feeding!DeleteFeed
<1>2. FeedTyped'  BY <1>1 DEF FeedInv, FeedTyped
<1>3. Past'  BY <1>1 DEF FeedInv, FeedTyped, Past, Feeding!Never
<1>4. RenewedKept' /\ StoredKept'
  BY <1>1 DEF FeedInv, RenewedKept, StoredKept, Kept
<1> QED  BY <1>2, <1>3, <1>4 DEF FeedInv

LEMMA UploadKeeps ==
    ASSUME FeedInv, Feeding!FeedBounds, Feeding!Upload  PROVE  FeedInv'
<1>1. /\ feedDay' = feedDay /\ UNCHANGED <<source, purgedTo, feedSync>>
      /\ indicators' = [i \in Feeding!Ioc |->
                           IF i \in Uploaded THEN Feeding!Utc(feedDay) ELSE indicators[i]]
      /\ renewed' = [i \in Feeding!Ioc |-> IF i \in Uploaded THEN feedDay ELSE renewed[i]]
  BY DEF Feeding!Upload
<1>u. Feeding!Utc(feedDay) \in Int  BY UtcIsLater DEF FeedInv, FeedTyped
<1>2. FeedTyped'  BY <1>1, <1>u DEF FeedInv, FeedTyped
<1>3. Past'  BY <1>1 DEF FeedInv, FeedTyped, Past
<1>4. \A i \in Uploaded :
         indicators'[i] = Feeding!Utc(feedDay) /\ Feeding!Utc(feedDay) # None
  BY <1>1, <1>u DEF Feeding!Ioc, Feeding!FeedBounds, FeedInv, FeedTyped
<1>5. RenewedKept'
  <2> SUFFICES ASSUME NEW i \in Feeding!Ioc, renewed'[i] # Feeding!Never
               PROVE  Kept(i, renewed[i])'
    BY DEF RenewedKept
  <2>1. CASE i \in Uploaded
    BY <1>1, <1>u, <1>4, <2>1 DEF FeedInv, FeedTyped, Kept
  <2>2. CASE i \notin Uploaded
    BY <1>1, <2>2 DEF FeedInv, RenewedKept, Kept
  <2> QED  BY <2>1, <2>2
<1>6. StoredKept'
  <2> SUFFICES ASSUME NEW s \in Feeding!Syncer, feedSync[s] # Feeding!Idle,
                      feedSync[s].pc = "stored", NEW i \in feedSync[s].got
               PROVE  Kept(i, feedSync[s].at)'
    BY <1>1 DEF StoredKept
  <2>1. feedSync[s].at \in Int /\ feedSync[s].at <= feedDay /\ i \in Feeding!Ioc
        /\ Kept(i, feedSync[s].at)
    BY DEF FeedInv, FeedTyped, Past, StoredKept, Feeding!Ioc
  <2>2. Feeding!Utc(feedSync[s].at) <= Feeding!Utc(feedDay)
    BY <2>1, UtcIsLater DEF FeedInv, FeedTyped
  <2> QED  BY <1>1, <1>u, <1>4, <2>1, <2>2 DEF FeedInv, FeedTyped, Kept
<1> QED  BY <1>2, <1>3, <1>5, <1>6 DEF FeedInv

LEMMA StartKeeps ==
    ASSUME FeedInv, NEW s \in Feeding!Syncer, NEW f \in 1 .. MaxFeed, Feeding!Start(s, f)
    PROVE  FeedInv'
<1> DEFINE begun == [pc |-> IF feeds[f].kind = "csv" THEN "refused" ELSE "fetching",
                     feed |-> f, at |-> feedDay, got |-> {}]
<1>1. /\ UNCHANGED <<feedDay, source, indicators, purgedTo, renewed>>
      /\ feedSync' = [feedSync EXCEPT ![s] = begun]
  BY DEF Feeding!Start
<1>2. begun \in [pc : {"fetching", "refused", "stored"}, feed : 1 .. MaxFeed, at : Nat,
                 got : SUBSET Listed]
  BY DEF FeedInv, FeedTyped
<1>3. begun.at = feedDay /\ begun.pc # "stored"  OBVIOUS
<1> HIDE DEF begun
<1>4. FeedTyped'  BY <1>1, <1>2 DEF FeedInv, FeedTyped
<1>5. Past' /\ RenewedKept' /\ StoredKept'
  BY <1>1, <1>3 DEF FeedInv, FeedTyped, Past, RenewedKept, StoredKept, Kept
<1> QED  BY <1>4, <1>5 DEF FeedInv

LEMMA StoreKeeps ==
    ASSUME FeedInv, Feeding!FeedBounds, NEW s \in Feeding!Syncer, NEW got \in SUBSET Listed,
           Feeding!Store(s, got)
    PROVE  FeedInv'
<1>1. /\ UNCHANGED <<feedDay, source, purgedTo, renewed>>
      /\ indicators' = [i \in Feeding!Ioc |-> IF i \in got THEN Feeding!Utc(feedDay)
                                                    ELSE indicators[i]]
      /\ feedSync' = [feedSync EXCEPT ![s].pc = "stored", ![s].got = got]
      /\ feedSync[s] # Feeding!Idle
  BY DEF Feeding!Store, Feeding!Renewed
<1>u. Feeding!Utc(feedDay) \in Int  BY UtcIsLater DEF FeedInv, FeedTyped
<1>2. FeedTyped'  BY <1>1, <1>u DEF FeedInv, FeedTyped
<1>3. /\ feedSync'[s].at = feedSync[s].at /\ feedSync'[s].got = got
      /\ \A t \in Feeding!Syncer : t # s => feedSync'[t] = feedSync[t]
  BY <1>1 DEF FeedInv, FeedTyped
<1>4. /\ Feeding!Utc(feedDay) # None
      /\ \A i \in got : indicators'[i] = Feeding!Utc(feedDay)
      /\ \A i \in Feeding!Ioc : i \notin got => indicators'[i] = indicators[i]
  BY <1>1, <1>u DEF FeedInv, FeedTyped, Feeding!FeedBounds, Feeding!Ioc
<1>5. Past'
  BY <1>1, <1>3 DEF FeedInv, Past
<1>l. \A day \in Int : day <= feedDay => Feeding!Utc(day) <= Feeding!Utc(feedDay)
  BY UtcIsLater DEF FeedInv, FeedTyped
<1>6. \A i \in Feeding!Ioc, day \in Int : day <= feedDay /\ Kept(i, day) => Kept(i, day)'
  BY <1>1, <1>u, <1>l, <1>4 DEF FeedInv, FeedTyped, Kept
<1>7. RenewedKept'
  BY <1>1, <1>6 DEF FeedInv, FeedTyped, Past, RenewedKept, Feeding!Never
<1>8. StoredKept'
  <2> SUFFICES ASSUME NEW t \in Feeding!Syncer, feedSync'[t] # Feeding!Idle,
                      feedSync'[t].pc = "stored", NEW i \in feedSync'[t].got
               PROVE  Kept(i, feedSync[t].at)'
    BY DEF StoredKept
  <2>1. CASE t = s
    <3>1. feedSync[s].at \in Int /\ feedSync[s].at <= feedDay
      BY <1>1 DEF FeedInv, FeedTyped, Past
    <3> QED  BY <1>1, <1>u, <1>l, <1>3, <1>4, <2>1, <3>1 DEF FeedInv, FeedTyped, Kept
  <2>2. CASE t # s
    <3>1. feedSync[t].at \in Int /\ feedSync[t].at <= feedDay /\ i \in Feeding!Ioc
          /\ Kept(i, feedSync[t].at)
      BY <1>3, <2>2 DEF FeedInv, FeedTyped, Past, StoredKept, Feeding!Ioc
    <3> QED  BY <1>3, <1>6, <2>2, <3>1 DEF Kept
  <2> QED  BY <2>1, <2>2
<1> QED  BY <1>2, <1>5, <1>7, <1>8 DEF FeedInv

\* A sync ends: what it has stored becomes what a successful sync has brought.
LEMMA SettleKeeps ==
    ASSUME FeedInv, NEW s \in Feeding!Syncer, Feeding!Settle(s)  PROVE  FeedInv'
<1> DEFINE latest(i) == Feeding!Max({feedSync[s].at, renewed[i]})
<1>1. /\ UNCHANGED <<feedDay, source, indicators, purgedTo>>
      /\ feedSync' = [feedSync EXCEPT ![s] = Feeding!Idle]
      /\ renewed' = [i \in Feeding!Ioc |-> IF i \in feedSync[s].got THEN latest(i)
                                           ELSE renewed[i]]
      /\ feedSync[s] # Feeding!Idle /\ feedSync[s].pc = "stored"
  BY DEF Feeding!Settle
<1>2. feedSync[s].at \in Nat /\ feedSync[s].at <= feedDay
  BY <1>1 DEF FeedInv, FeedTyped, Past
<1>3. \A i \in Feeding!Ioc : latest(i) \in {feedSync[s].at, renewed[i]} /\ latest(i) \in Nat
  <2> TAKE i \in Feeding!Ioc
  <2>1. renewed[i] \in Nat \cup {-1}  BY DEF FeedInv, FeedTyped, Feeding!Never
  <2>2. /\ latest(i) \in {feedSync[s].at, renewed[i]}
        /\ latest(i) >= feedSync[s].at
    <3>1. feedSync[s].at \in Int /\ renewed[i] \in Int  BY <1>2, <2>1
    <3> QED  BY ONLY <3>1, MaxOfTwo
  <2> QED  BY <1>2, <2>1, <2>2
<1> HIDE DEF latest
<1>4. FeedTyped'  BY <1>1, <1>3 DEF FeedInv, FeedTyped
<1>5. Past'  BY <1>1, <1>2, <1>3 DEF FeedInv, FeedTyped, Past
<1>6. RenewedKept'
  <2> SUFFICES ASSUME NEW i \in Feeding!Ioc, renewed'[i] # Feeding!Never
               PROVE  Kept(i, renewed[i])'
    BY DEF RenewedKept
  <2>1. CASE i \in feedSync[s].got
    <3>1. Kept(i, feedSync[s].at)  BY <1>1, <2>1 DEF FeedInv, StoredKept
    <3>2. renewed'[i] = feedSync[s].at \/ renewed'[i] = renewed[i]
      BY <1>1, <1>3, <2>1
    <3> QED  BY <1>1, <3>1, <3>2 DEF FeedInv, RenewedKept, Kept
  <2>2. CASE i \notin feedSync[s].got
    BY <1>1, <2>2 DEF FeedInv, RenewedKept, Kept
  <2> QED  BY <2>1, <2>2
<1>7. StoredKept'
  BY <1>1 DEF FeedInv, FeedTyped, StoredKept, Kept
<1> QED  BY <1>4, <1>5, <1>6, <1>7 DEF FeedInv

LEMMA SyncEndsKeeps ==
    ASSUME FeedInv, NEW s \in Feeding!Syncer, Feeding!Fail(s) \/ Feeding!Dies(s)
    PROVE  FeedInv'
<1>1. /\ UNCHANGED <<feedDay, source, indicators, purgedTo, renewed>>
      /\ feedSync' = [feedSync EXCEPT ![s] = Feeding!Idle]
  BY DEF Feeding!Fail, Feeding!Dies
<1>2. FeedTyped'  BY <1>1 DEF FeedInv, FeedTyped
<1>3. Past' /\ RenewedKept' /\ StoredKept'
  BY <1>1 DEF FeedInv, FeedTyped, Past, RenewedKept, StoredKept, Kept
<1> QED  BY <1>2, <1>3 DEF FeedInv

\* What a purge removes is older than the day to which it reaches.
LEMMA PurgeKeeps ==
    ASSUME FeedInv, Feeding!FeedBounds, NEW size \in Nat, Feeding!Purge(size)
    PROVE  FeedInv'
<1>1. /\ UNCHANGED <<feedDay, source, feedSync, renewed>>
      /\ indicators' = [i \in Feeding!Ioc |->
             IF indicators[i] # None /\ indicators[i] < feedDay - size THEN None
             ELSE indicators[i]]
      /\ purgedTo' = Feeding!Max({purgedTo, feedDay - size})
  BY DEF Feeding!Purge
<1>2. purgedTo' \in Int /\ purgedTo' >= purgedTo /\ purgedTo' >= feedDay - size
  <2>1. purgedTo \in Int /\ feedDay - size \in Int  BY DEF FeedInv, FeedTyped
  <2>2. LET day == Feeding!Max({purgedTo, feedDay - size}) IN
        day \in {purgedTo, feedDay - size} /\ day >= purgedTo /\ day >= feedDay - size
    BY ONLY <2>1, MaxOfTwo
  <2> QED  BY <1>1, <2>1, <2>2
<1>3. FeedTyped'  BY <1>1, <1>2 DEF FeedInv, FeedTyped
<1>4. Past'  BY <1>1 DEF FeedInv, Past
<1>5. \A i \in Feeding!Ioc, day \in Int : Kept(i, day) => Kept(i, day)'
  <2> SUFFICES ASSUME NEW i \in Feeding!Ioc, NEW day \in Int, Kept(i, day)
               PROVE  Kept(i, day)'
    OBVIOUS
  <2>u. Feeding!Utc(day) \in Int  BY UtcIsLater
  <2>1. CASE purgedTo > Feeding!Utc(day)  BY <1>2, <2>u, <2>1 DEF FeedInv, FeedTyped, Kept
  <2>2. CASE indicators[i] # None /\ indicators[i] >= Feeding!Utc(day)
    <3>1. indicators[i] \in Int  BY <2>2 DEF FeedInv, FeedTyped
    <3> QED  BY <1>1, <1>2, <2>u, <2>2, <3>1 DEF FeedInv, FeedTyped, Kept
  <2> QED  BY <2>1, <2>2 DEF Kept
<1>6. RenewedKept'
  <2> SUFFICES ASSUME NEW i \in Feeding!Ioc, renewed[i] # Feeding!Never
               PROVE  Kept(i, renewed[i])'
    BY <1>1 DEF RenewedKept
  <2>1. renewed[i] \in Int /\ Kept(i, renewed[i])
    BY DEF FeedInv, FeedTyped, RenewedKept
  <2>2. Kept(i, renewed[i])'  BY <1>1, <1>5, <2>1 DEF Kept
  <2> QED  BY <2>2
<1>7. StoredKept'
  <2> SUFFICES ASSUME NEW t \in Feeding!Syncer, feedSync[t] # Feeding!Idle,
                      feedSync[t].pc = "stored", NEW i \in feedSync[t].got
               PROVE  Kept(i, feedSync[t].at)'
    BY <1>1 DEF StoredKept
  <2>1. feedSync[t].at \in Int /\ i \in Feeding!Ioc /\ Kept(i, feedSync[t].at)
    BY DEF FeedInv, FeedTyped, StoredKept, Feeding!Ioc
  <2>2. Kept(i, feedSync[t].at)'  BY <1>1, <1>5, <2>1 DEF Kept
  <2> QED  BY <2>2
<1> QED  BY <1>3, <1>4, <1>6, <1>7 DEF FeedInv

LEMMA FeedStepKeeps ==
    ASSUME FeedInv, Feeding!FeedBounds, [Feeding!Next]_(Feeding!vars)  PROVE  FeedInv'
<1>1. CASE UNCHANGED Feeding!vars
  BY <1>1 DEF Feeding!vars, FeedInv, FeedTyped, Past, RenewedKept, StoredKept, Kept
<1>2. CASE \E f \in 1 .. MaxFeed : Feeding!Start(FeedRequest, f)
                                   \/ (Feeding!Due(f) /\ Feeding!Start(Loop, f))
  BY <1>2, StartKeeps DEF Feeding!Syncer
<1>3. CASE \E s \in Feeding!Syncer, got \in SUBSET Listed : Feeding!Store(s, got)
  BY <1>3, StoreKeeps
<1>4. CASE \E s \in Feeding!Syncer : Feeding!Settle(s) \/ Feeding!Fail(s) \/ Feeding!Dies(s)
  BY <1>4, SettleKeeps, SyncEndsKeeps
<1>5. CASE Feeding!DailyPurge \/ \E size \in Sizes : Feeding!PurgeByHand(size)
  BY <1>5, PurgeKeeps DEF Feeding!DailyPurge, Feeding!PurgeByHand, Feeding!FeedBounds
<1> QED
  BY <1>1, <1>2, <1>3, <1>4, <1>5, FeedRoutesKeep, UploadKeeps DEF Feeding!Next

\* An indicator that a successful sync brought stays in the table until the cutoff of a
\* purge, a local time, comes after the UTC time of that sync, whatever syncs overlap or die.
THEOREM IntelIsKept ==
    ASSUME Feeding!FeedBounds  PROVE  Feeding!Spec => []Feeding!RenewedIsKept
<1>1. Feeding!Init => FeedInv  BY FeedInitially
<1>2. FeedInv /\ [Feeding!Next]_(Feeding!vars) => FeedInv'  BY FeedStepKeeps
<1>3. FeedInv => Feeding!RenewedIsKept
  <2> SUFFICES ASSUME FeedInv, NEW i \in Feeding!Ioc, renewed[i] # Feeding!Never,
                      Feeding!Utc(renewed[i]) >= purgedTo
               PROVE  indicators[i] # None
    BY DEF Feeding!RenewedIsKept
  <2>1. renewed[i] \in Int /\ purgedTo \in Int /\ Kept(i, renewed[i])
    BY DEF FeedInv, FeedTyped, RenewedKept
  <2>2. Feeding!Utc(renewed[i]) \in Int  BY <2>1, UtcIsLater
  <2> QED  BY <2>1, <2>2 DEF Kept
<1> QED  BY <1>1, <1>2, <1>3, PTL DEF Feeding!Spec

-----------------------------------------------------------------------------
(* The YARAify pack.  The one moment without a pack is another sync's between *)
(* Aside and Place; a sync that is alone finds what it has cleared.           *)

SwapTyped ==
    /\ final \in Nat /\ stale \in Nat /\ packs \in Nat /\ swapDeaths \in Nat
    /\ swapPc \in [PackSyncer -> Swapping!Steps] /\ extract \in [PackSyncer -> Nat]
    /\ alone \subseteq PackSyncer

Carries(s) == swapPc[s] \in {"clear", "aside", "place"}
Extracted == \A s \in PackSyncer : Carries(s) => extract[s] # Swapping!NoPack

\* Where there is no pack and none died, a sync is about to place one.
OneComes ==
    swapDeaths = 0 /\ final = Swapping!NoPack
    /\ (succeeded \/ \E s \in PackSyncer : swapPc[s] = "tidy")
        => \E s \in PackSyncer : swapPc[s] = "place"

Undisturbed ==
    \A s \in alone : swapPc[s] # "idle" =>
        /\ \A r \in PackSyncer \ {s} : swapPc[r] = "idle"
        /\ Carries(s) => extract[s] = packs
        /\ swapPc[s] = "aside" => stale = Swapping!NoPack
        /\ swapPc[s] = "place" => final = Swapping!NoPack
        /\ swapPc[s] = "tidy" => final = packs

SwapInv == SwapTyped /\ Extracted /\ OneComes /\ Undisturbed

LEMMA SwapInitially == Swapping!Init => SwapInv
BY DEF Swapping!Init, Swapping!Steps, Swapping!NoPack, SwapInv, SwapTyped, Extracted, OneComes,
       Undisturbed, Carries

LEMMA SwapStepKeeps ==
    ASSUME SwapInv, [Swapping!Next]_(Swapping!vars)  PROVE  SwapInv'
<1> USE DEF SwapInv, Swapping!NoPack, Swapping!Goes, Carries
<1>1. CASE UNCHANGED Swapping!vars
  BY <1>1 DEF Swapping!vars, SwapTyped, Extracted, OneComes, Undisturbed
<1>2. ASSUME NEW s \in PackSyncer, Swapping!Extract(s)  PROVE  SwapInv'
  <2> USE <1>2 DEF Swapping!Extract
  <2>1. SwapTyped'  BY DEF SwapTyped, Swapping!Steps
  <2>2. Extracted'  BY DEF SwapTyped, Extracted
  <2>3. OneComes'  BY DEF SwapTyped, OneComes
  <2>4. Undisturbed'  BY DEF SwapTyped, Undisturbed
  <2> QED  BY <2>1, <2>2, <2>3, <2>4
<1>3. ASSUME NEW s \in PackSyncer, Swapping!Clear(s)  PROVE  SwapInv'
  <2> USE <1>3 DEF Swapping!Clear, Swapping!Cleared
  <2>1. SwapTyped'  BY DEF SwapTyped, Swapping!Steps
  <2>2. Extracted'  BY DEF SwapTyped, Extracted
  <2>3. OneComes'  BY DEF SwapTyped, OneComes
  <2>4. Undisturbed'  BY DEF SwapTyped, Undisturbed
  <2> QED  BY <2>1, <2>2, <2>3, <2>4
<1>4. ASSUME NEW s \in PackSyncer, Swapping!Aside(s)  PROVE  SwapInv'
  <2> USE <1>4 DEF Swapping!Aside, Swapping!GivesUp
  <2>1. SwapTyped'  BY DEF SwapTyped, Swapping!Steps
  <2>2. Extracted'  BY DEF SwapTyped, Extracted
  <2>3. OneComes'  BY DEF SwapTyped, OneComes
  <2>4. Undisturbed'  BY DEF SwapTyped, Undisturbed
  <2> QED  BY <2>1, <2>2, <2>3, <2>4
<1>5. ASSUME NEW s \in PackSyncer, Swapping!Place(s)  PROVE  SwapInv'
  <2> USE <1>5 DEF Swapping!Place, Swapping!GivesUp
  <2>1. SwapTyped'  BY DEF SwapTyped, Swapping!Steps
  <2>2. Extracted'  BY DEF SwapTyped, Extracted
  <2>3. OneComes'  BY DEF SwapTyped, OneComes, Extracted
  <2>4. Undisturbed'  BY DEF SwapTyped, Undisturbed
  <2> QED  BY <2>1, <2>2, <2>3, <2>4
<1>6. ASSUME NEW s \in PackSyncer, Swapping!Tidy(s)  PROVE  SwapInv'
  <2> USE <1>6 DEF Swapping!Tidy
  <2>1. SwapTyped'  BY DEF SwapTyped, Swapping!Steps
  <2>2. Extracted'  BY DEF SwapTyped, Extracted
  <2>3. OneComes'  BY DEF SwapTyped, OneComes
  <2>4. Undisturbed'  BY DEF SwapTyped, Undisturbed
  <2> QED  BY <2>1, <2>2, <2>3, <2>4
<1>7. ASSUME NEW s \in PackSyncer, Swapping!Dies(s)  PROVE  SwapInv'
  <2> USE <1>7 DEF Swapping!Dies
  <2>1. SwapTyped'  BY DEF SwapTyped, Swapping!Steps
  <2>2. Extracted'  BY DEF SwapTyped, Extracted
  <2>3. OneComes'  BY DEF SwapTyped, OneComes
  <2>4. Undisturbed'  BY DEF SwapTyped, Undisturbed
  <2> QED  BY <2>1, <2>2, <2>3, <2>4
<1> QED
  BY <1>1, <1>2, <1>3, <1>4, <1>5, <1>6, <1>7 DEF Swapping!Next

\* Once a sync has succeeded there is a pack whenever no sync runs, as long as none was
\* killed; and a sync that runs by itself ends with its pack in place, whatever was left.
THEOREM SwapHeals ==
    Swapping!Spec => [](Swapping!PackStays /\ Swapping!Unhindered)
<1>1. SwapInv => Swapping!PackStays /\ Swapping!Unhindered
  BY DEF SwapInv, SwapTyped, OneComes, Undisturbed, Swapping!PackStays, Swapping!Unhindered
<1> QED  BY <1>1, SwapInitially, SwapStepKeeps, PTL DEF Swapping!Spec

-----------------------------------------------------------------------------
(* The YARA rules that are copied file by file.  A full sync that is alone    *)
(* rewrites every file, and what it has behind it nobody else touches.        *)

PackRule == [version : Nat, file : RuleKey]
PackTable == [RuleKey -> PackRule \cup {None}]
PackBusy ==
    [pc : {"write", "row", "commit"}, mode : Copying!Mode, parsed : PackTable,
     existing : PackTable, todo : SUBSET RuleKey, key : RuleKey \cup {None}, rows : SUBSET RuleKey,
     alone : BOOLEAN]

\* A rule known by its path is in the file of that name.
InPlace(table) == \A k \in Copying!Keys(table) : table[k].file = k

PackTyped ==
    /\ release \in PackTable /\ InPlace(release)
    /\ tracked \in PackTable /\ InPlace(tracked)
    /\ packFiles \in [RuleKey -> (RuleKey \X Nat) \cup {None}]
    /\ packSync \in [PackSyncer -> PackBusy \cup {Copying!Idle}]

\* A file holds the rule that is named like it.
OwnFiles == \A f \in RuleKey : packFiles[f] # None => packFiles[f][1] = f

Fits(m) ==
    /\ m \in PackBusy
    /\ InPlace(m.parsed) /\ InPlace(m.existing)
    /\ m.todo \subseteq Copying!Keys(m.parsed) /\ m.rows \subseteq Copying!Keys(m.parsed)
    /\ m.pc = "row" => m.key \in m.todo
    /\ m.pc = "commit" => m.todo = {}
Planned == \A s \in Copying!Running : Fits(packSync[s])

\* The rules that a full sync drops, and the files that are as it downloaded them.
Gone(m) ==
    IF m.mode = "all" THEN Copying!Keys(m.existing) \ Copying!Keys(m.parsed) ELSE {}
FileCopied(m, k) == packFiles[k] = <<k, m.parsed[k].version>>

\* A sync that is alone works on the table as it is; what it has copied is there still.
OnCourse(m) ==
    /\ m.existing = tracked
    /\ m.mode = "all" => Copying!Keys(m.parsed) = m.rows \cup m.todo
    /\ \A k \in m.rows : FileCopied(m, k)
    /\ m.pc = "row" => FileCopied(m, m.key)
    /\ m.pc = "commit" => \A k \in Gone(m) : packFiles[k] = None
Ahead ==
    \A s \in Copying!Running : packSync[s].alone =>
        Copying!Running = {s} /\ OnCourse(packSync[s])

PackInv == PackTyped /\ OwnFiles /\ Planned /\ Ahead

LEMMA PackIdle == \A m \in PackBusy : m # Copying!Idle
<1>1. \A m \in PackBusy : m.pc # "idle"  BY DEF PackBusy
<1>2. Copying!Idle.pc = "idle"  BY DEF Copying!Idle
<1> QED  BY <1>1, <1>2

LEMMA PackInitially == Copying!RulePackBounds /\ PathIsKey /\ Copying!Init => PackInv
<1> SUFFICES ASSUME Copying!RulePackBounds, PathIsKey, Copying!Init  PROVE PackInv
  OBVIOUS
<1> USE DEF Copying!RulePackBounds, Copying!Init, Copying!First
<1>1. Copying!Running = {}  BY DEF Copying!Running
<1>2. PackTyped  BY DEF PackTyped, PackTable, PackRule, InPlace, Copying!Keys
<1>3. OwnFiles  BY DEF OwnFiles
<1> QED  BY <1>1, <1>2, <1>3 DEF PackInv, Planned, Ahead

LEMMA PublishKeeps ==
    ASSUME Copying!RulePackBounds, PathIsKey, PackInv,
           NEW k \in RuleKey, NEW rule \in Copying!Rule \cup {None}, Copying!Publish(k, rule)
    PROVE  PackInv'
<1> USE DEF Copying!Publish
<1>1. release' \in PackTable
  BY DEF PackInv, PackTyped, PackTable, PackRule, Copying!Rule, Copying!RulePackBounds
<1>2. InPlace(release')
  BY DEF PackInv, PackTyped, PackTable, InPlace, Copying!Keys
<1>3. Copying!Running' = Copying!Running  BY DEF Copying!Running
<1> QED
  BY <1>1, <1>2, <1>3 DEF PackInv, PackTyped, OwnFiles, Planned, Ahead, OnCourse, FileCopied

LEMMA FetchKeeps ==
    ASSUME PackInv, NEW s \in PackSyncer, NEW mode \in Copying!Mode, Copying!Fetch(s, mode)
    PROVE  PackInv'
<1> DEFINE m == [pc |-> "write", mode |-> mode, parsed |-> release, existing |-> tracked,
                 todo |-> Copying!ToWrite(mode, release, tracked), key |-> None, rows |-> {},
                 alone |-> Copying!Running = {}]
           Met(r) == [packSync[r] EXCEPT !.alone = FALSE]
<1>1. /\ packSync[s] = Copying!Idle
      /\ packSync' = [r \in PackSyncer |-> IF r = s THEN m
                       ELSE IF r \in Copying!Running THEN Met(r) ELSE Copying!Idle]
      /\ UNCHANGED <<release, packFiles, tracked>>
  BY DEF Copying!Fetch, Copying!Parsed
<1> HIDE DEF m, Met
<1>2. /\ m \in PackBusy
      /\ m.todo \subseteq Copying!Keys(release) /\ (mode = "all" => m.todo = Copying!Keys(release))
      /\ m.pc = "write" /\ m.mode = mode /\ m.parsed = release /\ m.existing = tracked
      /\ m.rows = {} /\ m.alone = (Copying!Running = {})
  BY DEF m, PackInv, PackTyped, PackBusy, Copying!Mode, Copying!ToWrite, Copying!Keys
<1>3. ASSUME NEW r \in Copying!Running
      PROVE  /\ Met(r) \in PackBusy /\ ~Met(r).alone /\ packSync[r] \in PackBusy
             /\ Met(r).parsed = packSync[r].parsed /\ Met(r).existing = packSync[r].existing
             /\ Met(r).todo = packSync[r].todo /\ Met(r).rows = packSync[r].rows
             /\ Met(r).pc = packSync[r].pc /\ Met(r).key = packSync[r].key
  BY DEF Met, PackInv, Planned, Fits, PackBusy
<1>4. Copying!Running' = Copying!Running \cup {s} /\ s \notin Copying!Running
  BY <1>1, <1>2, <1>3, PackIdle DEF Copying!Running
<1>5. PackTyped'
  BY <1>1, <1>2, <1>3 DEF PackInv, PackTyped, InPlace
<1>6. OwnFiles'
  BY <1>1 DEF PackInv, OwnFiles
<1>7. packSync'[s] = m /\ \A r \in Copying!Running : packSync'[r] = Met(r) /\ r # s
  BY <1>1, <1>4 DEF Copying!Running
<1>8. Planned'
  BY <1>2, <1>3, <1>4, <1>7 DEF PackInv, PackTyped, Planned, Fits
<1>9. Ahead'
  <2> SUFFICES ASSUME NEW r \in Copying!Running', packSync'[r].alone
               PROVE  /\ r = s /\ Copying!Running = {}
    BY <1>1, <1>2, <1>4, <1>7 DEF Ahead, OnCourse
  <2> QED  BY <1>2, <1>3, <1>4, <1>7
<1> QED  BY <1>5, <1>6, <1>8, <1>9 DEF PackInv

\* A step that takes a running sync on from m to n.
LEMMA GoesOn ==
    ASSUME PackInv, NEW s \in Copying!Running, NEW n, packSync' = [packSync EXCEPT ![s] = n],
           UNCHANGED <<release, tracked>>, Fits(n), n.alone = packSync[s].alone,
           packFiles' \in [RuleKey -> (RuleKey \X Nat) \cup {None}], OwnFiles',
           n.alone => OnCourse(n)'
    PROVE  PackInv'
<1>1. s \in PackSyncer /\ n # Copying!Idle
  BY PackIdle DEF Copying!Running, Fits
<1>2. packSync'[s] = n /\ \A r \in PackSyncer : r # s => packSync'[r] = packSync[r]
  BY <1>1 DEF PackInv, PackTyped
<1>3. Copying!Running' = Copying!Running
  BY <1>1, <1>2 DEF Copying!Running
<1>4. PackTyped'  BY <1>1 DEF PackInv, PackTyped, InPlace, Fits
<1>5. Planned'  BY <1>2, <1>3 DEF PackInv, Planned, Copying!Running
<1>6. Ahead'
  <2> SUFFICES ASSUME NEW r \in Copying!Running, packSync'[r].alone
               PROVE  Copying!Running = {r} /\ OnCourse(packSync[r])'
    BY <1>3 DEF Ahead
  <2>1. CASE r = s  BY <1>2, <2>1 DEF PackInv, Ahead, OnCourse, FileCopied
  <2>2. CASE r # s
    <3>1. packSync[r].alone  BY <1>2, <2>2 DEF Copying!Running
    <3> QED  BY <2>2, <3>1 DEF PackInv, Ahead
  <2> QED  BY <2>1, <2>2
<1> QED  BY <1>4, <1>5, <1>6 DEF PackInv

\* A step that ends a running sync.
LEMMA Ends ==
    ASSUME PackInv, NEW s \in Copying!Running,
           packSync' = [packSync EXCEPT ![s] = Copying!Idle], UNCHANGED release,
           tracked' \in PackTable, InPlace(tracked'),
           packFiles' \in [RuleKey -> (RuleKey \X Nat) \cup {None}], OwnFiles'
    PROVE  PackInv'
<1>1. /\ s \in PackSyncer /\ packSync'[s] = Copying!Idle
      /\ \A r \in PackSyncer : r # s => packSync'[r] = packSync[r]
  BY DEF PackInv, PackTyped, Copying!Running
<1>2. Copying!Running' = Copying!Running \ {s}
  BY <1>1 DEF Copying!Running
<1>3. PackTyped'  BY <1>1 DEF PackInv, PackTyped, InPlace
<1>4. Planned'  BY <1>1, <1>2 DEF PackInv, Planned, Copying!Running
<1>5. Ahead'  BY <1>1, <1>2 DEF PackInv, Ahead, Copying!Running
<1> QED  BY <1>3, <1>4, <1>5 DEF PackInv

LEMMA WriteFileKeeps ==
    ASSUME PackInv, NEW s \in PackSyncer, NEW k \in RuleKey, Copying!WriteFile(s, k)  PROVE PackInv'
<1> PICK m : m = packSync[s]  OBVIOUS
<1> PICK n : n = [m EXCEPT !.pc = "row", !.key = k]  OBVIOUS
<1>1. /\ s \in Copying!Running /\ m.pc = "write" /\ k \in m.todo
      /\ packFiles' = [packFiles EXCEPT ![m.parsed[k].file] = <<k, m.parsed[k].version>>]
      /\ packSync' = [packSync EXCEPT ![s] = n] /\ UNCHANGED <<release, tracked>>
  BY DEF Copying!WriteFile, Copying!At
<1>2. Fits(m)  BY <1>1 DEF PackInv, Planned
<1>3. /\ k \in Copying!Keys(m.parsed) /\ m.parsed[k].file = k /\ m.parsed[k].version \in Nat
  BY <1>1, <1>2 DEF Fits, InPlace, Copying!Keys, PackBusy, PackTable, PackRule
<1>4. /\ n \in PackBusy /\ n.pc = "row" /\ n.key = k /\ n.alone = m.alone
      /\ n.parsed = m.parsed /\ n.existing = m.existing /\ n.todo = m.todo
      /\ n.rows = m.rows /\ n.mode = m.mode
  BY <1>2 DEF Fits, PackBusy
<1>5. Fits(n)  BY <1>1, <1>2, <1>4 DEF Fits
<1>6. /\ packFiles' \in [RuleKey -> (RuleKey \X Nat) \cup {None}]
      /\ packFiles'[k] = <<k, m.parsed[k].version>>
      /\ \A f \in RuleKey : f # k => packFiles'[f] = packFiles[f]
  BY <1>1, <1>3 DEF PackInv, PackTyped
<1>7. OwnFiles'  BY <1>6 DEF PackInv, OwnFiles
<1>8. n.alone => OnCourse(n)'
  <2> SUFFICES ASSUME n.alone  PROVE OnCourse(n)'
    OBVIOUS
  <2>1. OnCourse(m)  BY <1>1, <1>4 DEF PackInv, Ahead
  <2>2. ASSUME NEW f \in n.rows  PROVE FileCopied(n, f)'
    <3>1. f \in RuleKey /\ packFiles[f] = <<f, n.parsed[f].version>>
      BY <1>4, <2>1 DEF OnCourse, FileCopied, PackBusy
    <3>2. packFiles'[f] = <<f, n.parsed[f].version>>  BY <1>4, <1>6, <3>1
    <3> QED  BY <3>2 DEF FileCopied
  <2> QED  BY <1>1, <1>4, <1>6, <2>1, <2>2 DEF OnCourse, FileCopied
<1> QED  BY <1>1, <1>4, <1>5, <1>6, <1>7, <1>8, GoesOn

LEMMA WriteRowKeeps ==
    ASSUME PackInv, NEW s \in PackSyncer, Copying!WriteRow(s)  PROVE PackInv'
<1> PICK m : m = packSync[s]  OBVIOUS
<1> PICK n : n = [m EXCEPT !.pc = "write", !.key = None, !.todo = @ \ {m.key},
                           !.rows = @ \cup {m.key}]
  OBVIOUS
<1>1. /\ s \in Copying!Running /\ m.pc = "row" /\ packSync' = [packSync EXCEPT ![s] = n]
      /\ UNCHANGED <<release, packFiles, tracked>>
  BY DEF Copying!WriteRow, Copying!At
<1>2. Fits(m) /\ m.key \in m.todo  BY <1>1 DEF PackInv, Planned, Fits
<1>3. /\ n \in PackBusy /\ n.pc = "write" /\ n.alone = m.alone
      /\ n.parsed = m.parsed /\ n.existing = m.existing /\ n.todo = m.todo \ {m.key}
      /\ n.rows = m.rows \cup {m.key} /\ n.mode = m.mode
  BY <1>2 DEF Fits, PackBusy
<1>4. Fits(n)  BY <1>2, <1>3 DEF Fits
<1>5. n.alone => OnCourse(n)'
  <2> SUFFICES ASSUME n.alone  PROVE OnCourse(n)'
    OBVIOUS
  <2>1. OnCourse(m)  BY <1>1, <1>3 DEF PackInv, Ahead
  <2>2. n.rows \cup n.todo = m.rows \cup m.todo  BY <1>2, <1>3
  <2>3. \A f \in n.rows : FileCopied(n, f)'
    BY <1>1, <1>3, <2>1 DEF OnCourse, FileCopied
  <2> QED  BY <1>1, <1>3, <2>1, <2>2, <2>3 DEF OnCourse
<1>6. packFiles' \in [RuleKey -> (RuleKey \X Nat) \cup {None}] /\ OwnFiles'
  BY <1>1 DEF PackInv, PackTyped, OwnFiles
<1> QED  BY <1>1, <1>3, <1>4, <1>5, <1>6, GoesOn

LEMMA PruneKeeps ==
    ASSUME PathIsKey, Copying!RulePackBounds, PackInv, NEW s \in PackSyncer, Copying!Prune(s)
    PROVE  PackInv'
<1> PICK m : m = packSync[s]  OBVIOUS
<1> PICK n : n = [m EXCEPT !.pc = "commit"]  OBVIOUS
<1>1. /\ s \in Copying!Running /\ m.pc = "write" /\ m.todo = {}
      /\ packFiles' = [f \in RuleKey |-> IF f \in Gone(m) THEN None ELSE packFiles[f]]
      /\ packSync' = [packSync EXCEPT ![s] = n] /\ UNCHANGED <<release, tracked>>
  BY DEF Copying!Prune, Copying!Remove, Copying!Named, Copying!At, Copying!Stale, Gone,
         Copying!RulePackBounds
<1>2. Fits(m)  BY <1>1 DEF PackInv, Planned
<1>3. /\ n \in PackBusy /\ n.pc = "commit" /\ n.alone = m.alone
      /\ n.parsed = m.parsed /\ n.existing = m.existing /\ n.todo = m.todo
      /\ n.rows = m.rows /\ n.mode = m.mode
  BY <1>2 DEF Fits, PackBusy
<1>4. Fits(n)  BY <1>1, <1>2, <1>3 DEF Fits
<1>5. /\ packFiles' \in [RuleKey -> (RuleKey \X Nat) \cup {None}]
      /\ OwnFiles'
  BY <1>1 DEF PackInv, PackTyped, OwnFiles
<1>6. n.alone => OnCourse(n)'
  <2> SUFFICES ASSUME n.alone  PROVE OnCourse(n)'
    OBVIOUS
  <2>1. OnCourse(m)  BY <1>1, <1>3 DEF PackInv, Ahead
  <2>2. Gone(n) = Gone(m) /\ Gone(m) \subseteq RuleKey /\ n.rows \cap Gone(m) = {}
    BY <1>2, <1>3 DEF Gone, Fits, Copying!Keys
  <2>3. \A f \in n.rows : FileCopied(n, f)'
    BY <1>1, <1>2, <1>3, <2>1, <2>2 DEF OnCourse, FileCopied, Fits, Copying!Keys
  <2> QED  BY <1>1, <1>3, <2>1, <2>2, <2>3 DEF OnCourse
<1> QED  BY <1>1, <1>3, <1>4, <1>5, <1>6, GoesOn

\* What a full sync leaves behind, by itself, is what it has downloaded.
LEMMA CommitMirrors ==
    ASSUME PackInv, NEW s \in PackSyncer, Copying!Commit(s), packSync[s].mode = "all",
           packSync[s].alone
    PROVE  tracked' = packSync[s].parsed
<1> DEFINE m == packSync[s]
<1>1. s \in Copying!Running /\ m.pc = "commit"  BY DEF Copying!Commit, Copying!At
<1>2. Fits(m) /\ OnCourse(m)  BY <1>1 DEF PackInv, Planned, Ahead
<1>3. m.rows = Copying!Keys(m.parsed) /\ m.existing = tracked
  BY <1>1, <1>2 DEF Fits, OnCourse
<1>4. m.parsed \in [RuleKey -> PackRule \cup {None}] /\ tracked \in [RuleKey -> PackRule \cup {None}]
  BY <1>2 DEF Fits, PackBusy, PackTable, PackInv, PackTyped
<1>5. tracked' = [k \in RuleKey |-> CASE k \in m.rows -> m.parsed[k]
                                 [] k \in Copying!Stale(s) -> None
                                 [] OTHER -> tracked[k]]
  BY DEF Copying!Commit
<1>6. /\ \A k \in RuleKey : k \notin m.rows => m.parsed[k] = None
      /\ Copying!Stale(s) \cap m.rows = {}
  BY <1>3 DEF Copying!Keys, Copying!Stale
<1>7. \A k \in RuleKey : k \notin m.rows /\ k \notin Copying!Stale(s) => tracked[k] = None
  BY <1>3 DEF Copying!Keys, Copying!Stale
<1>8. \A k \in RuleKey : tracked'[k] = m.parsed[k]  BY <1>5, <1>6, <1>7
<1> QED  BY <1>4, <1>5, <1>8

LEMMA CommitKeeps ==
    ASSUME PackInv, NEW s \in PackSyncer, Copying!Commit(s)  PROVE PackInv'
<1> DEFINE m == packSync[s]
<1>1. /\ s \in Copying!Running
      /\ packSync' = [packSync EXCEPT ![s] = Copying!Idle] /\ UNCHANGED <<release, packFiles>>
      /\ tracked' = [k \in RuleKey |-> CASE k \in m.rows -> m.parsed[k]
                                     [] k \in Copying!Stale(s) -> None
                                     [] OTHER -> tracked[k]]
  BY DEF Copying!Commit, Copying!At
<1>2. Fits(m)  BY <1>1 DEF PackInv, Planned
<1>3. /\ m.parsed \in PackTable /\ InPlace(m.parsed)
      /\ tracked \in PackTable /\ InPlace(tracked)
  BY <1>2 DEF Fits, PackBusy, PackInv, PackTyped
<1>4. \A k \in RuleKey : tracked'[k] \in {m.parsed[k], None, tracked[k]}
  BY <1>1
<1>5. tracked' \in PackTable /\ InPlace(tracked')
  BY <1>1, <1>3, <1>4 DEF PackTable, InPlace, Copying!Keys
<1>6. packFiles' \in [RuleKey -> (RuleKey \X Nat) \cup {None}] /\ OwnFiles'
  BY <1>1 DEF PackInv, PackTyped, OwnFiles
<1> QED  BY <1>1, <1>5, <1>6, Ends

LEMMA DeathKeeps ==
    ASSUME PathIsKey, Copying!RulePackBounds, PackInv, NEW s \in PackSyncer,
           \/ Copying!Dies(s) \/ Copying!PruneDies(s)
           \/ \E k \in RuleKey : Copying!Tear(s, k)
    PROVE  PackInv'
<1>1. /\ s \in Copying!Running
      /\ packSync' = [packSync EXCEPT ![s] = Copying!Idle] /\ UNCHANGED <<release, tracked>>
  BY DEF Copying!Dies, Copying!PruneDies, Copying!Tear, Copying!At
<1>2. tracked' \in PackTable /\ InPlace(tracked')
  BY <1>1 DEF PackInv, PackTyped
<1>3. packFiles' \in [RuleKey -> (RuleKey \X Nat) \cup {None}] /\ OwnFiles'
  <2>1. CASE Copying!Dies(s)
    BY <2>1 DEF Copying!Dies, PackInv, PackTyped, OwnFiles
  <2>2. CASE Copying!PruneDies(s)
    <3>1. PICK files : packFiles' = [f \in RuleKey |-> IF f \in files THEN None ELSE packFiles[f]]
      BY <2>2 DEF Copying!PruneDies, Copying!Remove, Copying!RulePackBounds
    <3> QED  BY <3>1 DEF PackInv, PackTyped, OwnFiles
  <2>3. ASSUME NEW k \in RuleKey, Copying!Tear(s, k)
        PROVE  packFiles' \in [RuleKey -> (RuleKey \X Nat) \cup {None}] /\ OwnFiles'
    <3>1. Fits(packSync[s]) /\ k \in packSync[s].todo
      BY <1>1, <2>3 DEF PackInv, Planned, Copying!Tear
    <3>2. packSync[s].parsed[k].file = k
      BY <3>1 DEF Fits, InPlace
    <3>3. packFiles' = [packFiles EXCEPT ![k] = <<k, 0>>]
      BY <2>3, <3>2 DEF Copying!Tear, Copying!Torn
    <3> QED  BY <3>3 DEF PackInv, PackTyped, OwnFiles
  <2> QED  BY <2>1, <2>2, <2>3
<1> QED  BY <1>1, <1>2, <1>3, Ends

LEMMA PackStepKeeps ==
    ASSUME Copying!RulePackBounds, PathIsKey, PackInv, [Copying!Next]_(Copying!vars)
    PROVE  PackInv'
<1>1. CASE UNCHANGED Copying!vars
  <2>1. Copying!Running' = Copying!Running  BY <1>1 DEF Copying!vars, Copying!Running
  <2> QED
    BY <1>1, <2>1 DEF Copying!vars, PackInv, PackTyped, OwnFiles, Planned, Ahead, OnCourse, FileCopied
<1>2. CASE \E k \in RuleKey, rule \in Copying!Rule \cup {None} : Copying!Publish(k, rule)
  BY <1>2, PublishKeeps
<1>3. CASE \E s \in PackSyncer : \E mode \in Copying!Mode : Copying!Fetch(s, mode)
  BY <1>3, FetchKeeps
<1>4. CASE \E s \in PackSyncer : \E k \in RuleKey : Copying!WriteFile(s, k)
  BY <1>4, WriteFileKeeps
<1>5. CASE \E s \in PackSyncer : Copying!WriteRow(s) \/ Copying!Prune(s) \/ Copying!Commit(s)
  BY <1>5, WriteRowKeeps, PruneKeeps, CommitKeeps
<1>6. CASE \E s \in PackSyncer : \/ Copying!Dies(s) \/ Copying!PruneDies(s)
                              \/ \E k \in RuleKey : Copying!Tear(s, k)
  BY <1>6, DeathKeeps
<1> QED  BY <1>1, <1>2, <1>3, <1>4, <1>5, <1>6 DEF Copying!Next

\* "'all': full replace": where a rule is known by its path, a full sync that runs by itself
\* ends with every rule of the repository in its file, as the table says, and without the
\* files of the rules the table had and the repository no longer has, whatever earlier syncs
\* left half done or overwrote.  A file of neither is not spoken of.
THEOREM FullSyncHeals ==
    ASSUME Copying!RulePackBounds, PathIsKey  PROVE Copying!Spec => Copying!AllHeals
<1>1. Copying!Init => PackInv  BY PackInitially
<1>2. PackInv /\ [Copying!Next]_(Copying!vars) => PackInv'  BY PackStepKeeps
<1>3. ASSUME PackInv, NEW s \in PackSyncer, Copying!Commit(s), packSync[s].mode = "all",
             packSync[s].alone
      PROVE  /\ tracked' = packSync[s].parsed
             /\ \A k \in Copying!Keys(tracked') :
                  packFiles'[tracked'[k].file] = <<k, tracked'[k].version>>
             /\ \A k \in Copying!Stale(s) : \A f \in RuleFile :
                  packFiles'[f] # None => packFiles'[f][1] # k
  <2> DEFINE m == packSync[s]
  <2>1. tracked' = m.parsed  BY <1>3, CommitMirrors
  <2>2. /\ Fits(m) /\ OnCourse(m) /\ m.pc = "commit" /\ packFiles' = packFiles
    BY <1>3 DEF PackInv, Planned, Ahead, Copying!Commit, Copying!At
  <2>3. Copying!Keys(m.parsed) = m.rows  BY <1>3, <2>2 DEF Fits, OnCourse
  <2>4. \A k \in Copying!Keys(m.parsed) :
           m.parsed[k].file = k /\ packFiles[k] = <<k, m.parsed[k].version>>
    BY <2>2, <2>3 DEF Fits, InPlace, OnCourse, FileCopied
  <2>5. \A k \in Copying!Stale(s) : packFiles[k] = None
    BY <2>2 DEF OnCourse, Gone, Copying!Stale
  <2>6. \A f \in RuleFile : packFiles[f] # None => packFiles[f][1] = f
    BY <1>3 DEF PackInv, OwnFiles, Copying!RulePackBounds
  <2> QED  BY <2>1, <2>2, <2>4, <2>5, <2>6
<1>4. PackInv => [\A s \in PackSyncer :
         Copying!Commit(s) /\ packSync[s].mode = "all" /\ packSync[s].alone =>
            /\ tracked' = packSync[s].parsed
            /\ \A k \in Copying!Keys(tracked') :
                 packFiles'[tracked'[k].file] = <<k, tracked'[k].version>>
            /\ \A k \in Copying!Stale(s) : \A f \in RuleFile :
                 packFiles'[f] # None => packFiles'[f][1] # k]_(Copying!vars)
  BY <1>3
<1> QED  BY <1>1, <1>2, <1>4, PTL DEF Copying!Spec, Copying!AllHeals

-----------------------------------------------------------------------------
(* The vulnerability feeds.  What is lost, a sync that is alone brings, but for *)
(* what is beyond its page; or what is shown is a failure, or of a sync that    *)
(* was not alone.                                                               *)

Edition == SUBSET Entries
CveSyncs ==
    [feed : Updating!Feed \cup {"none"}, at : {"idle", "write", "status"}, got : SUBSET Cve,
     says : [Cve -> Edition], written : SUBSET Cve, outcome : {"none", "success", "error"},
     met : BOOLEAN]

CveTyped ==
    /\ nvd \in [Cve -> Edition] /\ affected \in [Cve -> Edition]
    /\ cveRecords \in [Cve -> {"none", "stub", "rated"}]
    /\ lastWeek \subseteq Cve /\ catalog \subseteq Cve
    /\ kev \subseteq Cve /\ epss \subseteq Cve
    /\ cveRequest \in [CveRequest -> CveSyncs]
    /\ nvdSaid \in [Cve -> SUBSET Edition]

\* What the sources show now they have said.
Published ==
    /\ \A c \in lastWeek : nvd[c] \in nvdSaid[c]
    /\ catalog \in catalogs
    /\ \A c \in Cve : cveRecords[c] = "rated" => nvdSaid[c] # {}

Recorded == {c \in Cve : cveRecords[c] # "none"}

\* The CVEs that are rated without the products of any edition of theirs.
Lost == {c \in Cve : cveRecords[c] = "rated" /\ affected[c] \notin nvdSaid[c]}

\* What is lost of this week a page has left out, as it is full.
Full(got) == Updating!Cardinality(got) = PageSize
LeftOut(got) == \A c \in Lost \cap lastWeek : c \notin got /\ Full(got)

Sound(m) ==
    /\ m.at = "idle" <=> m.feed = "none"
    /\ m.at = "status" => m.outcome \in {"success", "error"}
    /\ m.feed = "nvd" =>
         /\ m.at = "write" => \A c \in m.got : m.says[c] \in nvdSaid[c]
         /\ m.at = "write" /\ ~m.met =>
              \A c \in Lost \cap lastWeek : c \in m.got \/ Full(m.got)
         /\ m.at = "status" /\ m.outcome = "success" /\ ~m.met => LeftOut(m.got)
    /\ m.feed = "kev" =>
         /\ m.at = "write" => m.got \in catalogs
         /\ m.at = "status" /\ m.outcome = "success" /\ ~m.met => kev \in catalogs
    /\ m.feed = "epss" => m.got \cup m.written \subseteq Recorded
Sounds == \A r \in CveRequest : Sound(cveRequest[r])

\* Two syncs of a feed have met.
AllMet ==
    \A q, r \in CveRequest :
        q # r /\ cveRequest[q].feed = cveRequest[r].feed /\ cveRequest[r].feed # "none" =>
            cveRequest[q].met

OnTheWordOf ==
    \A c \in Cve : affected[c] # {} => affected[c] \in nvdSaid[c] /\ cveRecords[c] = "rated"

LossShown == Updating!Doubtful("nvd") \/ LeftOut(nvdPage)

CveStored ==
    Published /\ kev \cup epss \subseteq Recorded /\ OnTheWordOf /\ LossShown /\ Updating!Mirror
CveInv == CveTyped /\ Sounds /\ AllMet /\ CveStored

LEMMA CveInitially == Updating!Init => CveInv
<1> SUFFICES ASSUME Updating!Init  PROVE CveInv
  OBVIOUS
<1> USE DEF Updating!Init
<1>1. CveTyped
  BY DEF CveTyped, Edition, CveSyncs, Updating!Idle, Updating!Feed
<1>2. Sounds  BY DEF Sounds, Sound, Updating!Idle
<1>3. AllMet  BY DEF AllMet, Updating!Idle
<1>4. CveStored
  BY DEF CveStored, Published, OnTheWordOf, LossShown, LeftOut, Lost, Updating!Mirror
<1> QED  BY <1>1, <1>2, <1>3, <1>4 DEF CveInv

\* What a request may rely on survives every step that loses nothing it would have to bring.
LEMMA SoundStays ==
    ASSUME NEW m \in CveSyncs, Sound(m), CveTyped,
           \A c \in Cve : nvdSaid[c] \subseteq nvdSaid'[c], catalogs \subseteq catalogs',
           Recorded \subseteq Recorded',
           m.feed = "nvd" /\ ~m.met => (Lost \cap lastWeek)' \subseteq Lost \cap lastWeek,
           m.feed = "kev" /\ ~m.met => kev' = kev
    PROVE  Sound(m)'
<1>1. m.got \subseteq Cve  BY DEF CveSyncs
<1> QED  BY <1>1 DEF Sound, LeftOut

\* A step of r to n: what the others rely on, r's own feed aside, is not disturbed.
LEMMA OneMoves ==
    ASSUME CveInv, NEW r \in CveRequest, NEW n \in CveSyncs, Sound(n)', CveTyped,
           cveRequest' = [cveRequest EXCEPT ![r] = n],
           (n.feed = cveRequest[r].feed /\ n.met = cveRequest[r].met) \/ n.feed = "none",
           \A c \in Cve : nvdSaid[c] \subseteq nvdSaid'[c], catalogs \subseteq catalogs',
           Recorded \subseteq Recorded',
           cveRequest[r].feed # "nvd" => (Lost \cap lastWeek)' \subseteq Lost \cap lastWeek,
           cveRequest[r].feed # "kev" => kev' = kev
    PROVE  cveRequest' \in [CveRequest -> CveSyncs] /\ Sounds' /\ AllMet'
<1>1. /\ cveRequest' \in [CveRequest -> CveSyncs] /\ cveRequest'[r] = n
      /\ \A q \in CveRequest \ {r} : cveRequest'[q] = cveRequest[q]
  BY DEF CveTyped
<1>2. Sounds'
  <2> SUFFICES ASSUME NEW q \in CveRequest  PROVE Sound(cveRequest[q])'
    BY DEF Sounds
  <2>1. CASE q = r  BY <1>1, <2>1 DEF Sound
  <2>2. CASE q # r
    <3>1. PICK m : m = cveRequest[q]  OBVIOUS
    <3>2. m \in CveSyncs /\ Sound(m)  BY <3>1 DEF CveInv, CveTyped, Sounds
    <3>3. m.feed \in {"nvd", "kev"} /\ ~m.met => m.feed # cveRequest[r].feed
      BY <2>2, <3>1 DEF CveInv, AllMet
    <3>4. Sound(m)'  BY <3>2, <3>3, SoundStays
    <3> QED  BY <1>1, <2>2, <3>1, <3>4 DEF Sound
  <2> QED  BY <2>1, <2>2
<1>3. AllMet'
  BY <1>1 DEF CveInv, AllMet
<1> QED  BY <1>1, <1>2, <1>3

LEMMA CveIdle == Updating!Idle \in CveSyncs /\ Updating!Idle.feed = "none" /\ Sound(Updating!Idle)'
BY DEF Updating!Idle, CveSyncs, Edition, Sound

\* A CVE that is lost was published before, so it is of this week only if it was.
LEMMA SourcesKeep ==
    ASSUME CveInv,
           \/ \E c \in Cve : Updating!Ages(c) \/ \E says \in Edition : Updating!Publish(c, says)
           \/ \E listed \in SUBSET Cve : Updating!List(listed)
    PROVE  CveInv'
<1>1. UNCHANGED <<cveRecords, affected, kev, epss, failingFeeds, muddledFeeds, nvdPage, cveRequest>>
  BY DEF Updating!Ages, Updating!Publish, Updating!List, Updating!New, Updating!stored,
         Updating!shown
<1>2. /\ nvd' \in [Cve -> Edition] /\ nvdSaid' \in [Cve -> SUBSET Edition]
      /\ lastWeek' \subseteq Cve /\ catalog' \subseteq Cve /\ catalog' \in catalogs'
      /\ catalogs \subseteq catalogs' /\ \A c \in Cve : nvdSaid[c] \subseteq nvdSaid'[c]
      /\ \A c \in lastWeek' : nvd'[c] \in nvdSaid'[c]
      /\ \A c \in lastWeek' \ lastWeek : nvdSaid[c] = {}
  <2>1. CASE \E c \in Cve : Updating!Ages(c)
    BY <2>1 DEF Updating!Ages, CveInv, CveTyped, CveStored, Published
  <2>2. ASSUME NEW c \in Cve, NEW says \in Edition, Updating!Publish(c, says)  PROVE <1>2!:
    BY <2>2 DEF Updating!Publish, CveInv, CveTyped, CveStored, Published
  <2>3. CASE \E listed \in SUBSET Cve : Updating!List(listed)
    BY <2>3 DEF Updating!List, CveInv, CveTyped, CveStored, Published
  <2> QED  BY <2>1, <2>2, <2>3
<1>3. (Lost \cap lastWeek)' \subseteq Lost \cap lastWeek
  BY <1>1, <1>2 DEF CveInv, CveTyped, CveStored, Published, Lost
<1>4. CveTyped'  BY <1>1, <1>2 DEF CveInv, CveTyped
<1>5. Recorded' = Recorded  BY <1>1 DEF Recorded
<1>6. Sounds'
  <2> SUFFICES ASSUME NEW r \in CveRequest  PROVE Sound(cveRequest[r])'
    BY DEF Sounds
  <2>1. PICK m : m = cveRequest[r]  OBVIOUS
  <2>2. m \in CveSyncs /\ Sound(m)  BY <2>1 DEF CveInv, CveTyped, Sounds
  <2>3. Sound(m)'  BY <1>1, <1>2, <1>3, <1>5, <2>2, SoundStays DEF CveInv
  <2> QED  BY <1>1, <2>1, <2>3 DEF Sound
<1>7. CveStored'
  <2>1. Published'  BY <1>1, <1>2 DEF CveInv, CveTyped, CveStored, Published
  <2>2. OnTheWordOf'  BY <1>1, <1>2 DEF CveInv, CveStored, OnTheWordOf
  <2>3. LossShown'
    BY <1>1, <1>3 DEF CveInv, CveStored, LossShown, LeftOut, Updating!Doubtful
  <2>4. Updating!Mirror'
    BY <1>1, <1>2 DEF CveInv, CveStored, Updating!Mirror, Updating!Doubtful
  <2> QED  BY <1>1, <1>5, <2>1, <2>2, <2>3, <2>4 DEF CveInv, CveStored
<1>8. AllMet'  BY <1>1 DEF CveInv, AllMet
<1> QED  BY <1>4, <1>6, <1>7, <1>8 DEF CveInv

\* Steps that change no table: what is stored follows from what the statuses show.
LEMMA TablesKept ==
    ASSUME CveInv, UNCHANGED <<Updating!source, Updating!stored>>,
           UNCHANGED Updating!shown \/ (LossShown' /\ Updating!Mirror')
    PROVE  /\ CveStored' /\ Lost' = Lost /\ Recorded' = Recorded /\ UNCHANGED <<lastWeek, kev>>
           /\ UNCHANGED <<nvdSaid, catalogs>>
           /\ cveRequest' \in [CveRequest -> CveSyncs] => CveTyped'
<1> USE DEF Updating!source, Updating!stored
<1>1. Lost' = Lost /\ Recorded' = Recorded  BY DEF Lost, Recorded
<1>2. Published' /\ OnTheWordOf'  BY DEF CveInv, CveStored, Published, OnTheWordOf
<1>3. LossShown' /\ Updating!Mirror'
  BY <1>1 DEF CveInv, CveStored, LossShown, LeftOut, Updating!Mirror, Updating!Doubtful,
              Updating!shown
<1>4. CveStored'  BY <1>1, <1>2, <1>3 DEF CveInv, CveStored
<1> QED  BY <1>1, <1>4 DEF CveInv, CveTyped

\* To meet another sync takes nothing from what a request may rely on.
LEMMA MetStays ==
    ASSUME NEW m \in CveSyncs, Sound(m)
    PROVE  /\ [m EXCEPT !.met = TRUE] \in CveSyncs /\ Sound([m EXCEPT !.met = TRUE])
<1> PICK n : n = [m EXCEPT !.met = TRUE]  OBVIOUS
<1>1. /\ n \in CveSyncs /\ n.met /\ n.feed = m.feed /\ n.at = m.at /\ n.got = m.got
      /\ n.says = m.says /\ n.written = m.written /\ n.outcome = m.outcome
  BY DEF CveSyncs
<1>2. Sound(n)  BY <1>1 DEF Sound
<1> QED  BY <1>1, <1>2

\* What is downloaded of a feed, as it is now.
LEMMA DownloadIsSound ==
    ASSUME CveInv, NEW feed \in Updating!Feed, NEW got \in Updating!Downloads(feed)
    PROVE  /\ got \subseteq Cve
           /\ feed = "nvd" => /\ got \subseteq lastWeek
                              /\ \A c \in lastWeek : c \in got \/ Full(got)
           /\ feed = "kev" => got = catalog
           /\ feed = "epss" => got = Recorded
<1>1. CASE feed = "nvd"
  <2>1. got \in Updating!Pages  BY <1>1 DEF Updating!Downloads
  <2>2. got \subseteq lastWeek /\ lastWeek \subseteq Cve
    BY <2>1 DEF Updating!Pages, CveInv, CveTyped
  <2>3. got = lastWeek \/ Full(got)  BY <2>1 DEF Updating!Pages, Full
  <2> QED  BY <1>1, <2>2, <2>3
<1>2. CASE feed = "kev"  BY <1>2 DEF Updating!Downloads, CveInv, CveTyped
<1>3. CASE feed = "epss"  BY <1>3 DEF Updating!Downloads, CveInv, CveTyped, Recorded
<1> QED  BY <1>1, <1>2, <1>3 DEF Updating!Feed

LEMMA FetchCveKeeps ==
    ASSUME CveInv, NEW r \in CveRequest, NEW feed \in Updating!Feed, Updating!Fetch(r, feed)
    PROVE  CveInv'
<1>0. feed \in {"nvd", "kev", "epss"}  BY DEF Updating!Feed
<1>1. PICK got \in Updating!Downloads(feed) :
        LET empty  == feed # "nvd" /\ got = {}
            beside == {q \in CveRequest : cveRequest[q].feed = feed}
            begun  == [feed |-> feed, at |-> IF empty THEN "status" ELSE "write", got |-> got,
                       says |-> [c \in Cve |-> IF feed = "nvd" /\ c \in got THEN nvd[c] ELSE {}],
                       written |-> {},
                       outcome |-> IF ~empty THEN "none"
                                   ELSE IF feed = "kev" THEN "error" ELSE "success",
                       met |-> beside # {}]
        IN cveRequest' = [q \in CveRequest |->
                             IF q = r THEN begun
                             ELSE IF q \in beside THEN [cveRequest[q] EXCEPT !.met = TRUE]
                             ELSE cveRequest[q]]
  BY DEF Updating!Fetch
<1>2. /\ UNCHANGED <<Updating!source, Updating!stored, Updating!shown>>
      /\ cveRequest[r].feed = "none"
  BY DEF Updating!Fetch, CveInv, Sounds, Sound
<1>3. /\ CveStored' /\ Lost' = Lost /\ Recorded' = Recorded
      /\ UNCHANGED <<lastWeek, kev, nvdSaid, catalogs>>
      /\ cveRequest' \in [CveRequest -> CveSyncs] => CveTyped'
  BY <1>2, TablesKept
<1>4. /\ got \subseteq Cve
      /\ feed = "nvd" => /\ got \subseteq lastWeek
                         /\ \A c \in lastWeek : c \in got \/ Full(got)
      /\ feed = "kev" => got = catalog
      /\ feed = "epss" => got = Recorded
  BY DownloadIsSound
<1>5. PICK n : /\ n = cveRequest'[r]
               /\ n.feed = feed /\ n.got = got /\ n.written = {}
               /\ n.met <=> \E q \in CveRequest : cveRequest[q].feed = feed
               /\ n.says = [c \in Cve |-> IF feed = "nvd" /\ c \in got THEN nvd[c] ELSE {}]
               /\ n.at = IF feed # "nvd" /\ got = {} THEN "status" ELSE "write"
               /\ n.outcome = IF n.at = "write" THEN "none"
                              ELSE IF feed = "kev" THEN "error" ELSE "success"
               /\ n \in CveSyncs
  <2>1. PICK m : m = cveRequest'[r]  OBVIOUS
  <2>2. /\ m.feed = feed /\ m.got = got /\ m.written = {}
        /\ m.met <=> \E q \in CveRequest : cveRequest[q].feed = feed
        /\ m.says = [c \in Cve |-> IF feed = "nvd" /\ c \in got THEN nvd[c] ELSE {}]
        /\ m.at = IF feed # "nvd" /\ got = {} THEN "status" ELSE "write"
        /\ m.outcome = IF m.at = "write" THEN "none"
                       ELSE IF feed = "kev" THEN "error" ELSE "success"
    BY <1>1, <2>1
  <2>3. m.says \in [Cve -> Edition]  BY <2>2 DEF Edition, CveInv, CveTyped
  <2>4. m \in CveSyncs
    BY <1>0, <1>1, <1>4, <2>1, <2>3 DEF CveSyncs, Updating!Feed
  <2> QED  BY <2>1, <2>2, <2>4
<1>6. Sound(n)'
  <2>1. n.at # "idle" /\ n.feed # "none"  BY <1>0, <1>5
  <2>2. CASE feed = "nvd"
    BY <1>3, <1>4, <1>5, <2>1, <2>2 DEF Sound, CveInv, CveTyped, CveStored, Published
  <2>3. CASE feed = "kev"
    BY <1>3, <1>4, <1>5, <2>1, <2>3 DEF Sound, CveInv, CveStored, Published
  <2>4. CASE feed = "epss"
    BY <1>3, <1>4, <1>5, <2>1, <2>4 DEF Sound
  <2> QED  BY <1>0, <2>2, <2>3, <2>4
<1>7. ASSUME NEW q \in CveRequest \ {r}
      PROVE  /\ cveRequest'[q] \in CveSyncs /\ Sound(cveRequest'[q])
             /\ cveRequest'[q].feed = cveRequest[q].feed
             /\ cveRequest'[q].met <=> cveRequest[q].met \/ cveRequest[q].feed = feed
  <2>1. PICK m : m = cveRequest[q]  OBVIOUS
  <2>2. m \in CveSyncs /\ Sound(m)  BY <2>1 DEF CveInv, CveTyped, Sounds
  <2>3. CASE m.feed = feed
    <3>1. cveRequest'[q] = [m EXCEPT !.met = TRUE]  BY <1>1, <2>1, <2>3
    <3>2. [m EXCEPT !.met = TRUE].feed = m.feed /\ [m EXCEPT !.met = TRUE].met
      BY <2>2 DEF CveSyncs
    <3> QED  BY <2>1, <2>2, <2>3, <3>1, <3>2, MetStays
  <2>4. CASE m.feed # feed
    <3>1. cveRequest'[q] = m  BY <1>1, <2>1, <2>4
    <3> QED  BY <2>1, <2>2, <2>4, <3>1
  <2> QED  BY <2>3, <2>4
<1>8. cveRequest' \in [CveRequest -> CveSyncs]
  <2>1. \A q \in CveRequest : cveRequest'[q] \in CveSyncs  BY <1>5, <1>7
  <2>2. cveRequest' = [q \in CveRequest |-> cveRequest'[q]]  BY <1>1
  <2> QED  BY <2>1, <2>2
<1>9. Sounds'
  <2> SUFFICES ASSUME NEW q \in CveRequest  PROVE Sound(cveRequest[q])'
    BY DEF Sounds
  <2>1. CASE q = r  BY <1>5, <1>6, <2>1 DEF Sound
  <2>2. CASE q # r
    <3>1. PICK m : m = cveRequest'[q]  OBVIOUS
    <3>2. m \in CveSyncs /\ Sound(m)  BY <1>7, <2>2, <3>1
    <3>3. Sound(m)'  BY <1>3, <3>2, SoundStays DEF CveInv
    <3> QED  BY <3>1, <3>3 DEF Sound
  <2> QED  BY <2>1, <2>2
<1>10. AllMet'
  <2> SUFFICES ASSUME NEW p \in CveRequest, NEW q \in CveRequest, p # q,
                      cveRequest'[p].feed = cveRequest'[q].feed, cveRequest'[q].feed # "none"
               PROVE  cveRequest'[p].met
    BY DEF AllMet
  <2>1. CASE p = r  BY <1>5, <1>7, <2>1
  <2>2. CASE q = r  BY <1>5, <1>7, <2>2
  <2>3. CASE p # r /\ q # r  BY <1>7, <2>3 DEF CveInv, AllMet
  <2> QED  BY <2>1, <2>2, <2>3
<1> QED  BY <1>3, <1>8, <1>9, <1>10 DEF CveInv

\* What NVD's sync writes is what an edition says; what it spoils, it spoils of its own.
LEMMA UpsertedTells ==
    ASSUME CveInv, NEW r \in CveRequest, cveRequest[r].feed = "nvd", cveRequest[r].at = "write",
           NEW done \in SUBSET cveRequest[r].got, NEW half \in SUBSET cveRequest[r].got,
           Updating!Upserted(r, done, half), UNCHANGED Updating!source
    PROVE  /\ cveRecords' \in [Cve -> {"none", "stub", "rated"}] /\ affected' \in [Cve -> Edition]
           /\ OnTheWordOf' /\ Published'
           /\ Recorded \subseteq Recorded' /\ Lost' \subseteq (Lost \ done) \cup half
           /\ UNCHANGED <<kev, epss>>
<1> USE DEF Updating!Upserted, Updating!source
<1>1. PICK m : m = cveRequest[r]  OBVIOUS
<1>2. m \in CveSyncs /\ Sound(m) /\ m.feed = "nvd" /\ m.at = "write"
  BY <1>1 DEF CveInv, CveTyped, Sounds
<1>3. done \subseteq Cve /\ half \subseteq Cve /\ m.says \in [Cve -> Edition]
  BY <1>1, <1>2 DEF CveSyncs
<1>4. /\ cveRecords' = [c \in Cve |-> IF c \in done \cup half THEN "rated" ELSE cveRecords[c]]
      /\ affected' = [c \in Cve |-> IF c \in half THEN {}
                                    ELSE IF c \in done THEN m.says[c] ELSE affected[c]]
  BY <1>1
<1>5. /\ cveRecords' \in [Cve -> {"none", "stub", "rated"}] /\ affected' \in [Cve -> Edition]
  BY <1>3, <1>4 DEF CveInv, CveTyped, Edition
<1>6. \A c \in done \cup half : m.says[c] \in nvdSaid[c]
  BY <1>1, <1>2 DEF Sound
<1>7. OnTheWordOf'  BY <1>4, <1>6 DEF CveInv, CveStored, OnTheWordOf
<1>8. Published'  BY <1>4, <1>6 DEF CveInv, CveStored, Published
<1>9. Recorded \subseteq Recorded'  BY <1>4 DEF Recorded
<1>10. Lost' \subseteq (Lost \ done) \cup half  BY <1>4, <1>6 DEF Lost
<1> QED  BY <1>5, <1>7, <1>8, <1>9, <1>10

LEMMA MirroredTells ==
    ASSUME CveInv, NEW done \in SUBSET Cve, Updating!Mirrored(done), UNCHANGED Updating!source
    PROVE  /\ cveRecords' \in [Cve -> {"none", "stub", "rated"}] /\ OnTheWordOf' /\ Published'
           /\ Recorded \cup done \subseteq Recorded' /\ Lost' = Lost /\ kev' = done
           /\ UNCHANGED <<affected, epss>>
<1> USE DEF Updating!Mirrored, Updating!Stubs, Updating!source
<1>1. cveRecords' \in [Cve -> {"none", "stub", "rated"}]  BY DEF CveInv, CveTyped
<1>2. \A c \in Cve : /\ cveRecords'[c] = "rated" <=> cveRecords[c] = "rated"
                     /\ cveRecords'[c] = "none" <=> cveRecords[c] = "none" /\ c \notin done
  OBVIOUS
<1>3. OnTheWordOf' /\ Published'
  BY <1>2 DEF CveInv, CveStored, OnTheWordOf, Published
<1>4. Recorded \cup done \subseteq Recorded' /\ Lost' = Lost  BY <1>2 DEF Recorded, Lost
<1> QED  BY <1>1, <1>3, <1>4

\* Where a sync is when only its status is left to write.
LEMMA EndsIn ==
    ASSUME NEW r \in CveRequest, NEW outcome \in {"success", "error"},
           cveRequest[r] \in CveSyncs, Updating!Ends(r, outcome)
    PROVE  \E n \in CveSyncs :
              /\ cveRequest' = [cveRequest EXCEPT ![r] = n]
              /\ n.at = "status" /\ n.outcome = outcome /\ n.feed = cveRequest[r].feed
              /\ n.met = cveRequest[r].met /\ n.written = {}
              /\ n.got = IF n.feed = "nvd" THEN cveRequest[r].got ELSE {}
<1> PICK m : m = cveRequest[r]  OBVIOUS
<1> DEFINE n == [Updating!Idle EXCEPT !.feed = m.feed, !.at = "status", !.outcome = outcome,
                                      !.met = m.met,
                                      !.got = IF m.feed = "nvd" THEN m.got ELSE {}]
<1>1. cveRequest' = [cveRequest EXCEPT ![r] = n]  BY DEF Updating!Ends
<1>2. Updating!Idle \in CveSyncs /\ Updating!Idle.written = {}
  BY DEF CveSyncs, Edition, Updating!Idle
<1>3. n \in CveSyncs /\ n.written = {}  BY <1>2 DEF CveSyncs
<1>4. /\ n.at = "status" /\ n.outcome = outcome /\ n.feed = m.feed /\ n.met = m.met
      /\ n.got = IF m.feed = "nvd" THEN m.got ELSE {}
  BY <1>2 DEF CveSyncs
<1> QED  BY <1>1, <1>3, <1>4

LEMMA WriteCveKeeps ==
    ASSUME CveInv, NEW r \in CveRequest, Updating!Write(r)  PROVE CveInv'
<1> PICK m : m = cveRequest[r]  OBVIOUS
<1>2. m \in CveSyncs /\ Sound(m) /\ m.got \subseteq Cve
  BY DEF CveInv, CveTyped, Sounds, CveSyncs
<1>4. PICK n \in CveSyncs :
        /\ cveRequest' = [cveRequest EXCEPT ![r] = n]
        /\ n.at = "status" /\ n.outcome = "success" /\ n.feed = m.feed
        /\ n.met = m.met /\ n.written = {} /\ n.got = IF n.feed = "nvd" THEN m.got ELSE {}
  BY <1>2, EndsIn DEF Updating!Write
<1>1. /\ m.at = "write" /\ cveRequest' = [cveRequest EXCEPT ![r] = n]
      /\ UNCHANGED <<Updating!source, failingFeeds, muddledFeeds, nvdPage>>
      /\ UNCHANGED <<nvd, lastWeek, catalog, nvdSaid, catalogs>>
  BY <1>4 DEF Updating!Write, Updating!source, Updating!shown
<1>3. m.feed \in {"nvd", "kev"}
  BY <1>1, <1>2 DEF CveSyncs, Sound, Updating!Feed, Updating!Write
<1>5. CASE m.feed = "nvd"
  <2>1. Updating!Upserted(r, m.got, {})  BY <1>5 DEF Updating!Write
  <2>2. /\ cveRecords' \in [Cve -> {"none", "stub", "rated"}] /\ affected' \in [Cve -> Edition]
        /\ OnTheWordOf' /\ Published' /\ UNCHANGED <<kev, epss>>
        /\ Recorded \subseteq Recorded' /\ Lost' \subseteq Lost \ m.got
    <3> PICK done, half : done = m.got /\ half = {}  OBVIOUS
    <3>1. half \in SUBSET cveRequest[r].got /\ done \in SUBSET cveRequest[r].got  OBVIOUS
    <3>2. /\ Updating!Upserted(r, done, half) /\ cveRequest[r].feed = "nvd"
          /\ cveRequest[r].at = "write"
      BY <1>1, <1>5, <2>1
    <3>3. /\ cveRecords' \in [Cve -> {"none", "stub", "rated"}] /\ affected' \in [Cve -> Edition]
          /\ OnTheWordOf' /\ Published' /\ UNCHANGED <<kev, epss>>
          /\ Recorded \subseteq Recorded' /\ Lost' \subseteq (Lost \ done) \cup half
      BY <1>1, <3>1, <3>2, UpsertedTells
    <3> QED  BY <3>3
  <2>3. ~m.met => LeftOut(m.got)'  BY <1>1, <1>2, <1>5, <2>2 DEF Sound, LeftOut
  <2>9. (Lost \cap lastWeek)' \subseteq Lost \cap lastWeek  BY <1>1, <2>2
  <2>4. Sound(n)'  BY <1>1, <1>2, <1>4, <1>5, <2>3 DEF Sound, LeftOut
  <2>5. cveRequest' \in [CveRequest -> CveSyncs] /\ Sounds' /\ AllMet'
    BY <1>1, <1>4, <1>5, <2>2, <2>4, OneMoves DEF CveInv
  <2>6. CveStored'
    BY <1>1, <2>2, <2>9 DEF CveInv, CveStored, LossShown, LeftOut, Updating!Mirror,
       Updating!Doubtful
  <2>7. CveTyped'  BY <1>1, <2>2, <2>5 DEF CveInv, CveTyped
  <2> QED  BY <2>5, <2>6, <2>7 DEF CveInv
<1>6. CASE m.feed = "kev"
  <2>1. Updating!Mirrored(m.got)  BY <1>6 DEF Updating!Write
  <2>2. /\ cveRecords' \in [Cve -> {"none", "stub", "rated"}] /\ OnTheWordOf' /\ Published'
        /\ Recorded \cup m.got \subseteq Recorded' /\ Lost' = Lost /\ kev' = m.got
        /\ UNCHANGED <<affected, epss>>
    <3> PICK done \in SUBSET Cve : done = m.got  BY <1>2
    <3> QED  BY <1>1, <2>1, MirroredTells
  <2>3. kev' \in catalogs  BY <1>1, <1>2, <1>6, <2>2 DEF Sound
  <2>4. Sound(n)'  BY <1>1, <1>2, <1>4, <1>6, <2>2, <2>3 DEF Sound
  <2>5. cveRequest' \in [CveRequest -> CveSyncs] /\ Sounds' /\ AllMet'
    BY <1>1, <1>4, <1>6, <2>2, <2>4, OneMoves DEF CveInv
  <2>6. CveStored'
    BY <1>1, <2>2, <2>3 DEF CveInv, CveStored, LossShown, LeftOut, Updating!Mirror,
       Updating!Doubtful
  <2>7. CveTyped'  BY <1>1, <1>2, <2>2, <2>5 DEF CveInv, CveTyped
  <2> QED  BY <2>5, <2>6, <2>7 DEF CveInv
<1> QED  BY <1>3, <1>5, <1>6

LEMMA BatchKeeps ==
    ASSUME CveInv, NEW r \in CveRequest, NEW batch \in SUBSET Cve, NEW rated \in SUBSET Cve,
           Updating!Batch(r, batch, rated)
    PROVE  CveInv'
<1> PICK m : m = cveRequest[r]  OBVIOUS
<1> PICK n : n = [m EXCEPT !.got = @ \ batch, !.written = @ \cup rated]  OBVIOUS
<1>1. /\ m.at = "write" /\ m.feed = "epss" /\ rated \subseteq m.got
      /\ cveRequest' = [cveRequest EXCEPT ![r] = n]
      /\ UNCHANGED <<Updating!source, Updating!stored, Updating!shown>>
  BY DEF Updating!Batch
<1>2. m \in CveSyncs /\ Sound(m)  BY DEF CveInv, CveTyped, Sounds
<1>3. /\ n \in CveSyncs /\ n.at = "write" /\ n.feed = "epss" /\ n.got = m.got \ batch
      /\ n.written = m.written \cup rated /\ n.met = m.met
  BY <1>1, <1>2 DEF CveSyncs
<1>4. /\ CveStored' /\ Lost' = Lost /\ Recorded' = Recorded
      /\ UNCHANGED <<lastWeek, kev, nvdSaid, catalogs>>
      /\ cveRequest' \in [CveRequest -> CveSyncs] => CveTyped'
  BY <1>1, TablesKept
<1>5. Sound(n)'  BY <1>1, <1>2, <1>3, <1>4 DEF Sound
<1>6. cveRequest' \in [CveRequest -> CveSyncs] /\ Sounds' /\ AllMet'
  BY <1>1, <1>3, <1>4, <1>5, OneMoves DEF CveInv
<1> QED  BY <1>4, <1>6 DEF CveInv

LEMMA ScoredTells ==
    ASSUME CveInv, NEW r \in CveRequest, cveRequest[r].feed = "epss", Updating!Scored(r),
           UNCHANGED Updating!source
    PROVE  /\ epss' \subseteq Cve /\ epss' \subseteq Recorded /\ Recorded' = Recorded /\ Lost' = Lost
           /\ UNCHANGED <<cveRecords, affected, kev>> /\ OnTheWordOf' /\ Published'
<1>1. cveRequest[r] \in CveSyncs /\ Sound(cveRequest[r])  BY DEF CveInv, CveTyped, Sounds
<1>2. /\ epss' = epss \cup cveRequest[r].written /\ UNCHANGED <<cveRecords, affected, kev>>
      /\ UNCHANGED <<nvd, lastWeek, catalog, nvdSaid, catalogs>>
  BY DEF Updating!Scored, Updating!source
<1>3. cveRequest[r].written \subseteq Recorded  BY <1>1 DEF Sound
<1>4. epss' \subseteq Recorded /\ Recorded \subseteq Cve
  BY <1>2, <1>3 DEF CveInv, CveStored, Recorded
<1>5. Recorded' = Recorded /\ Lost' = Lost  BY <1>2 DEF Recorded, Lost
<1>6. OnTheWordOf' /\ Published'
  BY <1>2 DEF CveInv, CveStored, OnTheWordOf, Published
<1> QED  BY <1>2, <1>4, <1>5, <1>6

LEMMA CommitScoresKeeps ==
    ASSUME CveInv, NEW r \in CveRequest, Updating!CommitScores(r)  PROVE CveInv'
<1> PICK m : m = cveRequest[r]  OBVIOUS
<1>2. m \in CveSyncs /\ Sound(m)  BY DEF CveInv, CveTyped, Sounds
<1>3. PICK n \in CveSyncs :
        /\ cveRequest' = [cveRequest EXCEPT ![r] = n]
        /\ n.at = "status" /\ n.outcome = "success" /\ n.feed = m.feed
        /\ n.met = m.met /\ n.written = {} /\ n.got = IF n.feed = "nvd" THEN m.got ELSE {}
  BY <1>2, EndsIn DEF Updating!CommitScores
<1>1. /\ m.at = "write" /\ m.feed = "epss" /\ n.feed = "epss" /\ Updating!Scored(r)
      /\ cveRequest' = [cveRequest EXCEPT ![r] = n]
      /\ UNCHANGED <<Updating!source, failingFeeds, muddledFeeds, nvdPage>>
      /\ UNCHANGED <<nvd, lastWeek, catalog, nvdSaid, catalogs>>
  BY <1>3 DEF Updating!CommitScores, Updating!source, Updating!shown
<1>4. /\ epss' \subseteq Cve /\ epss' \subseteq Recorded /\ Recorded' = Recorded /\ Lost' = Lost
      /\ UNCHANGED <<cveRecords, affected, kev>> /\ OnTheWordOf' /\ Published'
  BY <1>1, ScoredTells
<1>5. Sound(n)'  BY <1>1, <1>2, <1>3, <1>4 DEF Sound
<1>6. cveRequest' \in [CveRequest -> CveSyncs] /\ Sounds' /\ AllMet'
  BY <1>1, <1>3, <1>4, <1>5, OneMoves DEF CveInv
<1>7. CveStored'
  BY <1>1, <1>4 DEF CveInv, CveStored, LossShown, LeftOut, Updating!Mirror,
       Updating!Doubtful
<1>8. CveTyped'  BY <1>1, <1>4, <1>6 DEF CveInv, CveTyped
<1> QED  BY <1>6, <1>7, <1>8 DEF CveInv

LEMMA StatusKeeps ==
    ASSUME CveInv, NEW r \in CveRequest, Updating!Status(r)  PROVE CveInv'
<1> PICK m : m = cveRequest[r]  OBVIOUS
<1>1. /\ m.at = "status" /\ cveRequest' = [cveRequest EXCEPT ![r] = Updating!Idle]
      /\ Updating!Shows(r, m.outcome)
      /\ UNCHANGED <<Updating!source, Updating!stored>>
  BY DEF Updating!Status
<1>2. m \in CveSyncs /\ Sound(m) /\ m.outcome \in {"success", "error"}
  BY <1>1 DEF CveInv, CveTyped, Sounds, Sound
<1>a. /\ failingFeeds' = IF m.outcome = "error" THEN failingFeeds \cup {m.feed}
                         ELSE failingFeeds \ {m.feed}
      /\ muddledFeeds' = IF m.outcome = "success" /\ m.met THEN muddledFeeds \cup {m.feed}
                         ELSE muddledFeeds \ {m.feed}
      /\ nvdPage' = IF m.feed # "nvd" THEN nvdPage
                    ELSE IF m.outcome = "success" /\ ~m.met THEN m.got ELSE {}
  BY <1>1, <1>2 DEF Updating!Shows, Updating!Told
<1>b. Lost' = Lost /\ UNCHANGED <<lastWeek, kev, catalogs>>
  BY <1>1 DEF Lost, Updating!source, Updating!stored
<1>3. LossShown' /\ Updating!Mirror'
  <2>1. CASE m.outcome = "success" /\ ~m.met
    BY <1>1, <1>2, <1>a, <1>b, <2>1
       DEF CveInv, CveStored, Sound, LossShown, LeftOut, Updating!Mirror, Updating!Doubtful
  <2>2. CASE ~(m.outcome = "success" /\ ~m.met)
    BY <1>2, <1>a, <1>b, <2>2
       DEF CveInv, CveStored, LossShown, LeftOut, Updating!Mirror, Updating!Doubtful
  <2> QED  BY <2>1, <2>2
<1>4. /\ CveStored' /\ Lost' = Lost /\ Recorded' = Recorded
      /\ UNCHANGED <<lastWeek, kev, nvdSaid, catalogs>>
      /\ cveRequest' \in [CveRequest -> CveSyncs] => CveTyped'
  BY <1>1, <1>3, TablesKept
<1>5. PICK n : n = Updating!Idle  OBVIOUS
<1>6. n \in CveSyncs /\ n.feed = "none" /\ Sound(n)'
  BY <1>5, CveIdle DEF Sound, Updating!Idle
<1>7. cveRequest' \in [CveRequest -> CveSyncs] /\ Sounds' /\ AllMet'
  BY <1>1, <1>4, <1>5, <1>6, OneMoves DEF CveInv
<1> QED  BY <1>4, <1>7 DEF CveInv

LEMMA GiveUpKeeps ==
    ASSUME CveInv, NEW r \in CveRequest, Updating!GiveUp(r) \/ Updating!Dies(r)  PROVE CveInv'
<1> PICK m : m = cveRequest[r]  OBVIOUS
<1>2. m \in CveSyncs /\ Sound(m)  BY DEF CveInv, CveTyped, Sounds
<1>3. UNCHANGED <<Updating!source, Updating!stored, Updating!shown>>
  BY DEF Updating!GiveUp, Updating!Dies
<1>4. /\ CveStored' /\ Lost' = Lost /\ Recorded' = Recorded
      /\ UNCHANGED <<lastWeek, kev, nvdSaid, catalogs>>
      /\ cveRequest' \in [CveRequest -> CveSyncs] => CveTyped'
  BY <1>3, TablesKept
<1>5. PICK n \in CveSyncs :
        /\ cveRequest' = [cveRequest EXCEPT ![r] = n] /\ Sound(n)'
        /\ (n.feed = m.feed /\ n.met = m.met) \/ n.feed = "none"
  <2>1. CASE Updating!Dies(r)
    <3>1. PICK n : n = Updating!Idle  OBVIOUS
    <3>2. n \in CveSyncs /\ n.feed = "none" /\ Sound(n)'
      BY <3>1, CveIdle DEF Sound, Updating!Idle
    <3> QED  BY <2>1, <3>1, <3>2 DEF Updating!Dies
  <2>2. CASE Updating!GiveUp(r)
    <3>1. PICK n \in CveSyncs :
            /\ cveRequest' = [cveRequest EXCEPT ![r] = n]
            /\ n.at = "status" /\ n.outcome = "error" /\ n.feed = m.feed /\ n.met = m.met
            /\ n.written = {} /\ n.got = IF n.feed = "nvd" THEN m.got ELSE {}
      BY <1>2, <2>2, EndsIn DEF Updating!GiveUp
    <3>2. m.at = "write"  BY <2>2 DEF Updating!GiveUp
    <3>3. Sound(n)'  BY <1>2, <1>4, <3>1, <3>2 DEF Sound
    <3> QED  BY <3>1, <3>3
  <2> QED  BY <2>1, <2>2
<1>6. cveRequest' \in [CveRequest -> CveSyncs] /\ Sounds' /\ AllMet'
  BY <1>4, <1>5, OneMoves DEF CveInv
<1> QED  BY <1>4, <1>6 DEF CveInv

\* A sync that fails half-way: what it has spoiled is shown.
LEMMA RaiseKeeps ==
    ASSUME CveInv, NEW r \in CveRequest, NEW done \in SUBSET Cve, NEW c \in Cve,
           NEW half \in BOOLEAN, Updating!Raise(r, done, c, half)
    PROVE  CveInv'
<1> PICK m : m = cveRequest[r]  OBVIOUS
<1>1. /\ m.at = "write" /\ cveRequest' = [cveRequest EXCEPT ![r] = Updating!Idle]
      /\ failingFeeds' = failingFeeds \cup {m.feed} /\ UNCHANGED Updating!source
      /\ muddledFeeds' = muddledFeeds \ {m.feed}
      /\ nvdPage' = IF m.feed = "nvd" THEN {} ELSE nvdPage
      /\ UNCHANGED <<nvd, lastWeek, catalog, nvdSaid, catalogs>>
      /\ done \subseteq m.got /\ c \in m.got
  BY DEF Updating!Raise, Updating!Shows, Updating!Told, Updating!source
<1>2. m \in CveSyncs /\ Sound(m)  BY DEF CveInv, CveTyped, Sounds
<1>3. m.feed \in {"nvd", "kev", "epss"}
  BY <1>1, <1>2 DEF CveSyncs, Sound, Updating!Feed
<1>4. PICK n : n = Updating!Idle  OBVIOUS
<1>5. n \in CveSyncs /\ n.feed = "none" /\ Sound(n)'
  BY <1>4, CveIdle DEF Sound, Updating!Idle
<1>6. CASE m.feed = "nvd"
  <2>1. PICK spoiled : spoiled = IF half THEN {c} ELSE {}  OBVIOUS
  <2>2. Updating!Upserted(r, done, spoiled)  BY <1>6, <2>1 DEF Updating!Raise
  <2>3. spoiled \in SUBSET cveRequest[r].got /\ done \in SUBSET cveRequest[r].got
    BY <1>1, <2>1
  <2>4. /\ cveRecords' \in [Cve -> {"none", "stub", "rated"}] /\ affected' \in [Cve -> Edition]
        /\ OnTheWordOf' /\ Published' /\ UNCHANGED <<kev, epss>> /\ Recorded \subseteq Recorded'
    BY <1>1, <1>6, <2>2, <2>3, UpsertedTells
  <2>5. cveRequest' \in [CveRequest -> CveSyncs] /\ Sounds' /\ AllMet'
    BY <1>1, <1>4, <1>5, <1>6, <2>4, OneMoves DEF CveInv
  <2>6. CveStored'
    BY <1>1, <1>6, <2>4 DEF CveInv, CveStored, LossShown, LeftOut, Updating!Mirror,
       Updating!Doubtful
  <2>7. CveTyped'  BY <1>1, <2>4, <2>5 DEF CveInv, CveTyped
  <2> QED  BY <2>5, <2>6, <2>7 DEF CveInv
<1>7. CASE m.feed = "kev"
  <2>1. Updating!Mirrored(done)  BY <1>7 DEF Updating!Raise
  <2>2. /\ cveRecords' \in [Cve -> {"none", "stub", "rated"}] /\ OnTheWordOf' /\ Published'
        /\ Recorded \cup done \subseteq Recorded' /\ Lost' = Lost /\ kev' = done
        /\ UNCHANGED <<affected, epss>>
    BY <1>1, <2>1, MirroredTells
  <2>3. cveRequest' \in [CveRequest -> CveSyncs] /\ Sounds' /\ AllMet'
    BY <1>1, <1>4, <1>5, <1>7, <2>2, OneMoves DEF CveInv
  <2>4. CveStored'
    BY <1>1, <1>7, <2>2 DEF CveInv, CveStored, LossShown, LeftOut, Updating!Mirror,
       Updating!Doubtful
  <2>5. CveTyped'  BY <1>1, <2>2, <2>3 DEF CveInv, CveTyped
  <2> QED  BY <2>3, <2>4, <2>5 DEF CveInv
<1>8. CASE m.feed = "epss"
  <2>1. Updating!Scored(r)  BY <1>8 DEF Updating!Raise
  <2>2. /\ epss' \subseteq Cve /\ epss' \subseteq Recorded /\ Recorded' = Recorded /\ Lost' = Lost
        /\ UNCHANGED <<cveRecords, affected, kev>> /\ OnTheWordOf' /\ Published'
    BY <1>1, <1>8, <2>1, ScoredTells
  <2>3. cveRequest' \in [CveRequest -> CveSyncs] /\ Sounds' /\ AllMet'
    BY <1>1, <1>4, <1>5, <1>8, <2>2, OneMoves DEF CveInv
  <2>4. CveStored'
    BY <1>1, <1>8, <2>2 DEF CveInv, CveStored, LossShown, LeftOut, Updating!Mirror,
       Updating!Doubtful
  <2>5. CveTyped'  BY <1>1, <2>2, <2>3 DEF CveInv, CveTyped
  <2> QED  BY <2>3, <2>4, <2>5 DEF CveInv
<1> QED  BY <1>3, <1>6, <1>7, <1>8

LEMMA CveStepKeeps ==
    ASSUME CveInv, [Updating!Next]_(Updating!vars)  PROVE CveInv'
<1>1. CASE UNCHANGED Updating!vars
  <2>1. UNCHANGED <<Updating!source, Updating!stored, Updating!shown, cveRequest>>
    BY <1>1 DEF Updating!vars
  <2>2. /\ CveStored' /\ Lost' = Lost /\ Recorded' = Recorded
        /\ UNCHANGED <<lastWeek, kev, nvdSaid, catalogs>>
        /\ cveRequest' \in [CveRequest -> CveSyncs] => CveTyped'
    BY <2>1, TablesKept
  <2> QED  BY <2>1, <2>2 DEF CveInv, CveTyped, Sounds, Sound, LeftOut, AllMet
<1>2. CASE \/ \E c \in Cve : Updating!Ages(c) \/ \E says \in SUBSET Entries : Updating!Publish(c, says)
           \/ \E listed \in SUBSET Cve : Updating!List(listed)
  BY <1>2, SourcesKeep DEF Edition
<1>3. CASE \E r \in CveRequest : \E feed \in Updating!Feed : Updating!Fetch(r, feed)
  BY <1>3, FetchCveKeeps
<1>4. CASE \E r \in CveRequest : Updating!Write(r) \/ Updating!CommitScores(r) \/ Updating!Status(r)
  BY <1>4, WriteCveKeeps, CommitScoresKeeps, StatusKeeps
<1>5. CASE \E r \in CveRequest : Updating!GiveUp(r) \/ Updating!Dies(r)
  BY <1>5, GiveUpKeeps
<1>6. CASE \E r \in CveRequest : \E batch, rated \in SUBSET Cve : Updating!Batch(r, batch, rated)
  BY <1>6, BatchKeeps
<1>7. CASE \E r \in CveRequest : \E done \in SUBSET Cve, c \in Cve, half \in BOOLEAN :
              Updating!Raise(r, done, c, half)
  BY <1>7, RaiseKeeps
<1> QED  BY <1>1, <1>2, <1>3, <1>4, <1>5, <1>6, <1>7 DEF Updating!Next

\* The comparisons of an entry, one by one, select a range of versions.
LEMMA MatchesIsRange ==
    ASSUME TopVersion \in Nat, NEW w \in Updating!Version, NEW e \in Updating!Entry
    PROVE  Updating!Matches(w, e) <=>
              \/ ~Updating!Ranged(e) /\ (e.flat = 0 \/ e.flat = w)
              \/ /\ Updating!Ranged(e)
                 /\ w \in e.startExc + 1 .. TopVersion /\ w \in e.startInc .. TopVersion
                 /\ w \in 1 .. IF e.endInc = 0 THEN TopVersion ELSE e.endInc
                 /\ w \in 1 .. IF e.endExc = 0 THEN TopVersion ELSE e.endExc - 1
<1>1. /\ e.startInc \in Nat /\ e.startExc \in Nat /\ e.endInc \in Nat /\ e.endExc \in Nat
      /\ e.flat \in Nat /\ w \in Nat /\ w >= 1 /\ w <= TopVersion
  BY DEF Updating!Entry, Updating!Version
<1> QED  BY <1>1 DEF Updating!Matches, Updating!Ranged

LEMMA MatchedFollows ==
    ASSUME CveInv, Updating!CveBounds  PROVE Updating!Matched
<1>1. ASSUME NEW c \in Cve, NEW v \in Updating!Version, c \in Updating!Correlated(v)
      PROVE  \E says \in nvdSaid[c] : \A w \in Updating!Version :
                c \in Updating!Correlated(w) <=> \E e \in says :
                   \/ ~Updating!Ranged(e) /\ (e.flat = 0 \/ e.flat = w)
                   \/ /\ Updating!Ranged(e)
                      /\ w \in e.startExc + 1 .. TopVersion /\ w \in e.startInc .. TopVersion
                      /\ w \in 1 .. IF e.endInc = 0 THEN TopVersion ELSE e.endInc
                      /\ w \in 1 .. IF e.endExc = 0 THEN TopVersion ELSE e.endExc - 1
  <2>1. affected[c] # {}  BY <1>1 DEF Updating!Correlated
  <2>2. affected[c] \in nvdSaid[c] /\ cveRecords[c] = "rated"
    BY <2>1 DEF CveInv, CveStored, OnTheWordOf
  <2>3. affected[c] \subseteq Updating!Entry /\ TopVersion \in Nat
    BY DEF CveInv, CveTyped, Edition, Updating!CveBounds
  <2>4. \A w \in Updating!Version :
           c \in Updating!Correlated(w) <=> \E e \in affected[c] : Updating!Matches(w, e)
    BY <2>2 DEF Updating!Correlated
  <2>5. \A w \in Updating!Version :
           c \in Updating!Correlated(w) <=> \E e \in affected[c] :
              \/ ~Updating!Ranged(e) /\ (e.flat = 0 \/ e.flat = w)
              \/ /\ Updating!Ranged(e)
                 /\ w \in e.startExc + 1 .. TopVersion /\ w \in e.startInc .. TopVersion
                 /\ w \in 1 .. IF e.endInc = 0 THEN TopVersion ELSE e.endInc
                 /\ w \in 1 .. IF e.endExc = 0 THEN TopVersion ELSE e.endExc - 1
    BY <2>3, <2>4, MatchesIsRange
  <2> QED  BY <2>2, <2>5
<1>2. ASSUME NEW c \in Cve, cveRecords[c] = "rated", affected[c] \notin nvdSaid[c]
      PROVE  \/ Updating!Doubtful("nvd") \/ c \notin lastWeek
             \/ c \notin nvdPage /\ Full(nvdPage)
  <2>1. c \in Lost  BY <1>2 DEF Lost
  <2>2. LossShown  BY DEF CveInv, CveStored
  <2> QED  BY <2>1, <2>2 DEF LossShown, LeftOut
<1> QED  BY <1>1, <1>2 DEF Updating!Matched, Full

\* Whatever syncs overlap, fail or die: a vulnerability that is exploited or scored can be
\* browsed, a host is told of one on the word of an edition of it; what was lost shows as a
\* failure, or as a success that was not alone, or is beyond a full page; and the list of
\* exploited ones is a catalog unless its sync is shown as failed, or was not alone.
THEOREM VulnerabilitiesAreTold ==
    ASSUME Updating!CveBounds  PROVE Updating!Spec => []Updating!VulnerabilitiesTold
<1>1. CveInv => Updating!VulnerabilitiesTold
  <2> SUFFICES ASSUME CveInv  PROVE Updating!VulnerabilitiesTold
    OBVIOUS
  <2>1. Updating!Browsable
    BY DEF CveInv, CveTyped, CveStored, OnTheWordOf, Recorded, Updating!Browsable
  <2>2. Updating!Mirror  BY DEF CveInv, CveStored
  <2> QED  BY <2>1, <2>2, MatchedFollows DEF Updating!VulnerabilitiesTold
<1> QED  BY <1>1, CveInitially, CveStepKeeps, PTL DEF Updating!Spec

-----------------------------------------------------------------------------
(* The syncs together: they share no table.                                  *)

\* What a successful sync brought, of indicators and of vulnerabilities, is there.
THEOREM SyncedIntelIsKept ==
    ASSUME SyncBounds  PROVE  SyncsSpec => []IntelKept
<1>1. Feeding!Spec => []Feeding!RenewedIsKept  BY IntelIsKept DEF SyncBounds
<1>2. Updating!Spec => []Updating!VulnerabilitiesTold
  BY VulnerabilitiesAreTold DEF SyncBounds
<1> QED  BY <1>1, <1>2, PTL DEF SyncsSpec, IntelKept

\* A sync of rules that runs by itself mends what others have left, where a rule that is
\* copied is known by its path.
THEOREM SyncedRulesHeal ==
    ASSUME SyncBounds, PathIsKey  PROVE  SyncsSpec => RulesHeal
<1>1. Copying!Spec => Copying!AllHeals  BY FullSyncHeals DEF SyncBounds
<1> QED  BY <1>1, SwapHeals, PTL DEF SyncsSpec, RulesHeal
===============================================================================
