---------------------------- MODULE PlaybooksProofs ----------------------------
(* For any number of cases, of sweeps that overlap, and any limit: approvals    *)
(* are carried out once, no case drops out of the outbox unseen, the limit is   *)
(* passed by no more runs than there are sweeps, and it trips once at a time.   *)
EXTENDS Playbooks, FiniteSetTheorems, WellFoundedInduction, TLAPS

\* The sweeps that have read that their first case may run.
AtRun == {s \in Sweep : verdict[s] = "run"}
RateInv == runs + Cardinality(AtRun) <= MaxRuns + Cardinality(Sweep)

\* What a sweep holds are cases, though other sweeps may have drained them.
SeenInv == \A s \in Sweep : rowsSeen[s] \subseteq created

IInv == TypeOK /\ DecidedOnce /\ NoCaseForgotten /\ TrippedOnce /\ RateInv

-----------------------------------------------------------------------------
(* Finite sets of cases.                                                      *)

LEMMA CasesFinite ==
  ASSUME NEW R \in SUBSET Case
  PROVE  IsFiniteSet(R) /\ Cardinality(R) \in Nat
<1>1. IsFiniteSet(Case)
  BY FS_Interval, PlaybookBounds DEF Case
<1> QED
  BY <1>1, FS_Subset, FS_CardinalityType

LEMMA LastCase ==
  ASSUME NEW R \in SUBSET Case, R # {}
  PROVE  \E c \in R : \A d \in R : d <= c
<1> DEFINE T == {MaxCase - c : c \in R}
<1>1. T \subseteq Nat /\ T # {}
  BY PlaybookBounds DEF Case
<1>2. PICK x \in T : \A y \in T : ~ (<<y, x>> \in OpToRel(<, Nat))
  <2> HIDE DEF T
  <2> QED
    BY <1>1, NatLessThanWellFounded, WFMin
<1>3. \A y \in T : ~ (y < x)
  BY <1>1, <1>2 DEF OpToRel
<1>4. PICK c \in R : x = MaxCase - c
  BY DEF T
<1>5. \A d \in R : ~ (MaxCase - d < MaxCase - c)
  BY <1>3, <1>4
<1> QED
  BY <1>5, PlaybookBounds DEF Case

\* Whatever runs in one transaction stays within the limit.
LEMMA RunningBound ==
  ASSUME NEW R \in SUBSET Case, NEW en \in BOOLEAN, NEW n \in Nat
  PROVE  /\ Running(R, en, n) \subseteq R
         /\ Cardinality(Running(R, en, n)) \in Nat
         /\ Running(R, en, n) # {} => n + Cardinality(Running(R, en, n)) <= MaxRuns
<1> DEFINE Q == Running(R, en, n)
<1>1. Q \subseteq R
  BY DEF Running
<1>2. IsFiniteSet(Q) /\ Cardinality(Q) \in Nat
  <2> HIDE DEF Q
  <2> QED
    BY <1>1, CasesFinite
<1>3. ASSUME Q # {}
      PROVE  n + Cardinality(Q) <= MaxRuns
  <2>1. PICK c \in Q : \A d \in Q : d <= c
    <3> HIDE DEF Q
    <3> QED
      BY <1>1, <1>3, LastCase
  <2> DEFINE B == {d \in R : d < c}
  <2>2. ~Over(n + Cardinality(B))
    BY <2>1 DEF Running
  <2>3. IsFiniteSet(B) /\ Cardinality(B) \in Nat
    BY CasesFinite
  <2>4. Q \ {c} \subseteq B
    <3> SUFFICES ASSUME NEW d \in Q \ {c} PROVE d \in B
      OBVIOUS
    <3>1. d \in R /\ d <= c /\ d # c /\ c \in R
      <4> HIDE DEF Q
      <4> QED
        BY <1>1, <2>1
    <3> QED
      BY <3>1, PlaybookBounds DEF Case
  <2>5. Cardinality(Q \ {c}) = Cardinality(Q) - 1
    <3> HIDE DEF Q
    <3> QED
      BY <1>2, <2>1, FS_RemoveElement
  <2>6. Cardinality(Q \ {c}) <= Cardinality(B)
    BY <2>3, <2>4, FS_Subset
  <2> HIDE DEF B, Q
  <2> QED
    BY <1>2, <2>2, <2>3, <2>5, <2>6, PlaybookBounds DEF Over
<1> QED
  BY <1>1, <1>2, <1>3

LEMMA SweepsFinite ==
  ASSUME NEW S \in SUBSET Sweep
  PROVE  IsFiniteSet(S) /\ Cardinality(S) \in Nat /\ Cardinality(S) <= Cardinality(Sweep)
BY FS_Subset, FS_CardinalityType, PlaybookBounds

\* A queued approval was not there before.
LEMMA QueuedApprovals ==
  ASSUME TypeOK, DecidedOnce,
         NEW A \in SUBSET Approval, \A a \in A : approval[a] = "absent",
         approval' = Queued(A), acted' = acted
  PROVE  /\ approval' \in [Approval -> {"absent", "pending", "approved", "rejected"}]
         /\ DecidedOnce'
BY DEF TypeOK, DecidedOnce, Queued

LEMMA Nexts ==
  /\ \A R : NextIsolations(R) \subseteq Approval
            /\ \A a \in NextIsolations(R) : approval[a] = "absent"
  /\ \A X : NextRestorations(X) \subseteq Approval
            /\ \A a \in NextRestorations(X) : approval[a] = "absent"
BY DEF NextIsolations, NextRestorations, Approval

LEMMA InitInv == Init => IInv
<1> SUFFICES ASSUME Init PROVE IInv
  OBVIOUS
<1>1. TypeOK
  BY PlaybookBounds DEF Init, TypeOK, RevertStatus
<1>2. DecidedOnce /\ NoCaseForgotten /\ TrippedOnce
  BY DEF Init, DecidedOnce, NoCaseForgotten, TrippedOnce
<1>3. AtRun = {}
  BY DEF Init, AtRun
<1>4. RateInv
  BY <1>3, FS_EmptySet, SweepsFinite, PlaybookBounds DEF RateInv, Init
<1> QED
  BY <1>1, <1>2, <1>4 DEF IInv

-----------------------------------------------------------------------------
(* Steps that leave the playbook, its runs and the verdicts alone.            *)

Gated == approval' \in [Approval -> {"absent", "pending", "approved", "rejected"}]
         /\ acted' \in [Approval -> 0 .. 2]

LEMMA BookKept ==
  ASSUME IInv, UNCHANGED <<book, verdict>>
  PROVE  TrippedOnce' /\ RateInv'
BY DEF IInv, TrippedOnce, RateInv, AtRun, book

LEMMA CreateByEngineInv ==
  ASSUME IInv, NEW c \in Case, CreateByEngine(c)
  PROVE  IInv'
<1>1. TypeOK'
  BY DEF IInv, CreateByEngine, TypeOK, book, gate, reverts, sweeps
<1>2. DecidedOnce' /\ NoCaseForgotten'
  BY DEF IInv, CreateByEngine, DecidedOnce, NoCaseForgotten, gate
<1> QED
  BY <1>1, <1>2, BookKept DEF IInv, CreateByEngine, sweeps

LEMMA FallDueInv ==
  ASSUME IInv, NEW x \in Isolation, FallDue(x)
  PROVE  IInv'
<1>1. TypeOK'
  BY DEF IInv, FallDue, TypeOK, cases, book, gate, sweeps
<1>2. DecidedOnce' /\ NoCaseForgotten'
  BY DEF IInv, FallDue, DecidedOnce, NoCaseForgotten, gate, cases
<1> QED
  BY <1>1, <1>2, BookKept DEF IInv, FallDue, sweeps

LEMMA ReadRevertsInv ==
  ASSUME IInv, NEW s \in Sweep, ReadReverts(s)
  PROVE  IInv'
<1>1. DueReverts \subseteq Isolation
  BY DEF DueReverts
<1>2. TypeOK'
  BY <1>1 DEF IInv, ReadReverts, TypeOK, cases, book, gate, reverts
<1>3. DecidedOnce' /\ NoCaseForgotten'
  BY DEF IInv, ReadReverts, DecidedOnce, NoCaseForgotten, gate, cases
<1> QED
  BY <1>2, <1>3, BookKept DEF IInv, ReadReverts

LEMMA QueueRevertsInv ==
  ASSUME IInv, NEW s \in Sweep, QueueReverts(s)
  PROVE  IInv'
<1>1. /\ approval' \in [Approval -> {"absent", "pending", "approved", "rejected"}]
      /\ DecidedOnce'
  <2> DEFINE A == NextRestorations(dueSeen[s])
  <2>1. A \in SUBSET Approval /\ \A a \in A : approval[a] = "absent"
    BY Nexts
  <2>2. approval' = Queued(A) /\ acted' = acted
    BY DEF QueueReverts
  <2> HIDE DEF A
  <2> QED
    BY <2>1, <2>2, QueuedApprovals DEF IInv
<1>2. revert' \in [Isolation -> RevertStatus]
  BY DEF IInv, QueueReverts, TypeOK, RevertStatus
<1>3. TypeOK'
  BY <1>1, <1>2 DEF IInv, QueueReverts, TypeOK, cases, book
<1>4. NoCaseForgotten'
  BY DEF IInv, QueueReverts, NoCaseForgotten, cases
<1> QED
  BY <1>1, <1>3, <1>4, BookKept DEF IInv, QueueReverts

LEMMA ReadOutboxInv ==
  ASSUME IInv, NEW s \in Sweep, ReadOutbox(s)
  PROVE  IInv'
<1>1. outbox \subseteq Case
  BY DEF IInv, TypeOK
<1>2. TypeOK'
  BY <1>1 DEF IInv, ReadOutbox, TypeOK, cases, book, gate, reverts
<1>3. DecidedOnce' /\ NoCaseForgotten'
  BY DEF IInv, ReadOutbox, DecidedOnce, NoCaseForgotten, gate, cases
<1> QED
  BY <1>2, <1>3, BookKept DEF IInv, ReadOutbox

LEMMA CarryOutInv ==
  ASSUME IInv, NEW a \in Approval, CarryOut(a)
  PROVE  Gated /\ DecidedOnce'
BY DEF IInv, TypeOK, CarryOut, Claimable, DecidedOnce, Twice, Gated

LEMMA RefuseInv ==
  ASSUME IInv, NEW a \in Approval, Refuse(a)
  PROVE  Gated /\ DecidedOnce'
BY DEF IInv, TypeOK, Refuse, Claimable, DecidedOnce, Gated

\* An operator's decision, or a cancellation: only approvals and reverts change.
LEMMA OperatorInv ==
  ASSUME IInv, Gated /\ DecidedOnce', UNCHANGED <<cases, book, due, sweeps>>,
         revert' \in [Isolation -> RevertStatus], calledOff' \subseteq Isolation
  PROVE  IInv'
<1>1. TypeOK'
  BY DEF IInv, TypeOK, Gated, cases, book, sweeps
<1>2. NoCaseForgotten'
  BY DEF IInv, NoCaseForgotten, cases
<1> QED
  BY <1>1, <1>2, BookKept DEF IInv, sweeps

LEMMA OperatorsInv ==
  ASSUME IInv, Operators
  PROVE  IInv'
<1>1. ASSUME NEW x \in Isolation, ApproveIsolation(x)
      PROVE  IInv'
  <2>1. Gated /\ DecidedOnce'
    BY <1>1, CarryOutInv DEF ApproveIsolation, Approval
  <2>2. revert' \in [Isolation -> RevertStatus]
    BY <1>1 DEF ApproveIsolation, IInv, TypeOK, RevertStatus
  <2> QED
    BY <1>1, <2>1, <2>2, OperatorInv DEF ApproveIsolation, IInv, TypeOK
<1>2. ASSUME NEW x \in Isolation, RejectIsolation(x)
      PROVE  IInv'
  <2>1. Gated /\ DecidedOnce'
    BY <1>2, RefuseInv DEF RejectIsolation, Approval
  <2> QED
    BY <1>2, <2>1, OperatorInv DEF RejectIsolation, IInv, TypeOK, reverts
<1>3. ASSUME NEW x \in Isolation, CancelRevert(x)
      PROVE  IInv'
  <2>1. Gated /\ DecidedOnce'
    BY <1>3 DEF CancelRevert, gate, Gated, IInv, TypeOK, DecidedOnce
  <2>2. revert' \in [Isolation -> RevertStatus] /\ calledOff' \subseteq Isolation
    BY <1>3 DEF CancelRevert, IInv, TypeOK, RevertStatus
  <2> QED
    BY <1>3, <2>1, <2>2, OperatorInv DEF CancelRevert
<1>4. ASSUME NEW y \in Restoration, ApproveRestoration(y)
      PROVE  IInv'
  <2>1. Gated /\ DecidedOnce'
    BY <1>4, CarryOutInv DEF ApproveRestoration, Approval
  <2>2. revert' \in [Isolation -> RevertStatus]
    BY <1>4 DEF ApproveRestoration, IInv, TypeOK, RevertStatus
  <2> QED
    BY <1>4, <2>1, <2>2, OperatorInv DEF ApproveRestoration, IInv, TypeOK
<1>5. ASSUME NEW y \in Restoration, RejectRestoration(y)
      PROVE  IInv'
  <2>1. Gated /\ DecidedOnce'
    BY <1>5, RefuseInv DEF RejectRestoration, Approval
  <2>2. revert' \in [Isolation -> RevertStatus]
    BY <1>5 DEF RejectRestoration, IInv, TypeOK, RevertStatus, RefusedRevert
  <2> QED
    BY <1>5, <2>1, <2>2, OperatorInv DEF RejectRestoration, IInv, TypeOK
<1> QED
  BY <1>1, <1>2, <1>3, <1>4, <1>5 DEF Operators

-----------------------------------------------------------------------------
(* Steps that count runs, or change what a sweep believes about them.         *)

LEMMA CreateByHandInv ==
  ASSUME IInv, NEW c \in Case, CreateByHand(c)
  PROVE  IInv'
<1> DEFINE ran == Running({c}, enabled, runs + limits)
           trip == Tripping({c}, enabled, runs + limits)
<1> USE DEF IInv
<1>1. /\ runs \in Nat /\ limits \in Nat /\ trips \in Nat /\ enabled \in BOOLEAN
      /\ runs + limits \in Nat /\ {c} \in SUBSET Case
  BY DEF TypeOK
<1>2. /\ runs' = runs + Cardinality(ran)
      /\ enabled' = (enabled /\ ~trip)
      /\ limits' = IF trip THEN limits + 1 ELSE limits
      /\ trips' = IF trip THEN trips + 1 ELSE trips
      /\ approval' = Queued(NextIsolations(ran))
      /\ UNCHANGED <<outbox, toggles, acted, reverts, sweeps>>
  BY DEF CreateByHand
<1>3. Cardinality(ran) \in Nat /\ (ran # {} => runs + limits + Cardinality(ran) <= MaxRuns)
  BY <1>1, RunningBound
<1>4. trip \in BOOLEAN /\ (trip => enabled)
  BY DEF Tripping
<1> HIDE DEF ran, trip
<1>5. /\ approval' \in [Approval -> {"absent", "pending", "approved", "rejected"}]
      /\ DecidedOnce'
  <2>1. NextIsolations(ran) \in SUBSET Approval
        /\ \A a \in NextIsolations(ran) : approval[a] = "absent"
    BY Nexts
  <2> QED
    BY <1>2, <2>1, QueuedApprovals
<1>6. created' = created \cup {c} /\ served' = served \cup {c}
  BY DEF CreateByHand
<1>7. /\ runs' \in Nat /\ limits' \in Nat /\ trips' \in Nat /\ enabled' \in BOOLEAN
  BY <1>1, <1>2, <1>3, <1>4
<1>8. TypeOK'
  BY <1>2, <1>5, <1>6, <1>7 DEF TypeOK, reverts, sweeps
<1>9. NoCaseForgotten'
  BY <1>2, <1>6 DEF NoCaseForgotten
<1>10. TrippedOnce'
  <2>1. trips = toggles + (IF enabled THEN 0 ELSE 1) /\ toggles \in Int
    BY PlaybookBounds DEF TrippedOnce, TypeOK
  <2>2. CASE trip
    <3>1. trips = toggles /\ ~enabled'
      <4>1. enabled
        BY <1>4, <2>2
      <4>2. ~enabled'
        BY <1>2, <2>2
      <4> QED
        BY <2>1, <4>1, <4>2
    <3>2. trips' = trips + 1 /\ toggles' = toggles
      BY <1>2, <2>2
    <3> QED
      BY <2>1, <3>1, <3>2 DEF TrippedOnce
  <2>3. CASE ~trip
    <3>1. enabled' <=> enabled
      BY <1>2, <2>3
    <3>2. trips' = trips /\ toggles' = toggles
      BY <1>2, <2>3
    <3> QED
      BY <2>1, <3>1, <3>2 DEF TrippedOnce
  <2> QED
    BY <2>2, <2>3
<1>11. RateInv'
  <2>1. AtRun' = AtRun
    BY <1>2 DEF AtRun, sweeps
  <2>2. /\ Cardinality(AtRun) \in Nat /\ Cardinality(Sweep) \in Nat
        /\ Cardinality(AtRun) <= Cardinality(Sweep)
    BY SweepsFinite DEF AtRun
  <2>3. CASE ran = {}
    BY <1>1, <1>2, <2>1, <2>3, FS_EmptySet DEF RateInv
  <2>4. CASE ran # {}
    BY <1>1, <1>2, <1>3, <2>1, <2>2, <2>4, PlaybookBounds DEF RateInv
  <2> QED
    BY <2>3, <2>4
<1> QED
  BY <1>5, <1>8, <1>9, <1>10, <1>11

LEMMA RunsAgeInv ==
  ASSUME IInv, RunsAge
  PROVE  IInv'
<1> USE DEF IInv
<1>1. /\ runs' \in Nat /\ limits' \in Nat /\ runs' <= runs
      /\ UNCHANGED <<cases, enabled, trips, toggles, gate, reverts, sweeps>>
  BY DEF RunsAge, TypeOK
<1>2. TypeOK'
  BY <1>1 DEF TypeOK, cases, gate, reverts, sweeps
<1>3. DecidedOnce' /\ NoCaseForgotten' /\ TrippedOnce'
  BY <1>1 DEF DecidedOnce, NoCaseForgotten, TrippedOnce, gate, cases
<1>4. RateInv'
  <2>1. AtRun' = AtRun
    BY <1>1 DEF AtRun, sweeps
  <2>2. Cardinality(AtRun) \in Nat /\ Cardinality(Sweep) \in Nat
    BY SweepsFinite DEF AtRun
  <2> QED
    BY <1>1, <2>1, <2>2, PlaybookBounds DEF RateInv, TypeOK
<1> QED
  BY <1>2, <1>3, <1>4

LEMMA ToggleInv ==
  ASSUME IInv, Toggle
  PROVE  IInv'
<1> USE DEF IInv
<1>1. /\ trips \in Nat /\ toggles \in Int /\ enabled \in BOOLEAN /\ MaxToggles \in Nat
      /\ trips = toggles + (IF enabled THEN 0 ELSE 1)
      /\ trips' = trips
  BY PlaybookBounds DEF TypeOK, TrippedOnce, Toggle
<1>2. ASSUME enabled
      PROVE  TrippedOnce' /\ toggles' \in -1 .. MaxToggles /\ enabled' \in BOOLEAN
  <2>1. trips = toggles
    BY <1>1, <1>2
  <2>2. ~enabled' /\ toggles' = toggles - 1
    BY <1>2 DEF Toggle
  <2>3. TrippedOnce'
    BY <1>1, <2>1, <2>2 DEF TrippedOnce
  <2>4. toggles' \in -1 .. MaxToggles /\ enabled' \in BOOLEAN
    <3>1. toggles \in -1 .. MaxToggles
      BY DEF TypeOK
    <3>2. enabled' \in BOOLEAN
      BY DEF Toggle
    <3> QED
      BY <1>1, <2>1, <2>2, <3>1, <3>2
  <2> QED
    BY <2>3, <2>4
<1>3. ASSUME ~enabled
      PROVE  TrippedOnce' /\ toggles' \in -1 .. MaxToggles /\ enabled' \in BOOLEAN
  <2>1. trips = toggles + 1
    BY <1>1, <1>3
  <2>2. enabled' /\ toggles' = toggles + 1 /\ toggles < MaxToggles
    BY <1>3 DEF Toggle
  <2>3. TrippedOnce'
    BY <1>1, <2>1, <2>2 DEF TrippedOnce
  <2>4. toggles' \in -1 .. MaxToggles /\ enabled' \in BOOLEAN
    <3>1. toggles \in -1 .. MaxToggles
      BY DEF TypeOK
    <3>2. enabled' \in BOOLEAN
      BY DEF Toggle
    <3> QED
      BY <1>1, <2>2, <3>1, <3>2
  <2> QED
    BY <2>3, <2>4
<1>4. TrippedOnce' /\ toggles' \in -1 .. MaxToggles /\ enabled' \in BOOLEAN
  BY <1>1, <1>2, <1>3
<1>5. TypeOK'
  BY <1>4 DEF Toggle, TypeOK, cases, gate, reverts, sweeps
<1>6. DecidedOnce' /\ NoCaseForgotten' /\ RateInv'
  BY DEF Toggle, DecidedOnce, NoCaseForgotten, RateInv, AtRun, gate, cases, sweeps
<1> QED
  BY <1>4, <1>5, <1>6

LEMMA SweepDiesInv ==
  ASSUME IInv, NEW s \in Sweep, SweepDies(s)
  PROVE  IInv'
<1> USE DEF IInv
<1>1. TypeOK'
  BY DEF SweepDies, TypeOK, cases, book, gate, reverts
<1>2. DecidedOnce' /\ NoCaseForgotten' /\ TrippedOnce'
  BY DEF SweepDies, DecidedOnce, NoCaseForgotten, TrippedOnce, cases, book, gate
<1>3. RateInv'
  <2>1. AtRun' \subseteq AtRun /\ runs' = runs
    BY DEF SweepDies, AtRun, TypeOK, book
  <2>2. IsFiniteSet(AtRun) /\ Cardinality(AtRun) \in Nat /\ Cardinality(Sweep) \in Nat
    BY SweepsFinite DEF AtRun
  <2>3. Cardinality(AtRun') \in Nat /\ Cardinality(AtRun') <= Cardinality(AtRun)
    BY <2>1, <2>2, FS_Subset, FS_CardinalityType
  <2> QED
    BY <2>1, <2>2, <2>3, PlaybookBounds DEF RateInv, TypeOK
<1> QED
  BY <1>1, <1>2, <1>3

LEMMA CheckFirstInv ==
  ASSUME IInv, NEW s \in Sweep, CheckFirst(s)
  PROVE  IInv'
<1> USE DEF IInv
<1>1. TypeOK'
  BY DEF CheckFirst, TypeOK, cases, book, gate, reverts
<1>2. DecidedOnce' /\ NoCaseForgotten' /\ TrippedOnce'
  BY DEF CheckFirst, DecidedOnce, NoCaseForgotten, TrippedOnce, cases, book, gate
<1>3. RateInv'
  <2>1. /\ IsFiniteSet(AtRun) /\ Cardinality(AtRun) \in Nat /\ Cardinality(Sweep) \in Nat
        /\ Cardinality(AtRun') \in Nat /\ Cardinality(AtRun') <= Cardinality(Sweep)
    <3>1. AtRun \subseteq Sweep /\ AtRun' \subseteq Sweep
      BY DEF AtRun
    <3> QED
      BY <3>1, SweepsFinite
  <2>2. runs' = runs /\ runs \in Nat /\ limits \in Nat
    BY DEF CheckFirst, TypeOK, book
  <2>3. CASE Over(runs + limits)
    <3>1. AtRun' \subseteq AtRun
      BY <2>3 DEF CheckFirst, AtRun, TypeOK
    <3>2. Cardinality(AtRun') <= Cardinality(AtRun)
      BY <2>1, <3>1, FS_Subset
    <3> QED
      BY <2>1, <2>2, <3>2, PlaybookBounds DEF RateInv
  <2>4. CASE ~Over(runs + limits)
    BY <2>1, <2>2, <2>4, PlaybookBounds DEF RateInv, Over
  <2> QED
    BY <2>3, <2>4
<1> QED
  BY <1>1, <1>2, <1>3

LEMMA DrainOutboxInv ==
  ASSUME IInv, SeenInv, NEW s \in Sweep, DrainOutbox(s)
  PROVE  IInv'
<1> DEFINE first == {c \in rowsSeen[s] : \A d \in rowsSeen[s] : c <= d}
           rest  == rowsSeen[s] \ first
           over  == verdict[s] = "over" /\ Disables(enabled)
           ran1  == IF verdict[s] = "run" THEN first ELSE {}
           n     == runs + limits + Cardinality(ran1) + (IF over THEN 1 ELSE 0)
           more  == Running(rest, enabled /\ ~over, n)
           trip  == Tripping(rest, enabled /\ ~over, n)
           new   == (IF over THEN 1 ELSE 0) + (IF trip THEN 1 ELSE 0)
<1> USE DEF IInv
<1>1. /\ runs \in Nat /\ limits \in Nat /\ trips \in Nat /\ toggles \in Int
      /\ enabled \in BOOLEAN /\ rowsSeen[s] \in SUBSET Case
      /\ verdict[s] \in {"off", "run", "over"}
  BY PlaybookBounds DEF TypeOK
<1>2. /\ runs' = runs + Cardinality(ran1 \cup more)
      /\ limits' = limits + new /\ trips' = trips + new
      /\ enabled' = (enabled /\ ~over /\ ~trip)
      /\ approval' = Queued(NextIsolations(ran1 \cup more))
      /\ outbox' = outbox \ rowsSeen[s]
      /\ served' = served \cup rowsSeen[s]
      /\ rowsSeen' = [rowsSeen EXCEPT ![s] = {}]
      /\ verdict' = [verdict EXCEPT ![s] = "off"]
      /\ sweepPc' = [sweepPc EXCEPT ![s] = "idle"]
      /\ UNCHANGED <<created, toggles, acted, reverts, dueSeen>>
  BY DEF DrainOutbox, Drained
<1>3. over \in BOOLEAN /\ (over => enabled /\ verdict[s] = "over")
  BY <1>1 DEF Disables
<1>4. trip \in BOOLEAN /\ (trip => enabled /\ ~over)
  BY DEF Tripping
<1>5. /\ first \in SUBSET Case /\ rest \in SUBSET Case /\ ran1 \in SUBSET Case
      /\ Cardinality(ran1) \in {0, 1} /\ (verdict[s] # "run" => ran1 = {})
  <2>1. first \in SUBSET Case /\ rest \in SUBSET Case
    BY <1>1
  <2>2. first = {} \/ \E c : first = {c}
    <3>1. \A c, d \in first : c <= d /\ d <= c
      OBVIOUS
    <3>2. \A c, d \in first : c = d
      BY <2>1, <3>1, PlaybookBounds DEF Case
    <3> HIDE DEF first
    <3> QED
      BY <3>2
  <2>3. Cardinality(ran1) \in {0, 1}
    <3> HIDE DEF first
    <3> QED
      BY <2>2, FS_EmptySet, FS_Singleton
  <2> QED
    BY <2>1, <2>3
<1>6. n \in Nat /\ runs + Cardinality(ran1) <= n
  <2> HIDE DEF ran1, over
  <2> QED
    BY <1>1, <1>3, <1>5
<1>7. /\ more \in SUBSET Case /\ Cardinality(more) \in Nat
      /\ more # {} => n + Cardinality(more) <= MaxRuns
  <2>1. (enabled /\ ~over) \in BOOLEAN
    OBVIOUS
  <2> HIDE DEF n, over, rest
  <2> QED
    BY <1>5, <1>6, <2>1, RunningBound
<1>8. new \in Nat /\ new = IF enabled /\ ~(enabled /\ ~over /\ ~trip) THEN 1 ELSE 0
  <2> HIDE DEF over, trip
  <2> QED
    BY <1>1, <1>3, <1>4
<1> HIDE DEF first, rest, over, ran1, n, more, trip, new
<1>9. /\ Cardinality(ran1 \cup more) \in Nat
      /\ Cardinality(ran1 \cup more) <= Cardinality(ran1) + Cardinality(more)
  <2>1. IsFiniteSet(ran1) /\ IsFiniteSet(more) /\ IsFiniteSet(ran1 \cap more)
    BY <1>5, <1>7, CasesFinite, FS_Intersection
  <2>2. Cardinality(ran1 \cap more) \in Nat /\ Cardinality(ran1 \cup more) \in Nat
    BY <1>5, <1>7, CasesFinite
  <2>3. Cardinality(ran1 \cup more)
          = Cardinality(ran1) + Cardinality(more) - Cardinality(ran1 \cap more)
    BY <2>1, FS_Union
  <2> QED
    BY <1>5, <1>7, <2>2, <2>3
<1>10. /\ approval' \in [Approval -> {"absent", "pending", "approved", "rejected"}]
       /\ DecidedOnce'
  <2>1. /\ NextIsolations(ran1 \cup more) \in SUBSET Approval
        /\ \A a \in NextIsolations(ran1 \cup more) : approval[a] = "absent"
    BY Nexts
  <2> QED
    BY <1>2, <2>1, QueuedApprovals
<1>11. runs' \in Nat /\ limits' \in Nat /\ trips' \in Nat /\ enabled' \in BOOLEAN
  BY <1>1, <1>2, <1>3, <1>4, <1>8, <1>9
<1>12. TypeOK'
  <2>1. rowsSeen[s] \subseteq created
    BY DEF SeenInv
  <2> QED
    BY <2>1, <1>2, <1>10, <1>11 DEF TypeOK, reverts
<1>13. NoCaseForgotten'
  BY <1>2 DEF NoCaseForgotten
<1>14. TrippedOnce'
  BY <1>1, <1>2, <1>3, <1>4, <1>8 DEF TrippedOnce
<1>15. RateInv'
  <2>1. /\ IsFiniteSet(AtRun) /\ Cardinality(AtRun) \in Nat /\ Cardinality(Sweep) \in Nat
        /\ Cardinality(AtRun') \in Nat /\ Cardinality(AtRun') <= Cardinality(Sweep)
    <3>1. AtRun \subseteq Sweep /\ AtRun' \subseteq Sweep
      BY DEF AtRun
    <3> QED
      BY <3>1, SweepsFinite
  <2>2. AtRun' = AtRun \ {s}
    BY <1>2 DEF AtRun, TypeOK
  <2>3. Cardinality(AtRun') = IF s \in AtRun THEN Cardinality(AtRun) - 1 ELSE Cardinality(AtRun)
    BY <2>1, <2>2, FS_RemoveElement
  <2>4. Cardinality(ran1) + Cardinality(AtRun') <= Cardinality(AtRun)
    <3>1. CASE s \in AtRun
      BY <1>5, <2>1, <2>3, <3>1
    <3>2. CASE s \notin AtRun
      <4>1. Cardinality(ran1) = 0
        BY <1>5, <3>2, FS_EmptySet DEF AtRun
      <4> QED
        BY <2>1, <2>3, <3>2, <4>1
    <3> QED
      BY <3>1, <3>2
  <2>5. CASE more = {}
    <3>1. Cardinality(ran1 \cup more) = Cardinality(ran1)
      BY <2>5
    <3> QED
      BY <1>1, <1>2, <1>5, <2>1, <2>4, <3>1, PlaybookBounds DEF RateInv
  <2>6. CASE more # {}
    BY <1>1, <1>2, <1>5, <1>6, <1>7, <1>9, <2>1, <2>6, PlaybookBounds DEF RateInv
  <2> QED
    BY <2>5, <2>6
<1> QED
  BY <1>10, <1>12, <1>13, <1>14, <1>15

LEMMA SeenStep ==
  ASSUME TypeOK, SeenInv, [Next]_vars
  PROVE  SeenInv'
<1>1. CASE UNCHANGED rowsSeen /\ created \subseteq created'
  BY <1>1 DEF SeenInv
<1>2. ASSUME NEW s \in Sweep, ReadOutbox(s)
      PROVE  SeenInv'
  BY <1>2 DEF ReadOutbox, SeenInv, TypeOK, cases
<1>3. ASSUME NEW s \in Sweep, DrainOutbox(s) \/ SweepDies(s)
      PROVE  SeenInv'
  BY <1>3 DEF DrainOutbox, SweepDies, SeenInv, TypeOK, cases
<1>4. \/ UNCHANGED rowsSeen /\ created \subseteq created'
      \/ \E s \in Sweep : ReadOutbox(s) \/ DrainOutbox(s) \/ SweepDies(s)
  <2>1. CASE UNCHANGED vars
    BY <2>1 DEF vars, sweeps, cases
  <2>2. CASE Operators
    BY <2>2 DEF Operators, ApproveIsolation, RejectIsolation, CancelRevert,
       ApproveRestoration, RejectRestoration, sweeps, cases
  <2>3. CASE Surroundings
    BY <2>3 DEF Surroundings, CreateByHand, CreateByEngine, FallDue, RunsAge, Toggle,
       sweeps, cases
  <2>4. CASE \E s \in Sweep : SweepStep(s) \/ SweepDies(s)
    BY <2>4 DEF SweepStep, ReadReverts, QueueReverts, CheckFirst, cases
  <2> QED
    BY <2>1, <2>2, <2>3, <2>4 DEF Next
<1> QED
  BY <1>1, <1>2, <1>3, <1>4

LEMMA NextInv ==
  ASSUME IInv, SeenInv, [Next]_vars
  PROVE  IInv'
<1>1. CASE UNCHANGED vars
  BY <1>1 DEF IInv, vars, cases, book, gate, reverts, sweeps, TypeOK, DecidedOnce,
     NoCaseForgotten, TrippedOnce, RateInv, AtRun
<1>2. CASE Surroundings
  BY <1>2, CreateByHandInv, CreateByEngineInv, FallDueInv, RunsAgeInv, ToggleInv
     DEF Surroundings
<1>3. CASE \E s \in Sweep : SweepStep(s) \/ SweepDies(s)
  BY <1>3, ReadRevertsInv, QueueRevertsInv, ReadOutboxInv, CheckFirstInv, DrainOutboxInv,
     SweepDiesInv DEF SweepStep
<1> QED
  BY <1>1, <1>2, <1>3, OperatorsInv DEF Next

-----------------------------------------------------------------------------
(* The reverts: every sweep that has read a revert as due may queue an approval  *)
(* for it, and there is one left for each.                                       *)

\* The approvals to restore that the revert x has had, and the sweeps that hold it.
Used(x) == {k \in Copy : approval[<<x[1], x[2], k>>] # "absent"}
Holders(x) == {s \in Sweep : x \in dueSeen[s]}

NotYet(x) == revert[x] = "absent" => Holders(x) = {}
Unqueued(x) == revert[x] \in {"absent", "pending"} => Used(x) = {}
Unscheduled(x) == approval[x] \in {"absent", "pending", "rejected"} => revert[x] = "absent"
RoomForAll(x) == Cardinality(Used(x)) + Cardinality(Holders(x)) <= Cardinality(Sweep)
Awaited(x) == revert[x] = "queued_for_approval" =>
                 \E k \in Copy : approval[<<x[1], x[2], k>>] = "pending"

Settled(x) == NotYet(x) /\ Unqueued(x) /\ Unscheduled(x) /\ RoomForAll(x) /\ Awaited(x)
RevertInv == \A x \in Isolation : Settled(x)

LEMMA CopiesFinite ==
  /\ Cardinality(Sweep) \in Nat /\ IsFiniteSet(Copy) /\ Cardinality(Copy) = Cardinality(Sweep)
  /\ Copy \subseteq Nat
  /\ \A K \in SUBSET Copy : IsFiniteSet(K) /\ Cardinality(K) \in Nat
<1>1. Cardinality(Sweep) \in Nat
  BY FS_CardinalityType, PlaybookBounds
<1>2. IsFiniteSet(Copy) /\ Cardinality(Copy) = Cardinality(Sweep)
  BY <1>1, FS_Interval DEF Copy
<1>3. Copy \subseteq Nat
  BY <1>1 DEF Copy
<1>4. ASSUME NEW K \in SUBSET Copy
      PROVE  IsFiniteSet(K) /\ Cardinality(K) \in Nat
  BY <1>2, FS_Subset, FS_CardinalityType
<1> QED
  BY <1>1, <1>2, <1>3, <1>4

\* Isolations and restorations are named apart.
LEMMA NamesApart ==
  /\ \A x \in Isolation, y \in Restoration : x # y
  /\ \A x \in Isolation, k \in Copy : <<x[1], x[2], k>> \in Restoration
                                      /\ RevertOf(<<x[1], x[2], k>>) = x
  /\ \A y \in Restoration : RevertOf(y) \in Isolation /\ y[3] \in Copy
                            /\ y = <<RevertOf(y)[1], RevertOf(y)[2], y[3]>>
BY DEF Isolation, Restoration, RevertOf

\* The lowest approval that a revert has not had.
LEMMA LowestFree ==
  ASSUME NEW x \in Isolation, Used(x) # Copy
  PROVE  \E k \in Copy : /\ k \notin Used(x)
                         /\ \A j \in 1 .. k - 1 : j \in Used(x)
<1> DEFINE F == Copy \ Used(x)
<1>1. F \subseteq Nat /\ F # {}
  BY CopiesFinite DEF Used
<1>2. PICK k \in F : \A j \in F : ~ (<<j, k>> \in OpToRel(<, Nat))
  <2> HIDE DEF F
  <2> QED
    BY <1>1, NatLessThanWellFounded, WFMin
<1>3. \A j \in F : ~ (j < k)
  <2> HIDE DEF F
  <2> QED
    BY <1>1, <1>2 DEF OpToRel
<1>4. k \in Copy /\ k \notin Used(x)
  OBVIOUS
<1>5. ASSUME NEW j \in 1 .. k - 1
      PROVE  j \in Used(x)
  <2>1. j \in Copy /\ j < k
    BY <1>4, CopiesFinite DEF Copy
  <2>2. j \notin F
    <3> HIDE DEF F
    <3> QED
      BY <1>3, <2>1
  <2> QED
    BY <2>1, <2>2
<1> QED
  BY <1>4, <1>5

LEMMA RoomsCounted ==
  ASSUME NEW x \in Isolation
  PROVE  /\ IsFiniteSet(Used(x)) /\ Cardinality(Used(x)) \in Nat
         /\ IsFiniteSet(Holders(x)) /\ Cardinality(Holders(x)) \in Nat
         /\ Cardinality(Holders(x)) <= Cardinality(Sweep)
<1>1. Used(x) \in SUBSET Copy /\ Holders(x) \in SUBSET Sweep
  BY DEF Used, Holders
<1> QED
  BY <1>1, CopiesFinite, SweepsFinite

\* Nothing new about the revert x: no sweep takes it up, and its approvals stay,
\* but that the isolation may be queued, and sweeps may let go of the revert.
LEMMA Unmoved ==
  ASSUME RevertInv, NEW x \in Isolation, revert'[x] = revert[x],
         \A k \in Copy : approval'[<<x[1], x[2], k>>] = approval[<<x[1], x[2], k>>],
         approval'[x] \in {"absent", "pending", "rejected"}
            => approval[x] \in {"absent", "pending", "rejected"},
         \A s \in Sweep : x \in dueSeen'[s] => x \in dueSeen[s]
  PROVE  Settled(x)'
<1>1. Used(x)' = Used(x) /\ Holders(x)' \subseteq Holders(x)
  BY DEF Used, Holders
<1>2. Settled(x)
  BY DEF RevertInv
<1>3. NotYet(x)' /\ Unqueued(x)' /\ Unscheduled(x)' /\ Awaited(x)'
  BY <1>1, <1>2 DEF Settled, NotYet, Unqueued, Unscheduled, Awaited
<1>4. RoomForAll(x)'
  <2>1. /\ IsFiniteSet(Used(x)) /\ Cardinality(Used(x)) \in Nat
        /\ IsFiniteSet(Holders(x)) /\ Cardinality(Holders(x)) \in Nat
    BY RoomsCounted
  <2>2. Cardinality(Holders(x)') \in Nat
        /\ Cardinality(Holders(x)') <= Cardinality(Holders(x))
    BY <1>1, <2>1, FS_Subset, FS_CardinalityType
  <2> QED
    BY <1>1, <1>2, <2>1, <2>2, CopiesFinite DEF Settled, RoomForAll
<1> QED
  BY <1>3, <1>4 DEF Settled

\* Steps that touch no revert, and let sweeps read and forget other things.
LEMMA RevertsKept ==
  ASSUME TypeOK, RevertInv, revert' = revert,
         \A y \in Restoration : approval'[y] = approval[y],
         \A x \in Isolation : approval'[x] \in {"absent", "pending", "rejected"}
            => approval[x] \in {"absent", "pending", "rejected"},
         \A s \in Sweep : dueSeen'[s] \subseteq dueSeen[s]
  PROVE  RevertInv'
<1> SUFFICES ASSUME NEW x \in Isolation PROVE Settled(x)'
  BY DEF RevertInv
<1>1. \A k \in Copy : approval'[<<x[1], x[2], k>>] = approval[<<x[1], x[2], k>>]
  BY NamesApart
<1> QED
  BY <1>1, Unmoved

\* Queueing isolations touches no restoration.
LEMMA IsolationsQueued ==
  ASSUME TypeOK, NEW R, approval' = Queued(NextIsolations(R))
  PROVE  /\ \A y \in Restoration : approval'[y] = approval[y]
         /\ \A x \in Isolation : approval'[x] \in {"absent", "pending", "rejected"}
               => approval[x] \in {"absent", "pending", "rejected"}
<1>1. NextIsolations(R) \subseteq Isolation
      /\ \A x \in NextIsolations(R) : approval[x] = "absent"
  BY DEF NextIsolations
<1> QED
  BY <1>1, NamesApart DEF Queued, Approval

LEMMA ReadRevertsSettled ==
  ASSUME TypeOK, RevertInv, NEW s \in Sweep, ReadReverts(s)
  PROVE  RevertInv'
<1> SUFFICES ASSUME NEW x \in Isolation PROVE Settled(x)'
  BY DEF RevertInv
<1>1. /\ revert' = revert /\ approval' = approval
      /\ dueSeen' = [dueSeen EXCEPT ![s] = DueReverts]
  BY DEF ReadReverts, reverts, gate
<1>2. CASE x \in DueReverts
  <2>1. revert[x] = "pending"
    BY <1>2 DEF DueReverts
  <2>2. Used(x) = {} /\ Used(x)' = Used(x) /\ Unscheduled(x)
    BY <1>1, <2>1 DEF RevertInv, Settled, Unqueued, Used
  <2>3. Holders(x)' \in SUBSET Sweep
    BY DEF Holders
  <2>4. RoomForAll(x)'
    BY <2>2, <2>3, FS_EmptySet, SweepsFinite DEF RoomForAll
  <2> QED
    BY <1>1, <2>1, <2>2, <2>4 DEF Settled, NotYet, Unqueued, Unscheduled, Awaited
<1>3. CASE x \notin DueReverts
  <2>1. \A t \in Sweep : x \in dueSeen'[t] => x \in dueSeen[t]
    BY <1>1, <1>3 DEF TypeOK
  <2> QED
    BY <1>1, <2>1, Unmoved
<1> QED
  BY <1>2, <1>3

LEMMA QueueRevertsSettled ==
  ASSUME TypeOK, RevertInv, NEW s \in Sweep, QueueReverts(s)
  PROVE  RevertInv'
<1> SUFFICES ASSUME NEW x \in Isolation PROVE Settled(x)'
  BY DEF RevertInv
<1>1. /\ approval' = Queued(NextRestorations(dueSeen[s]))
      /\ revert' = [z \in Isolation |-> IF z \in dueSeen[s] THEN "queued_for_approval"
                                        ELSE revert[z]]
      /\ dueSeen' = [dueSeen EXCEPT ![s] = {}]
  BY DEF QueueReverts
<1>2. approval'[x] = approval[x]
  BY <1>1, NamesApart DEF Queued, NextRestorations, Approval
<1>3. CASE x \notin dueSeen[s]
  <2>1. \A k \in Copy : approval'[<<x[1], x[2], k>>] = approval[<<x[1], x[2], k>>]
    BY <1>1, <1>3, NamesApart DEF Queued, NextRestorations, Approval
  <2>2. \A t \in Sweep : x \in dueSeen'[t] => x \in dueSeen[t]
    BY <1>1 DEF TypeOK
  <2> QED
    BY <1>1, <1>2, <1>3, <2>1, <2>2, Unmoved
<1>4. CASE x \in dueSeen[s]
  <2>1. s \in Holders(x) /\ Holders(x)' = Holders(x) \ {s}
    BY <1>1, <1>4 DEF Holders, TypeOK
  <2>2. approval[x] \notin {"absent", "pending", "rejected"}
    BY <2>1 DEF RevertInv, Settled, NotYet, Unscheduled
  <2>3. /\ IsFiniteSet(Used(x)) /\ Cardinality(Used(x)) \in Nat
        /\ IsFiniteSet(Holders(x)) /\ Cardinality(Holders(x)) \in Nat
        /\ Cardinality(Sweep) \in Nat
    BY RoomsCounted, CopiesFinite
  <2>4. Cardinality(Holders(x)') = Cardinality(Holders(x)) - 1
        /\ Cardinality(Holders(x)) >= 1
    <3>1. /\ IsFiniteSet(Holders(x) \ {s})
          /\ Cardinality(Holders(x) \ {s}) = Cardinality(Holders(x)) - 1
      BY <2>1, <2>3, FS_RemoveElement
    <3>2. Cardinality(Holders(x) \ {s}) \in Nat
      BY <3>1, FS_CardinalityType
    <3> QED
      BY <2>1, <2>3, <3>1, <3>2
  <2>5. Cardinality(Used(x)) < Cardinality(Sweep)
    BY <2>3, <2>4 DEF RevertInv, Settled, RoomForAll
  <2>6. Used(x) # Copy
    BY <2>3, <2>5, CopiesFinite
  <2>7. PICK k \in Copy : k \notin Used(x) /\ \A j \in 1 .. k - 1 : j \in Used(x)
    BY <2>6, LowestFree
  <2>8. <<x[1], x[2], k>> \in NextRestorations(dueSeen[s])
    <3> DEFINE y == <<x[1], x[2], k>>
    <3>1. y \in Restoration /\ RevertOf(y) = x /\ y[1] = x[1] /\ y[2] = x[2] /\ y[3] = k
      BY NamesApart
    <3>2. approval[y] = "absent"
      BY <2>7 DEF Used
    <3>3. \A j \in 1 .. y[3] - 1 : approval[<<y[1], y[2], j>>] # "absent"
      BY <2>7, <3>1 DEF Used
    <3> QED
      BY <1>4, <3>1, <3>2, <3>3 DEF NextRestorations
  <2>9. Used(x)' = Used(x) \cup {k}
    <3>1. ASSUME NEW j \in Copy, j \notin Used(x), j # k
          PROVE  j \notin Used(x)'
      <4>1. ~ (j < k)
        BY <2>7, <3>1, CopiesFinite DEF Copy
      <4>2. k \in 1 .. j - 1
        BY <3>1, <4>1, CopiesFinite DEF Copy
      <4>3. <<x[1], x[2], j>> \notin NextRestorations(dueSeen[s])
        BY <2>7, <4>2 DEF NextRestorations, Used
      <4> QED
        BY <1>1, <3>1, <4>3, NamesApart DEF Used, Queued, Approval
    <3>2. ASSUME NEW j \in Copy, j \in Used(x)
          PROVE  j \in Used(x)'
      BY <1>1, <3>2, NamesApart DEF Used, Queued, Approval
    <3>3. k \in Used(x)'
      BY <1>1, <2>8, NamesApart DEF Used, Queued, Approval
    <3> QED
      BY <3>1, <3>2, <3>3 DEF Used
  <2>10. Cardinality(Used(x)') = Cardinality(Used(x)) + 1
    <3>1. Cardinality(Used(x) \cup {k}) = Cardinality(Used(x)) + 1
      BY <2>3, <2>7, FS_AddElement
    <3> QED
      BY <2>9, <3>1
  <2>11. RoomForAll(x)'
    BY <2>3, <2>4, <2>10 DEF RoomForAll, RevertInv, Settled
  <2>12. Awaited(x)'
    BY <1>1, <2>8, NamesApart DEF Awaited, Queued, Approval
  <2> QED
    BY <1>1, <1>2, <1>4, <2>2, <2>11, <2>12 DEF Settled, NotYet, Unqueued, Unscheduled
<1> QED
  BY <1>3, <1>4

LEMMA OperatorsSettled ==
  ASSUME TypeOK, RevertInv, Operators
  PROVE  RevertInv'
<1>1. dueSeen' = dueSeen
  BY DEF Operators, ApproveIsolation, RejectIsolation, CancelRevert, ApproveRestoration,
     RejectRestoration, sweeps
<1>2. ASSUME NEW z \in Isolation, ApproveIsolation(z), NEW x \in Isolation
      PROVE  Settled(x)'
  <2>1. approval[z] = "pending" /\ approval' = [approval EXCEPT ![z] = "approved"]
    BY <1>2 DEF ApproveIsolation, CarryOut, Claimable
  <2>2. \A k \in Copy : approval'[<<x[1], x[2], k>>] = approval[<<x[1], x[2], k>>]
    BY <2>1, NamesApart DEF TypeOK
  <2>3. z \in Approval
    BY DEF Approval
  <2>4. CASE revert'[x] = revert[x]
    <3>1. approval'[x] \in {"absent", "pending", "rejected"} => approval'[x] = approval[x]
      BY <2>1, <2>3 DEF TypeOK
    <3> QED
      BY <1>1, <2>2, <2>4, <3>1, Unmoved
  <2>5. CASE revert'[x] # revert[x]
    <3>1. x = z /\ revert'[x] = "pending"
      BY <1>2, <2>5 DEF ApproveIsolation, TypeOK
    <3>2. Used(x) = {} /\ Holders(x) = {} /\ RoomForAll(x)
      BY <2>1, <3>1 DEF RevertInv, Settled, NotYet, Unqueued, Unscheduled
    <3>3. Used(x)' = Used(x) /\ Holders(x)' = Holders(x)
      BY <1>1, <2>2 DEF Used, Holders
    <3>4. approval'[x] = "approved"
      BY <2>1, <2>3, <3>1 DEF TypeOK
    <3> QED
      BY <3>1, <3>2, <3>3, <3>4
         DEF Settled, NotYet, Unqueued, Unscheduled, Awaited, RoomForAll
  <2> QED
    BY <2>4, <2>5
<1>3. ASSUME NEW z \in Isolation, RejectIsolation(z)
      PROVE  RevertInv'
  <2>1. /\ approval[z] = "pending" /\ approval' = [approval EXCEPT ![z] = "rejected"]
        /\ revert' = revert /\ z \in Approval
    BY <1>3 DEF RejectIsolation, Refuse, Claimable, reverts, Approval
  <2>2. \A y \in Restoration : approval'[y] = approval[y]
    BY <2>1, NamesApart DEF TypeOK
  <2>3. \A x \in Isolation : approval'[x] \in {"absent", "pending", "rejected"}
           => approval[x] \in {"absent", "pending", "rejected"}
    BY <2>1 DEF TypeOK
  <2> QED
    BY <1>1, <2>1, <2>2, <2>3, RevertsKept
<1>4. ASSUME NEW z \in Isolation, CancelRevert(z), NEW x \in Isolation
      PROVE  Settled(x)'
  <2>1. /\ revert[z] = "pending" /\ revert' = [revert EXCEPT ![z] = "cancelled"]
        /\ approval' = approval
    BY <1>4 DEF CancelRevert, gate
  <2>2. CASE x # z
    BY <1>1, <2>1, <2>2, Unmoved DEF TypeOK
  <2>3. CASE x = z
    <3>1. revert'[x] = "cancelled"
      BY <2>1, <2>3 DEF TypeOK
    <3>2. Settled(x) /\ Used(x)' = Used(x) /\ Holders(x)' = Holders(x)
      BY <1>1, <2>1 DEF RevertInv, Used, Holders
    <3>3. approval'[x] \notin {"absent", "pending", "rejected"}
      BY <2>1, <2>3, <3>2 DEF Settled, Unscheduled
    <3> QED
      BY <3>1, <3>2, <3>3 DEF Settled, NotYet, Unqueued, Unscheduled, RoomForAll, Awaited
  <2> QED
    BY <2>2, <2>3
<1>5. ASSUME NEW y \in Restoration, NEW v \in {"approved", "rejected"},
             NEW w \in {"reverted", "cancelled"},
             approval[y] = "pending", approval' = [approval EXCEPT ![y] = v],
             revert' = [revert EXCEPT ![RevertOf(y)] = w], NEW x \in Isolation
      PROVE  Settled(x)'
  <2>1. /\ y \in Approval /\ RevertOf(y) \in Isolation /\ y[3] \in Copy
        /\ y = <<RevertOf(y)[1], RevertOf(y)[2], y[3]>> /\ y # x
    BY NamesApart DEF Approval
  <2>2. approval'[x] = approval[x]
    BY <1>5, <2>1 DEF TypeOK, Approval
  <2>3. CASE x # RevertOf(y)
    <3>1. \A k \in Copy : <<x[1], x[2], k>> # y
      BY <2>3, NamesApart
    <3>2. \A k \in Copy : approval'[<<x[1], x[2], k>>] = approval[<<x[1], x[2], k>>]
      BY <1>5, <3>1, NamesApart DEF TypeOK, Approval
    <3>3. revert'[x] = revert[x]
      BY <1>5, <2>1, <2>3 DEF TypeOK
    <3> QED
      BY <1>1, <2>2, <3>2, <3>3, Unmoved
  <2>4. CASE x = RevertOf(y)
    <3>1. revert'[x] = w
      BY <1>5, <2>4 DEF TypeOK
    <3>2. Settled(x) /\ Holders(x)' = Holders(x)
      BY <1>1 DEF RevertInv, Holders
    <3>3. y[3] \in Used(x)
      BY <1>5, <2>1, <2>4 DEF Used
    <3>4. Used(x)' = Used(x)
      BY <1>5, <2>1, NamesApart DEF Used, TypeOK, Approval
    <3>5. approval'[x] \notin {"absent", "pending", "rejected"}
      BY <2>2, <3>2, <3>3 DEF Settled, Unqueued, Unscheduled
    <3> QED
      BY <3>1, <3>2, <3>4, <3>5
         DEF Settled, NotYet, Unqueued, Unscheduled, RoomForAll, Awaited
  <2> QED
    BY <2>3, <2>4
<1>6. ASSUME NEW y \in Restoration, ApproveRestoration(y)
      PROVE  RevertInv'
  BY <1>5, <1>6 DEF ApproveRestoration, CarryOut, Claimable, RevertInv
<1>7. ASSUME NEW y \in Restoration, RejectRestoration(y)
      PROVE  RevertInv'
  BY <1>5, <1>7 DEF RejectRestoration, Refuse, Claimable, RefusedRevert, RevertInv
<1> QED
  BY <1>2, <1>3, <1>4, <1>6, <1>7 DEF Operators, RevertInv

LEMMA RevertStep ==
  ASSUME TypeOK, RevertInv, [Next]_vars
  PROVE  RevertInv'
<1>1. CASE /\ revert' = revert
           /\ approval' = approval \/ \E R : approval' = Queued(NextIsolations(R))
           /\ \A s \in Sweep : dueSeen'[s] \subseteq dueSeen[s]
  BY <1>1, RevertsKept, IsolationsQueued
<1>2. CASE UNCHANGED vars
  BY <1>1, <1>2 DEF vars, gate, reverts, sweeps
<1>3. CASE Surroundings
  BY <1>1, <1>3 DEF Surroundings, CreateByHand, CreateByEngine, FallDue, RunsAge, Toggle,
     gate, reverts, sweeps
<1>4. ASSUME NEW s \in Sweep, ReadOutbox(s) \/ CheckFirst(s) \/ DrainOutbox(s) \/ SweepDies(s)
      PROVE  RevertInv'
  BY <1>1, <1>4 DEF ReadOutbox, CheckFirst, DrainOutbox, SweepDies, gate, reverts, TypeOK
<1> QED
  BY <1>2, <1>3, <1>4, ReadRevertsSettled, QueueRevertsSettled, OperatorsSettled
     DEF Next, SweepStep

LEMMA NothingReverted == Init => RevertInv
<1> SUFFICES ASSUME Init, NEW x \in Isolation PROVE Settled(x)
  BY DEF RevertInv
<1>1. Used(x) = {} /\ Holders(x) = {} /\ revert[x] = "absent"
  BY NamesApart DEF Init, Used, Holders, Approval
<1> QED
  BY <1>1, FS_EmptySet, CopiesFinite
     DEF Settled, NotYet, Unqueued, Unscheduled, RoomForAll, Awaited

-----------------------------------------------------------------------------
(* The theorems.                                                              *)

LEMMA Inductive == Spec => [](IInv /\ SeenInv /\ RevertInv)
<1>1. Init => IInv /\ SeenInv /\ RevertInv
  BY InitInv, NothingReverted DEF Init, SeenInv
<1>2. IInv /\ SeenInv /\ RevertInv /\ [Next]_vars => IInv' /\ SeenInv' /\ RevertInv'
  BY NextInv, SeenStep, RevertStep DEF IInv
<1> QED
  BY <1>1, <1>2, PTL DEF Spec

\* The variables keep their types.
THEOREM PlaybookTypes == Spec => []TypeOK
<1>1. IInv => TypeOK
  BY DEF IInv
<1> QED
  BY <1>1, Inductive, PTL

\* However many operators decide an approval at once, its action is carried out
\* at most once, and never if it was not approved.
THEOREM ApprovalsAreDecidedOnce == Spec => []DecidedOnce
<1>1. IInv => DecidedOnce
  BY DEF IInv
<1> QED
  BY <1>1, Inductive, PTL

\* No case leaves the outbox before a sweep has taken it to the playbook, whatever
\* dies half-way and whatever is opened meanwhile.
THEOREM OutboxForgetsNothing == Spec => []NoCaseForgotten
<1>1. IInv => NoCaseForgotten
  BY DEF IInv
<1> QED
  BY <1>1, Inductive, PTL

\* Each trip of the rate limit is recorded by one request, though several may
\* have found the limit passed.
THEOREM LimitTripsOnce == Spec => []TrippedOnce
<1>1. IInv => TrippedOnce
  BY DEF IInv
<1> QED
  BY <1>1, Inductive, PTL

\* Reading the rate before the transaction costs at most one run for each sweep
\* that may be in progress: every sweep that still holds a "run" has one to come.
THEOREM RunsAreBounded == Spec => []RateBound
<1>1. IInv => RateBound
  <2> SUFFICES ASSUME IInv PROVE RateBound
    OBVIOUS
  <2>1. Cardinality(AtRun) \in Nat /\ Cardinality(Sweep) \in Nat
    BY SweepsFinite DEF AtRun
  <2> QED
    BY <2>1, PlaybookBounds DEF IInv, RateInv, RateBound, TypeOK
<1> QED
  BY <1>1, Inductive, PTL

\* A revert that waits for a decision has an approval pending to wait for, though
\* sweeps that overlap queue one each: for every sweep that has read the revert as
\* due there is an approval left, and a decided revert is never queued again but
\* by a sweep that still holds it.
THEOREM RevertsAreAwaited == Spec => []NoDanglingRevert
<1>1. RevertInv => NoDanglingRevert
  <2> SUFFICES ASSUME RevertInv, NEW x \in Isolation, revert[x] = "queued_for_approval"
               PROVE  \E y \in Restoration : RevertOf(y) = x /\ approval[y] = "pending"
    BY DEF NoDanglingRevert
  <2>1. PICK k \in Copy : approval[<<x[1], x[2], k>>] = "pending"
    BY DEF RevertInv, Settled, Awaited
  <2> QED
    BY <2>1, NamesApart
<1> QED
  BY <1>1, Inductive, PTL
=============================================================================
