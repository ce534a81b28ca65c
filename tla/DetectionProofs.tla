--------------------------- MODULE DetectionProofs ---------------------------
(* For every instance of Detection: a row is counted twice only if its cycle   *)
(* failed after the commit of its batch, an alert of an aggregation rule was   *)
(* earned, no match is in two of them, and the mark never passes a row that    *)
(* was not counted, unless a rule raised on it.  Then the hourly risk: bonuses  *)
(* and cases do not stack, and noise does not mislead the models.              *)
EXTENDS Detection, Risk, Integers, Sequences, SequenceTheorems, FiniteSetTheorems, TLAPS

Writing == {"written", "checked", "save"}

\* Ids are given out once, and the cycle stays within those given out.
RangeInv ==
    /\ \A i \in Present : i <= seq
    /\ mark <= seq
    /\ pc # "idle" => mark < upTo /\ upTo <= seq

\* While rules are matched, only matches of the batch are held, and all that the rules
\* that are through have matched, unless they raised on it.
FoundInv ==
    pc = "match" =>
        /\ \A f \in found : InBatch(f.id)
        /\ \A i \in Present : InBatch(i) =>
              \A r \in rows[i].hits \ todo :
                 (\E f \in found : f.rule = r /\ f.id = i) \/ <<r, i>> \in missed

\* After the commit: every row of the batch is counted for every rule it matches, unless
\* the rule raised on it.
WrittenInv ==
    pc \in Writing =>
        \A i \in Present : InBatch(i) =>
           \A r \in rows[i].hits : times[<<r, i>>] > 0 \/ <<r, i>> \in missed

\* Only rows behind the watermark, of the batch just committed, or of one whose
\* cycle failed after its commit have been counted at all.
CountedBehind ==
    \A r \in Rule, i \in LogId : times[<<r, i>>] > 0 =>
        i <= mark \/ i \in again \/ (pc \in Writing /\ InBatch(i))

IInv == /\ TypeOK /\ RangeInv /\ FoundInv /\ WrittenInv /\ CountedBehind
        /\ NothingSkipped /\ CountedOnce

-----------------------------------------------------------------------------
LEMMA InitInv == Init => IInv
<1> SUFFICES ASSUME Init PROVE IInv
  OBVIOUS
<1>1. 0 \in 0 .. MaxLog /\ 1 \in 1 .. MaxTries /\ 0 \in Time
  BY DetectionBounds DEF Time
<1>2. /\ rows \in [LogId -> Row \cup {None}]
      /\ cooled \in [AggRule \X Group -> Time \cup {Never}]
      /\ times \in [Rule \X LogId -> 0 .. 2]
  BY DEF Init
<1>3. TypeOK
  BY <1>1, <1>2 DEF Init, TypeOK
<1>4. Present = {} /\ \A r \in Rule, i \in LogId : times[<<r, i>>] = 0
  BY DEF Init, Present
<1> QED
  BY <1>3, <1>4 DEF Init, IInv, RangeInv, FoundInv, WrittenInv, CountedBehind,
     NothingSkipped, CountedOnce, Writing

\* A new row has an id above every watermark and every batch.
LEMMA IngestInv ==
  ASSUME IInv, NEW row \in Row, Ingest(row)
  PROVE  IInv'
<1> USE DEF IInv
<1>1. TypeOK'
  <2>1. seq' \in 0 .. MaxLog /\ rows' \in [LogId -> Row \cup {None}]
    <3>1. seq' \in 0 .. MaxLog
      BY DetectionBounds DEF TypeOK, Ingest, NextId
    <3>2. rows' \in [LogId -> Row \cup {None}]
      BY DEF TypeOK, Ingest
    <3> QED
      BY <3>1, <3>2
  <2>2. UNCHANGED <<agg, times, file, cycle, now, backup, again, missed>>
    BY DEF Ingest
  <2> QED
    BY <2>1, <2>2 DEF TypeOK, agg, file, cycle
<1>2. /\ seq + 1 \in LogId /\ seq' = seq + 1 /\ Present' = Present \cup {seq + 1}
      /\ \A i \in Present : rows'[i] = rows[i] /\ i # seq + 1
  BY DetectionBounds, DetectionNone DEF TypeOK, RangeInv, Ingest, NextId, LogId, Present
<1>3. UNCHANGED <<agg, times, file, cycle, now, backup,
                  again, missed>> /\ \A i : InBatch(i)' = InBatch(i)
  BY DEF Ingest, InBatch, file, cycle
<1>4. \A i \in Present' : (i <= mark \/ (pc # "idle" /\ InBatch(i))) => i \in Present
  BY <1>2 DEF TypeOK, RangeInv, InBatch, LogId, Present
<1>5. RangeInv'
  BY <1>2, <1>3 DEF TypeOK, RangeInv, file, cycle, LogId, Present
<1>6. FoundInv' /\ WrittenInv' /\ CountedBehind' /\ NothingSkipped' /\ CountedOnce'
  BY <1>2, <1>3, <1>4 DEF FoundInv, WrittenInv, CountedBehind, NothingSkipped,
     CountedOnce, file, cycle, Writing, TypeOK, LogId
<1> QED
  BY <1>1, <1>3, <1>5, <1>6

LEMMA RemoveInv ==
  ASSUME IInv, NEW S \in SUBSET Present, Remove(S)
  PROVE  IInv'
<1> USE DEF IInv
<1>1. TypeOK'
  BY DEF TypeOK, Remove, agg, file, cycle, LogId, Database
<1>2. Present' \subseteq Present /\ \A i \in Present' : rows'[i] = rows[i]
  BY DEF TypeOK, Remove, Present, LogId
<1>3. UNCHANGED <<seq, agg, times, file, cycle, now, backup, again, missed>> /\
      \A i : InBatch(i)' = InBatch(i)
  BY DEF Remove, InBatch, file, cycle
<1> QED
  BY <1>1, <1>2, <1>3 DEF RangeInv, FoundInv, WrittenInv, CountedBehind, NothingSkipped,
     CountedOnce, file, cycle, Writing

LEMMA CycleStartInv ==
  ASSUME IInv, CycleStart
  PROVE  IInv'
<1> USE DEF IInv
<1>1. PICK m \in Present : /\ IsMaxId(m) /\ m > mark
                           /\ upTo' = IF m < mark + Batch THEN m ELSE mark + Batch
  BY DEF CycleStart
<1>2. m \in LogId /\ m <= seq /\ mark \in Nat /\ seq \in Nat /\ Batch \in Nat \ {0}
  BY DetectionBounds DEF TypeOK, RangeInv, Present, LogId
<1>3. upTo' \in 0 .. MaxLog /\ mark < upTo' /\ upTo' <= seq
  <2>1. seq <= MaxLog /\ MaxLog \in Nat /\ m \in Nat /\ mark + Batch \in Nat
    BY <1>2, DetectionBounds DEF TypeOK, LogId
  <2>2. CASE m < mark + Batch
    BY <1>1, <1>2, <2>1, <2>2
  <2>3. CASE ~(m < mark + Batch)
    BY <1>1, <1>2, <2>1, <2>3
  <2> QED
    BY <2>2, <2>3
<1>4. /\ pc' = "match" /\ todo' = Rule /\ found' = {} /\ Present' = Present
      /\ UNCHANGED <<rows, seq, agg, times, file, tries, now, backup, again, missed>>
  BY DEF CycleStart, log, Present
<1>5. TypeOK'
  BY <1>3, <1>4 DEF TypeOK, agg, file
<1>6. RangeInv' /\ FoundInv' /\ WrittenInv'
  BY <1>3, <1>4 DEF TypeOK, RangeInv, FoundInv, WrittenInv, file, Writing,
                    Present, LogId, Row
<1>7. CountedBehind' /\ NothingSkipped' /\ CountedOnce'
  BY <1>4 DEF CycleStart, CountedBehind, NothingSkipped,
              CountedOnce, file, Writing
<1> QED
  BY <1>4, <1>5, <1>6, <1>7

\* A rule is through with the batch: what it matched is found or, if it raised, missed.
LEMMA RuleThrough ==
  ASSUME IInv, NEW r \in Rule, NEW F \in SUBSET Hits(r),
         pc = "match", todo' = todo \ {r}, found' = found \cup F,
         missed' = MissedOutside(r) \cup {<<r, f.id>> : f \in Hits(r) \ F},
         UNCHANGED <<log, agg, times, file, pc, upTo, tries, now, backup, again>>
  PROVE  IInv'
<1> USE DEF IInv
<1>1. /\ Present' = Present /\ UNCHANGED <<rows, mark>>
      /\ \A i : InBatch(i)' = InBatch(i)
  BY DEF Present, InBatch, log, file
<1>2. \A f \in Hits(r) : f \in [rule : Rule, id : LogId, group : Group] /\ InBatch(f.id)
  BY DetectionNone DEF Hits, TypeOK, Present, Row
<1>3. missed' \subseteq Rule \X LogId
  BY <1>2 DEF MissedOutside, TypeOK
<1>4. TypeOK'
  BY <1>1, <1>2, <1>3 DEF TypeOK, log, agg, file
<1>5. \A x \in missed : x \in missed' \/ InBatch(x[2])
  BY DEF MissedOutside
<1>6. RangeInv' /\ CountedBehind' /\ CountedOnce' /\ WrittenInv'
  BY <1>1 DEF RangeInv, CountedBehind, CountedOnce, WrittenInv, Writing, log, file
<1>7. NothingSkipped'
  <2>1. \A i \in Present : i <= mark => ~InBatch(i)
    BY DetectionBounds DEF InBatch, Present, TypeOK, LogId
  <2>2. \A s \in Rule, i \in LogId : <<s, i>> \in missed => <<s, i>> \in missed' \/ InBatch(i)
    BY <1>5
  <2>3. \A i \in Present : i \in LogId /\ rows[i].hits \subseteq Rule
    BY DetectionNone DEF TypeOK, Present, Row
  <2> QED
    BY <1>1, <2>1, <2>2, <2>3 DEF NothingSkipped
<1>8. ASSUME NEW i \in Present, InBatch(i), NEW s \in rows[i].hits \ todo'
      PROVE  (\E f \in found' : f.rule = s /\ f.id = i) \/ <<s, i>> \in missed'
  <2>1. CASE s = r
    <3> DEFINE hit == [rule |-> r, id |-> i, group |-> rows[i].group]
    <3>1. hit \in Hits(r) /\ hit.rule = s /\ hit.id = i
      BY <1>8, <2>1 DEF Hits
    <3>2. CASE hit \in F
      BY <3>1, <3>2
    <3>3. CASE hit \notin F
      BY <3>1, <3>3, <2>1
    <3> QED
      BY <3>2, <3>3
  <2>2. CASE s # r
    <3>1. (\E f \in found : f.rule = s /\ f.id = i) \/ <<s, i>> \in missed
      BY <1>8, <2>2 DEF FoundInv
    <3> QED
      BY <3>1, <2>2 DEF MissedOutside
  <2> QED
    BY <2>1, <2>2
<1>9. FoundInv'
  BY <1>1, <1>2, <1>8 DEF FoundInv
<1> QED
  BY <1>4, <1>6, <1>7, <1>9

LEMMA EvaluateRuleInv ==
  ASSUME IInv, NEW r \in Rule, EvaluateRule(r)
  PROVE  IInv'
<1>1. {<<r, f.id>> : f \in Hits(r) \ Hits(r)} = {}
  OBVIOUS
<1> QED
  BY <1>1, RuleThrough DEF EvaluateRule

LEMMA RuleFailsInv ==
  ASSUME IInv, NEW r \in Rule, RuleFails(r)
  PROVE  IInv'
BY RuleThrough DEF RuleFails

LEMMA WriteBatchInv ==
  ASSUME IInv, WriteBatch
  PROVE  IInv'
<1> USE DEF IInv
<1>1. /\ pc = "match" /\ todo = {} /\ pc' = "written" /\ found' = {} /\ Present' = Present
      /\ UNCHANGED <<rows, seq, cooled, aggAlerts, mark, torn, upTo, todo, tries, now,
                     backup, again, missed>>
  BY DEF WriteBatch, log, file, Present
<1>2. \A i : InBatch(i)' = InBatch(i)
  BY <1>1 DEF InBatch
<1>3. \A r \in Rule, i \in LogId :
         times'[<<r, i>>] = IF \E f \in found : f.rule = r /\ f.id = i
                            THEN Twice(times[<<r, i>>]) ELSE times[<<r, i>>]
  BY DEF WriteBatch
<1>4. \A r \in Rule, i \in LogId :
         /\ times[<<r, i>>] \in 0 .. 2
         /\ Twice(times[<<r, i>>]) \in 1 .. 2
         /\ Twice(times[<<r, i>>]) > 1 => times[<<r, i>>] > 0
  BY DEF TypeOK, Twice
<1>5. times' \in [Rule \X LogId -> 0 .. 2]
  <2>1. \A x \in Rule \X LogId : times[x] \in 0 .. 2 /\ Twice(times[x]) \in 0 .. 2
    BY DEF TypeOK, Twice
  <2> QED
    BY <2>1 DEF WriteBatch
<1>6. matches' \subseteq Match
  <2> DEFINE New == {[rule |-> f.rule, group |-> f.group, id |-> f.id, at |-> now,
                      try |-> tries] : f \in {g \in found : g.rule \in AggRule}}
  <2>1. New \subseteq Match
    BY DEF TypeOK, Match
  <2>2. matches' = matches \cup New
    BY DEF WriteBatch
  <2> QED
    BY <2>1, <2>2 DEF TypeOK
<1>7. TypeOK'
  BY <1>1, <1>5, <1>6 DEF TypeOK
<1>8. RangeInv' /\ FoundInv'
  BY <1>1 DEF RangeInv, FoundInv
<1>9. \A i \in Present : i \in LogId /\ rows[i].hits \subseteq Rule
  BY DetectionNone DEF TypeOK, Present, Row
<1>10. WrittenInv'
  BY <1>1, <1>2, <1>3, <1>4, <1>9 DEF WrittenInv, FoundInv
<1>11. NothingSkipped'
  BY <1>1, <1>3, <1>4, <1>9 DEF NothingSkipped
<1>12. CountedBehind'
  BY <1>1, <1>2, <1>3 DEF CountedBehind, FoundInv, Writing
<1>13. CountedOnce'
  <2> SUFFICES ASSUME NEW r \in Rule, NEW i \in LogId, times'[<<r, i>>] > 1, i \notin again
               PROVE  FALSE
    BY <1>1 DEF CountedOnce
  <2>1. (\E f \in found : f.rule = r /\ f.id = i) /\ times[<<r, i>>] > 0
    BY <1>3, <1>4 DEF CountedOnce
  <2>2. InBatch(i) /\ i <= mark
    BY <2>1, <1>1 DEF FoundInv, CountedBehind, Writing
  <2> QED
    BY <2>2 DEF InBatch, TypeOK, LogId
<1> QED
  BY <1>1, <1>7, <1>8, <1>10, <1>11, <1>12, <1>13

\* The aggregation check and the truncation move on without touching the rest.
LEMMA CheckThresholdsInv ==
  ASSUME IInv, CheckThresholds
  PROVE  IInv'
<1> USE DEF IInv
<1>1. /\ pc = "written" /\ pc' = "checked" /\ Present' = Present
      /\ UNCHANGED <<rows, seq, matches, times, mark, torn, upTo, todo, found, tries, now,
                     backup, again, missed>>
  BY DEF CheckThresholds, log, file, Present
<1>2. cooled' \in [AggRule \X Group -> Time \cup {Never}]
  BY DEF TypeOK, CheckThresholds, Checkable
<1>3. aggAlerts' \subseteq SUBSET Match
  BY DEF TypeOK, CheckThresholds, Counted
<1>4. TypeOK'
  BY <1>1, <1>2, <1>3 DEF TypeOK
<1> QED
  BY <1>1, <1>4 DEF RangeInv, FoundInv, WrittenInv, CountedBehind, NothingSkipped, CountedOnce,
     InBatch, Writing

LEMMA OpenStateInv ==
  ASSUME IInv, OpenState
  PROVE  IInv'
BY DEF IInv, OpenState, TypeOK, RangeInv, FoundInv, WrittenInv, CountedBehind, NothingSkipped,
   CountedOnce, InBatch, Writing, Present, log, agg

\* The watermark takes over what WrittenInv knows of the batch.
LEMMA SaveMarkInv ==
  ASSUME IInv, SaveMark
  PROVE  IInv'
<1> USE DEF IInv
<1>1. /\ pc = "save" /\ pc' = "idle" /\ mark' = upTo /\ tries' = 1 /\ upTo' = 0
      /\ torn' = FALSE
      /\ Present' = Present
      /\ UNCHANGED <<rows, seq, agg, times, todo, found, now, backup, again, missed>>
  BY DEF SaveMark, NewMark, log, Present
<1>2. mark \in Nat /\ upTo \in Nat /\ mark < upTo /\ upTo <= seq
  BY <1>1 DEF TypeOK, RangeInv
<1>3. \A i \in LogId : i <= mark' => i <= mark \/ InBatch(i)
  BY <1>1, <1>2 DEF InBatch, LogId
<1>4. \A i \in LogId : i <= mark \/ InBatch(i) => i <= mark'
  BY <1>1, <1>2 DEF InBatch, LogId
<1>5. TypeOK'
  <2>1. 1 \in 1 .. MaxTries /\ 0 \in 0 .. MaxLog
    BY DetectionBounds
  <2> QED
    BY <1>1, <2>1 DEF TypeOK, agg
<1>6. RangeInv' /\ FoundInv' /\ WrittenInv'
  BY <1>1, <1>2 DEF RangeInv, FoundInv, WrittenInv, Writing
<1>7. NothingSkipped'
  BY <1>1, <1>3 DEF NothingSkipped, WrittenInv, Writing, Present
<1>8. CountedBehind' /\ CountedOnce'
  BY <1>1, <1>4 DEF CountedBehind, CountedOnce, Writing
<1> QED
  BY <1>1, <1>5, <1>6, <1>7, <1>8

LEMMA CycleFailsInv ==
  ASSUME IInv, CycleFails
  PROVE  IInv'
<1> USE DEF IInv
<1>1. /\ pc' = "idle" /\ tries' = tries + 1 /\ upTo' = 0 /\ todo' = {} /\ found' = {}
      /\ tries < MaxTries /\ Present' = Present
      /\ UNCHANGED <<rows, seq, agg, times, mark, torn, now, backup, missed>>
  BY DEF CycleFails, log, file, Present
<1>2. again' \subseteq LogId /\ again \subseteq again'
  BY DEF CycleFails, TypeOK
<1>3. pc \in Writing => \A i \in LogId : InBatch(i) => i \in again'
  BY DEF CycleFails, Writing
<1>4. TypeOK'
  <2>1. tries' \in 1 .. MaxTries /\ upTo' \in 0 .. MaxLog
    BY <1>1, DetectionBounds DEF TypeOK
  <2> QED
    BY <1>1, <1>2, <2>1 DEF TypeOK, agg
<1>5. RangeInv' /\ FoundInv' /\ WrittenInv' /\ NothingSkipped'
  BY <1>1 DEF RangeInv, FoundInv, WrittenInv, NothingSkipped,
              Writing
<1>6. CountedBehind' /\ CountedOnce'
  BY <1>1, <1>2, <1>3 DEF CountedBehind, CountedOnce
<1> QED
  BY <1>1, <1>4, <1>5, <1>6

\* Time and the prune change nothing the watermark depends on.
LEMMA TickInv ==
  ASSUME IInv, Tick
  PROVE  IInv'
<1>1. now' \in Time
  BY DetectionBounds DEF IInv, TypeOK, Tick, Time
<1> QED
  BY <1>1 DEF IInv, Tick, TypeOK, RangeInv, FoundInv, WrittenInv, CountedBehind,
     NothingSkipped, CountedOnce, InBatch, Present, log, agg,
     file, cycle

LEMMA PruneInv ==
  ASSUME IInv, Prune
  PROVE  IInv'
BY DEF IInv, Prune, TypeOK, RangeInv, FoundInv, WrittenInv, CountedBehind, NothingSkipped,
   CountedOnce, InBatch, Present, log, file, cycle

LEMMA NextInv ==
  ASSUME IInv, [Next]_vars
  PROVE  IInv'
<1>1. CASE UNCHANGED vars
  BY <1>1 DEF IInv, vars, TypeOK, RangeInv, FoundInv, WrittenInv, CountedBehind,
     NothingSkipped, CountedOnce, InBatch, Present, log, agg,
     file, cycle
<1>2. CASE Appliance
  BY <1>2, IngestInv, RemoveInv, TickInv DEF Appliance
<1>3. CASE Cycle
  BY <1>3, CycleStartInv, WriteBatchInv, CheckThresholdsInv, OpenStateInv, SaveMarkInv,
     EvaluateRuleInv, RuleFailsInv DEF Cycle
<1> QED
  BY <1>1, <1>2, <1>3, CycleFailsInv, PruneInv DEF Next

LEMMA Inductive == Spec => []IInv
BY InitInv, NextInv, PTL DEF Spec

\* The engine "never skips logs", whatever fails in its cycles and whatever is
\* deleted under them, but for the rows that a rule raised on.
THEOREM WatermarkSkipsNothing == Spec => []NothingSkipped
<1>1. IInv => NothingSkipped
  BY DEF IInv
<1> QED
  BY <1>1, Inductive, PTL

\* Failing before the commit of a batch costs nothing; only a failure between the
\* commit and the watermark makes the engine count a row again.
THEOREM CountedTwiceOnlyAfterCommit == Spec => []CountedOnce
BY Inductive, PTL DEF IInv

\* The variables keep their types.
THEOREM DetectionTypes == Spec => []TypeOK
BY Inductive, PTL DEF IInv
-----------------------------------------------------------------------------
(* Aggregation alerts.  What an alert has counted stays covered by the marker  *)
(* it left until it has dropped out of the window.                            *)

Behind(m, r, g) == m.at <= cooled[<<r, g>>] \/ m.at < now - AggWindow
CoolInv ==
    /\ \A m \in matches : m.at <= now
    /\ \A A \in aggAlerts : \E r \in AggRule, g \in Group :
          \A m \in A : m.rule = r /\ m.group = g /\ Behind(m, r, g)

AlertInv == IInv /\ CoolInv /\ CountedInOneAlert

LEMMA CheckThresholdsAlerts ==
  ASSUME AlertInv, CheckThresholds
  PROVE  CoolInv' /\ CountedInOneAlert'
<1> USE DEF AlertInv
<1>0. PICK Q \in Checkable :
        LET D == {x \in Q \X Group : Crossed(x[1], x[2])}
        IN  /\ aggAlerts' = aggAlerts \cup {Counted(x[1], x[2]) : x \in D}
            /\ cooled' = [x \in AggRule \X Group |-> IF x \in D THEN now ELSE cooled[x]]
  BY DEF CheckThresholds
<1> DEFINE C == {x \in Q \X Group : Crossed(x[1], x[2])}
           New == {Counted(x[1], x[2]) : x \in C}
<1>1. /\ aggAlerts' = aggAlerts \cup New /\ matches' = matches /\ now' = now
      /\ \A x \in AggRule \X Group : cooled'[x] = IF x \in C THEN now ELSE cooled[x]
  BY <1>0 DEF CheckThresholds
<1>2. now \in Int /\ AggWindow \in Int /\
      aggAlerts \subseteq SUBSET Match /\ matches \subseteq Match
  BY DetectionBounds DEF IInv, TypeOK, Time
<1>3. \A x \in AggRule \X Group : cooled[x] \in Int
  BY DetectionBounds DEF IInv, TypeOK, Time, Never
<1>4. \A m \in Match : m.at \in Nat
  BY DEF Match, Time
<1>5. \A x \in C : x[1] \in AggRule /\ x[2] \in Group /\ x = <<x[1], x[2]>>
  BY DEF Checkable
<1>6. ASSUME NEW x \in C, NEW m \in Counted(x[1], x[2])
      PROVE  /\ m \in Match /\ m.rule = x[1] /\ m.group = x[2]
             /\ m.at <= now /\ m.at >= now - AggWindow
  BY <1>2, <1>6 DEF Counted, InWindow, CoolInv
<1>7. ASSUME NEW x \in C
      PROVE  cooled[x] = Never \/ cooled[x] < now - AggWindow
  BY <1>2, <1>3, <1>5, <1>7 DEF Crossed, Cooling, InWindow
<1>8. ASSUME NEW x \in C, NEW A \in aggAlerts
      PROVE  Counted(x[1], x[2]) \cap A = {}
  <2> SUFFICES ASSUME NEW m \in Counted(x[1], x[2]), m \in A PROVE FALSE
    OBVIOUS
  <2>1. m \in Match /\ m.rule = x[1] /\ m.group = x[2] /\ m.at >= now - AggWindow
    BY <1>6
  <2>2. Behind(m, x[1], x[2])
    BY <2>1, <1>8 DEF CoolInv
  <2>3. m.at <= cooled[x] \/ m.at < now - AggWindow
    BY <2>2, <1>5 DEF Behind
  <2> QED
    BY <2>1, <2>3, <1>2, <1>3, <1>4, <1>5, <1>7 DEF Never
<1>9. ASSUME NEW x \in C, NEW y \in C, x # y
      PROVE  Counted(x[1], x[2]) \cap Counted(y[1], y[2]) = {}
  BY <1>5, <1>9 DEF Counted
<1>10. CountedInOneAlert'
  <2> SUFFICES ASSUME NEW A \in aggAlerts \cup New, NEW B \in aggAlerts \cup New, A # B
               PROVE  A \cap B = {}
    BY <1>1 DEF CountedInOneAlert
  <2> QED
    BY <1>8, <1>9 DEF CountedInOneAlert
<1>11. ASSUME NEW A \in aggAlerts
       PROVE  \E r \in AggRule, g \in Group :
                 \A m \in A : m.rule = r /\ m.group = g /\ Behind(m, r, g)'
  <2>1. PICK r \in AggRule, g \in Group :
               \A m \in A : m.rule = r /\ m.group = g /\ Behind(m, r, g)
    BY <1>11 DEF CoolInv
  <2>2. cooled'[<<r, g>>] = cooled[<<r, g>>] \/ <<r, g>> \in C
    BY <1>1
  <2>3. \A m \in A : Behind(m, r, g)'
    <3> SUFFICES ASSUME NEW m \in A PROVE Behind(m, r, g)'
      OBVIOUS
    <3>1. m.at \in Nat /\ cooled[<<r, g>>] \in Int
      BY <1>2, <1>3, <1>4
    <3>2. CASE <<r, g>> \in C
      BY <3>1, <3>2, <2>1, <1>1, <1>2, <1>7 DEF Behind, Never
    <3>3. CASE cooled'[<<r, g>>] = cooled[<<r, g>>]
      BY <3>3, <2>1, <1>1 DEF Behind
    <3> QED
      BY <3>2, <3>3, <2>2
  <2> QED
    BY <2>1, <2>3
<1>12. ASSUME NEW x \in C
       PROVE  \A m \in Counted(x[1], x[2]) :
                 m.rule = x[1] /\ m.group = x[2] /\ Behind(m, x[1], x[2])'
  BY <1>1, <1>5, <1>6, <1>12 DEF Behind
<1>13. \A A \in aggAlerts' : \E r \in AggRule, g \in Group :
          \A m \in A : m.rule = r /\ m.group = g /\ Behind(m, r, g)'
  BY <1>1, <1>5, <1>11, <1>12
<1> QED
  BY <1>1, <1>10, <1>13 DEF CoolInv

\* A marker is pruned later than everything it covers has left the window.
LEMMA PruneAlerts ==
  ASSUME AlertInv, Prune
  PROVE  CoolInv' /\ CountedInOneAlert'
<1> USE DEF AlertInv
<1>1. /\ aggAlerts' = aggAlerts /\ matches' \subseteq matches /\ now' = now
      /\ \A x \in AggRule \X Group :
            cooled'[x] = cooled[x] \/ cooled[x] < now - 2 * AggWindow
  BY DetectionBounds DEF Prune, Retention, IInv, TypeOK, Time, Never
<1>2. /\ now \in Int /\ AggWindow \in Nat /\ aggAlerts \subseteq SUBSET Match
      /\ \A x \in AggRule \X Group : cooled[x] \in Int
      /\ \A m \in Match : m.at \in Int
  BY DetectionBounds DEF IInv, TypeOK, Match, Time, Never
<1>3. ASSUME NEW A \in aggAlerts, NEW m \in A, NEW r \in AggRule, NEW g \in Group,
             Behind(m, r, g)
      PROVE  Behind(m, r, g)'
  <2>1. m.at \in Int /\ cooled[<<r, g>>] \in Int
    BY <1>2
  <2> QED
    BY <1>1, <1>2, <1>3, <2>1 DEF Behind
<1> QED
  BY <1>1, <1>3 DEF CoolInv, CountedInOneAlert

LEMMA OtherAlerts ==
  ASSUME AlertInv, UNCHANGED <<cooled, aggAlerts>>,
         now' = now \/ now' = now + 1,
         \A m \in matches' \ matches : m.at = now /\ now' = now
  PROVE  CoolInv' /\ CountedInOneAlert'
<1> USE DEF AlertInv
<1>1. /\ now \in Int /\ now' \in Int /\ AggWindow \in Nat /\ matches \subseteq Match
      /\ aggAlerts \subseteq SUBSET Match /\ \A m \in Match : m.at \in Int
  BY DetectionBounds DEF IInv, TypeOK, Match, Time
<1>2. \A m \in matches' : m.at <= now'
  BY <1>1 DEF CoolInv
<1>3. ASSUME NEW A \in aggAlerts, NEW m \in A, NEW r \in AggRule, NEW g \in Group,
             Behind(m, r, g)
      PROVE  Behind(m, r, g)'
  BY <1>1, <1>3 DEF Behind
<1> QED
  BY <1>2, <1>3 DEF CoolInv, CountedInOneAlert

LEMMA NextAlerts ==
  ASSUME AlertInv, [Next]_vars
  PROVE  CoolInv' /\ CountedInOneAlert'
<1>1. CASE CheckThresholds
  BY <1>1, CheckThresholdsAlerts
<1>2. CASE Prune
  BY <1>2, PruneAlerts
<1>3. CASE WriteBatch
  <2>1. UNCHANGED <<cooled, aggAlerts, now>>
    BY <1>3 DEF WriteBatch
  <2>2. \A m \in matches' \ matches : m.at = now
    BY <1>3 DEF WriteBatch
  <2> QED
    BY <2>1, <2>2, OtherAlerts
<1>4. CASE Tick
  <2>1. UNCHANGED <<cooled, aggAlerts, matches>> /\ now' = now + 1
    BY <1>4 DEF Tick, agg
  <2> QED
    BY <2>1, OtherAlerts
<1>5. CASE UNCHANGED <<agg, now>>
  BY <1>5, OtherAlerts DEF agg
<1>6. \/ CheckThresholds \/ Prune \/ WriteBatch \/ Tick \/ UNCHANGED <<agg, now>>
  BY DEF Next, vars, Appliance, Cycle, Ingest, Remove, CycleStart, OpenState, SaveMark,
     EvaluateRule, RuleFails, CycleFails, AlertInv, IInv
<1> QED
  BY <1>1, <1>2, <1>3, <1>4, <1>5, <1>6

\* No match is counted in two alerts: the cooldown of a rule and group outlives
\* everything its last alert counted, and pruning never lifts it early.
THEOREM AlertsShareNoMatch == Spec => []CountedInOneAlert
<1>1. Init => AlertInv
  BY InitInv DEF Init, AlertInv, CoolInv, CountedInOneAlert
<1>2. AlertInv /\ [Next]_vars => AlertInv'
  BY NextInv, NextAlerts DEF AlertInv
<1>3. AlertInv => CountedInOneAlert
  BY DEF AlertInv
<1> QED
  BY <1>1, <1>2, <1>3, PTL DEF Spec

-----------------------------------------------------------------------------
(* Earned alerts.  Matches of one rule and group that share an event are of a  *)
(* batch that was read again.                                                 *)

MatchesBehind ==
    \A m \in matches : m.id <= mark \/ m.id \in again \/ (pc \in Writing /\ InBatch(m.id))
OneMatchEach ==
    \A m, n \in matches :
        m.rule = n.rule /\ m.group = n.group /\ m.id = n.id /\ m # n => m.id \in again
EarnedInv == AlertInv /\ MatchesBehind /\ OneMatchEach /\ ThresholdEarned

\* As many events as matches, if no two matches share one.
LEMMA IdsOf ==
  ASSUME NEW A \in SUBSET Match, \A m, n \in A : m.id = n.id => m = n
  PROVE  Cardinality(Ids(A)) = Cardinality(A)
<1> DEFINE f == [m \in A |-> m.id]
<1>1. f \in Injection(A, LogId) /\ f \in Injection(A, Ids(A)) /\ f \in Surjection(A, Ids(A))
  BY DEF Injection, Surjection, IsInjective, Ids, Match
<1>2. IsFiniteSet(LogId)
  BY DetectionBounds, FS_Interval DEF LogId
<1>3. IsFiniteSet(A)
  BY <1>1, <1>2, FS_Injection
<1> QED
  BY <1>1, <1>3, FS_Surjection

LEMMA WriteBatchEarned ==
  ASSUME EarnedInv, WriteBatch
  PROVE  MatchesBehind' /\ OneMatchEach' /\ ThresholdEarned'
<1> DEFINE new == {[rule |-> h.rule, group |-> h.group, id |-> h.id, at |-> now,
                    try |-> tries] :
                     h \in {g \in found : g.rule \in AggRule}}
<1>1. /\ pc = "match" /\ pc' \in Writing /\ matches' = matches \cup new
      /\ UNCHANGED <<mark, upTo, again, aggAlerts>>
  BY DEF WriteBatch, file, Writing
<1>2. \A m \in new : mark < m.id /\ m.id <= upTo /\ m.at = now /\ m.try = tries
  BY <1>1 DEF EarnedInv, AlertInv, IInv, FoundInv, InBatch
<1>3. \A m, n \in new : m.rule = n.rule /\ m.group = n.group /\ m.id = n.id => m = n
  OBVIOUS
<1> HIDE DEF new
<1>4. MatchesBehind'
  BY <1>1, <1>2 DEF EarnedInv, MatchesBehind, InBatch, Writing
<1>5. ASSUME NEW m \in matches, NEW n \in new, m.id = n.id
      PROVE  m.id \in again
  <2>1. m.id \in LogId /\ mark \in Int
    BY DetectionBounds DEF EarnedInv, AlertInv, IInv, TypeOK, Match
  <2>2. m.id <= mark \/ m.id \in again
    BY <1>1 DEF EarnedInv, MatchesBehind, Writing
  <2> QED
    BY <1>2, <1>5, <2>1, <2>2 DEF LogId
<1>6. OneMatchEach'
  BY <1>1, <1>3, <1>5 DEF EarnedInv, OneMatchEach
<1> QED
  BY <1>1, <1>4, <1>6 DEF EarnedInv, ThresholdEarned

LEMMA CheckThresholdsEarned ==
  ASSUME EarnedInv, CheckThresholds
  PROVE  MatchesBehind' /\ OneMatchEach' /\ ThresholdEarned'
<1>1. PICK Q \in Checkable :
        aggAlerts' = aggAlerts \cup
          {Counted(x[1], x[2]) : x \in {y \in Q \X Group : Crossed(y[1], y[2])}}
  BY DEF CheckThresholds
<1>2. UNCHANGED <<matches, mark, upTo, again, now>> /\ pc \in Writing /\ pc' \in Writing
  BY DEF CheckThresholds, file, Writing
<1>3. MatchesBehind' /\ OneMatchEach'
  BY <1>2 DEF EarnedInv, MatchesBehind, OneMatchEach, InBatch
<1>4. ASSUME NEW r, NEW g, Crossed(r, g), Ids(Counted(r, g)) \cap again = {}
      PROVE  Cardinality(Ids(Counted(r, g))) >= Threshold
  <2>1. Counted(r, g) \in SUBSET Match
    BY DEF Counted, EarnedInv, AlertInv, IInv, TypeOK
  <2>2. \A m, n \in Counted(r, g) : m.id = n.id => m = n
    BY <1>4 DEF Counted, Ids, EarnedInv, OneMatchEach
  <2> QED
    BY <1>4, <2>1, <2>2, IdsOf DEF Crossed
<1>5. ASSUME NEW r, NEW g, NEW m \in Counted(r, g), NEW n \in Counted(r, g)
      PROVE  m.at - n.at <= AggWindow
  <2>1. m.at \in Int /\ n.at \in Int /\ now \in Int /\ AggWindow \in Int
    BY DetectionBounds DEF Counted, EarnedInv, AlertInv, IInv, TypeOK, Match, Time
  <2>2. m.at <= now /\ n.at >= now - AggWindow
    BY DEF Counted, InWindow, EarnedInv, AlertInv, CoolInv
  <2> QED
    BY <2>1, <2>2
<1>6. ThresholdEarned'
  BY <1>1, <1>2, <1>4, <1>5 DEF EarnedInv, ThresholdEarned
<1> QED
  BY <1>3, <1>6

\* The watermark passes a whole batch; a cycle that fails leaves it to be read again.
LEMMA BatchEndsEarned ==
  ASSUME EarnedInv, SaveMark \/ CycleFails
  PROVE  MatchesBehind' /\ OneMatchEach' /\ ThresholdEarned'
<1>1. UNCHANGED <<matches, aggAlerts>> /\ again \subseteq again'
  BY DEF SaveMark, CycleFails, agg
<1>2. OneMatchEach' /\ ThresholdEarned'
  BY <1>1 DEF EarnedInv, OneMatchEach, ThresholdEarned
<1>3. \A m \in matches : m.id \in LogId
  BY DEF EarnedInv, AlertInv, IInv, TypeOK, Match
<1>4. MatchesBehind'
  <2>1. CASE SaveMark
    <3>1. mark' = upTo /\ again' = again /\ mark < upTo /\ mark \in Int /\ upTo \in Int
      BY <2>1, DetectionBounds DEF SaveMark, NewMark, EarnedInv, AlertInv, IInv, RangeInv,
                                   TypeOK
    <3> QED
      BY <1>1, <1>3, <3>1, DetectionBounds DEF EarnedInv, MatchesBehind, InBatch, LogId
  <2>2. CASE CycleFails
    BY <1>1, <1>3, <2>2 DEF CycleFails, EarnedInv, MatchesBehind, file, Writing,
       AlertInv, IInv, TypeOK
  <2> QED
    BY <2>1, <2>2
<1> QED
  BY <1>2, <1>4

LEMMA NextEarned ==
  ASSUME EarnedInv, [Next]_vars
  PROVE  MatchesBehind' /\ OneMatchEach' /\ ThresholdEarned'
<1>1. ASSUME matches' \subseteq matches,
             UNCHANGED <<aggAlerts, mark, again>>,
             \/ UNCHANGED <<pc, upTo>>
             \/ pc = "idle"
             \/ UNCHANGED upTo /\ (pc' \in Writing \/ pc \notin Writing)
      PROVE  MatchesBehind' /\ OneMatchEach' /\ ThresholdEarned'
  BY <1>1 DEF EarnedInv, MatchesBehind, OneMatchEach, ThresholdEarned, InBatch, Writing
<1>2. CASE Prune \/ Appliance \/ UNCHANGED vars
  BY <1>1, <1>2 DEF Prune, Appliance, Ingest, Remove, Tick, vars, agg, file, cycle
<1>3. CASE CycleStart \/ OpenState \/ \E r \in Rule : EvaluateRule(r) \/ RuleFails(r)
  BY <1>1, <1>3 DEF CycleStart, OpenState, EvaluateRule, RuleFails, agg, file, Writing
<1> QED
  BY <1>2, <1>3, WriteBatchEarned, CheckThresholdsEarned, BatchEndsEarned
     DEF Next, Cycle

\* An aggregation alert stands for as many different events as its rule asks for, all
\* within the rule's timeframe, unless some were read again after a failed cycle, and no
\* match is in two alerts (AlertsEarned): _check_aggregation_thresholds counts matches,
\* which are one to an event only while no batch is repeated.
THEOREM AlertsAreEarned == Spec => []AlertsEarned
<1>1. Init => EarnedInv
  <2>1. Init => AlertInv
    BY InitInv DEF Init, AlertInv, CoolInv, CountedInOneAlert
  <2> QED
    BY <2>1 DEF Init, EarnedInv, MatchesBehind, OneMatchEach, ThresholdEarned
<1>2. EarnedInv /\ [Next]_vars => EarnedInv'
  BY NextInv, NextAlerts, NextEarned DEF EarnedInv, AlertInv
<1>3. EarnedInv => AlertsEarned
  BY DEF EarnedInv, AlertInv, AlertsEarned
<1> QED
  BY <1>1, <1>2, <1>3, PTL DEF Spec

-----------------------------------------------------------------------------
(* The hourly cycle of risk: a window between two bonuses, a cooldown between   *)
(* two cases.  The rows of both are looked up in the step that adds them.      *)

CycleTyped ==
    /\ cycleNow \in Nat /\ cycleLastCase \in Int
    /\ cycleOpened \in Seq(Nat)
    /\ \A e \in cycleEvents : e.at \in Nat /\ e.at <= cycleNow

\* The row in the log is the latest case's.
Latest ==
    \A i \in DOMAIN cycleOpened :
        /\ cycleLastCase # Cycling!Never
        /\ cycleOpened[i] <= cycleLastCase
OneCaseEach ==
    \A i, j \in DOMAIN cycleOpened : i < j => cycleOpened[j] - cycleOpened[i] > CaseCooldown
OneConvergence ==
    \A e, f \in Cycling!Of(cycleEvents, "multi_signal_convergence") :
        Cycling!Apart(e.at, f.at, ConvergenceWindow)
OneProgression ==
    \A e, f \in Cycling!Of(cycleEvents, "sequence_chain_progression") :
        e.rule = f.rule => Cycling!Apart(e.at, f.at, ChainWindow)

CycleInv == CycleTyped /\ Latest /\ OneCaseEach /\ OneConvergence /\ OneProgression

LEMMA CycleInitially == Cycling!Init => CycleInv
BY DEF Cycling!Init, CycleInv, CycleTyped, Latest, OneCaseEach, OneConvergence,
       OneProgression, Cycling!Of, Cycling!Never

LEMMA CycleIdles ==
    ASSUME CycleInv, cycleNow' \in Nat, cycleNow' >= cycleNow,
           UNCHANGED <<cycleEvents, cycleLastCase, cycleOpened>>
    PROVE  CycleInv'
BY DEF CycleInv, CycleTyped, Latest, OneCaseEach, OneConvergence, OneProgression,
       Cycling!Of, Cycling!Apart

\* New events are of this hour; bonuses among them stand alone in their window.
LEMMA NewEventsKeep ==
    ASSUME CycleInv, UNCHANGED <<cycleNow, cycleLastCase, cycleOpened>>, NEW new,
           cycleEvents' = cycleEvents \cup new,
           \A e \in new : e.at = cycleNow,
           \A e \in new, f \in cycleEvents :
               /\ e.indicator = "multi_signal_convergence"
                  /\ f.indicator = "multi_signal_convergence"
                    => cycleNow - f.at > ConvergenceWindow
               /\ e.indicator = "sequence_chain_progression"
                  /\ f.indicator = "sequence_chain_progression" /\ e.rule = f.rule
                    => cycleNow - f.at > ChainWindow
    PROVE  CycleInv'
<1>1. CycleTyped'  BY DEF CycleInv, CycleTyped
<1>2. Latest' /\ OneCaseEach'  BY DEF CycleInv, Latest, OneCaseEach
<1>3. OneConvergence'
  <2> SUFFICES ASSUME NEW e \in cycleEvents \cup new, NEW f \in cycleEvents \cup new,
                      e.indicator = "multi_signal_convergence",
                      f.indicator = "multi_signal_convergence", e.at < f.at
               PROVE  f.at - e.at > ConvergenceWindow
    BY DEF OneConvergence, Cycling!Of, Cycling!Apart
  <2>1. e \in cycleEvents  BY DEF CycleInv, CycleTyped
  <2>2. CASE f \in cycleEvents
    BY <2>1, <2>2 DEF CycleInv, OneConvergence, Cycling!Of, Cycling!Apart
  <2>3. CASE f \in new  BY <2>1, <2>3
  <2> QED  BY <2>2, <2>3
<1>4. OneProgression'
  <2> SUFFICES ASSUME NEW e \in cycleEvents \cup new, NEW f \in cycleEvents \cup new,
                      e.indicator = "sequence_chain_progression",
                      f.indicator = "sequence_chain_progression",
                      e.rule = f.rule, e.at < f.at
               PROVE  f.at - e.at > ChainWindow
    BY DEF OneProgression, Cycling!Of, Cycling!Apart
  <2>1. e \in cycleEvents  BY DEF CycleInv, CycleTyped
  <2>2. CASE f \in cycleEvents
    BY <2>1, <2>2 DEF CycleInv, OneProgression, Cycling!Of, Cycling!Apart
  <2>3. CASE f \in new  BY <2>1, <2>3
  <2> QED  BY <2>2, <2>3
<1> QED  BY <1>1, <1>2, <1>3, <1>4 DEF CycleInv

LEMMA RunModelsKeeps ==
    ASSUME CycleInv, Cycling!RiskCycleBounds, NEW finds \in SUBSET Models,
           Cycling!RunModels(finds)
    PROVE  CycleInv'
<1> DEFINE new == IF "models" \in cycleSettings
                  THEN {Cycling!Event(m, 0, 0) : m \in finds} ELSE {}
<1>1. \A e \in new : e.at = cycleNow /\ e.indicator \notin Cycling!Bonuses
  BY DEF Cycling!Event, Cycling!RiskCycleBounds
<1>2. UNCHANGED <<cycleNow, cycleLastCase,
                  cycleOpened>> /\ cycleEvents' = cycleEvents \cup new
  BY DEF Cycling!RunModels
<1> HIDE DEF new
<1> QED  BY <1>1, <1>2, NewEventsKeep DEF Cycling!Bonuses

LEMMA ScoreAlertsKeeps ==
    ASSUME CycleInv, Cycling!RiskCycleBounds, Cycling!ScoreAlerts  PROVE  CycleInv'
<1> DEFINE new == UNION {Cycling!Scored(i) : i \in cycleMark + 1 .. Len(cycleAlerts)}
<1>1. \A i : \A e \in Cycling!Scored(i) :
         /\ e.at = cycleNow /\ e.indicator # "multi_signal_convergence"
         /\ e.indicator = "sequence_chain_progression" =>
               e.rule = cycleAlerts[i] /\ Cycling!Progresses(cycleAlerts[i])
  BY DEF Cycling!Scored, Cycling!Event
<1>2. \A e \in new :
         /\ e.at = cycleNow /\ e.indicator # "multi_signal_convergence"
         /\ e.indicator = "sequence_chain_progression" => Cycling!Progresses(e.rule)
  BY <1>1
<1>3. UNCHANGED <<cycleNow, cycleLastCase,
                  cycleOpened>> /\ cycleEvents' = cycleEvents \cup new
  BY DEF Cycling!ScoreAlerts
<1>4. \A e \in new, f \in cycleEvents :
          e.indicator = "sequence_chain_progression"
            /\ f.indicator = "sequence_chain_progression" /\ e.rule = f.rule
          => cycleNow - f.at > ChainWindow
  <2> SUFFICES ASSUME NEW e \in new, NEW f \in cycleEvents,
                      e.indicator = "sequence_chain_progression",
                      f.indicator = "sequence_chain_progression", e.rule = f.rule
               PROVE  cycleNow - f.at > ChainWindow
    OBVIOUS
  <2>1. Cycling!Progresses(e.rule)  BY <1>2
  <2>2. ~(f.at >= cycleNow - ChainWindow)
    BY <2>1 DEF Cycling!Progresses, Cycling!Of, Cycling!Within
  <2> QED  BY <2>2 DEF CycleInv, CycleTyped, Cycling!RiskCycleBounds
<1> HIDE DEF new
<1> QED  BY <1>2, <1>3, <1>4, NewEventsKeep

LEMMA ConvergeKeeps ==
    ASSUME CycleInv, Cycling!RiskCycleBounds, Cycling!Converge  PROVE  CycleInv'
<1>1. UNCHANGED <<cycleNow, cycleLastCase, cycleOpened>>  BY DEF Cycling!Converge
<1>2. CASE Cycling!Converges
  <2> DEFINE new == {Cycling!Event("multi_signal_convergence", 0, 0)}
  <2>1. \A e \in new : e.at = cycleNow /\ e.indicator = "multi_signal_convergence"
    BY DEF Cycling!Event
  <2>2. cycleEvents' = cycleEvents \cup new  BY <1>2 DEF Cycling!Converge
  <2>3. \A f \in cycleEvents : f.indicator = "multi_signal_convergence" =>
                cycleNow - f.at > ConvergenceWindow
    BY <1>2 DEF Cycling!Converges, Cycling!Of, Cycling!Within, CycleInv, CycleTyped,
                Cycling!RiskCycleBounds
  <2> HIDE DEF new
  <2> QED  BY <1>1, <2>1, <2>2, <2>3, NewEventsKeep
<1>3. CASE ~Cycling!Converges
  BY <1>1, <1>3, CycleIdles DEF Cycling!Converge, CycleInv, CycleTyped
<1> QED  BY <1>2, <1>3

LEMMA OpenCaseKeeps ==
    ASSUME CycleInv, Cycling!RiskCycleBounds, Cycling!OpenCase  PROVE  CycleInv'
<1>1. UNCHANGED <<cycleNow, cycleEvents>>  BY DEF Cycling!OpenCase
<1>2. CASE UNCHANGED <<cycleOpened, cycleLastCase>>
  BY <1>1, <1>2, CycleIdles DEF CycleInv, CycleTyped
<1>3. CASE /\ cycleOpened' = Append(cycleOpened, cycleNow) /\ cycleLastCase' = cycleNow
           /\ cycleLastCase = Cycling!Never \/ cycleLastCase < cycleNow - CaseCooldown
  <2>1. /\ DOMAIN cycleOpened' = 1 .. Len(cycleOpened) + 1
        /\ DOMAIN cycleOpened = 1 .. Len(cycleOpened) /\ Len(cycleOpened) \in Nat
        /\ cycleOpened'[Len(cycleOpened) + 1] = cycleNow
        /\ \A i \in DOMAIN cycleOpened :
               /\ cycleOpened'[i] = cycleOpened[i] /\ cycleOpened[i] \in Nat
               /\ cycleNow - cycleOpened[i] > CaseCooldown
    <3>1. cycleOpened \in Seq(Nat) /\ cycleNow \in Nat  BY DEF CycleInv, CycleTyped
    <3>2. \A i \in DOMAIN cycleOpened :
              cycleOpened[i] \in Nat /\ cycleNow - cycleOpened[i] > CaseCooldown
      <4> SUFFICES ASSUME NEW i \in DOMAIN cycleOpened
                   PROVE  cycleOpened[i] \in Nat /\ cycleNow - cycleOpened[i] > CaseCooldown
        OBVIOUS
      <4>1. cycleOpened[i] \in Nat /\ cycleLastCase \in Int /\ CaseCooldown \in Nat
        BY <3>1 DEF CycleInv, CycleTyped, Cycling!RiskCycleBounds
      <4>2. cycleOpened[i] <= cycleLastCase /\ cycleLastCase < cycleNow - CaseCooldown
        BY <1>3 DEF CycleInv, Latest
      <4> QED  BY <3>1, <4>1, <4>2
    <3> QED  BY <1>3, <3>1, <3>2
  <2>2. CycleTyped'  BY <1>1, <1>3 DEF CycleInv, CycleTyped
  <2>3. Latest'
    <3>1. cycleNow \in Nat /\ CaseCooldown \in Nat /\ cycleLastCase' = cycleNow
      BY <1>3 DEF CycleInv, CycleTyped, Cycling!RiskCycleBounds
    <3>2. \A i \in DOMAIN cycleOpened' : cycleOpened'[i] <= cycleNow
      BY <2>1, <3>1
    <3> QED  BY <3>1, <3>2 DEF Latest, Cycling!Never
  <2>4. OneCaseEach'  BY <1>3, <2>1 DEF CycleInv, OneCaseEach
  <2>5. OneConvergence' /\ OneProgression'
    BY <1>1 DEF CycleInv, OneConvergence, OneProgression
  <2> QED  BY <2>2, <2>3, <2>4, <2>5 DEF CycleInv
<1> QED  BY <1>2, <1>3 DEF Cycling!OpenCase, Cycling!LogRow

LEMMA CycleStepKeeps ==
    ASSUME CycleInv, Cycling!RiskCycleBounds,  [Cycling!Next]_(Cycling!vars)
    PROVE  CycleInv'
<1>1. CASE UNCHANGED Cycling!vars
  BY <1>1, CycleIdles DEF Cycling!vars, CycleInv, CycleTyped
<1>2. CASE \/ Cycling!Tick \/ Cycling!Dies
           \/ \E x \in Switches : Cycling!Toggle(x)
           \/ \E stage \in 0 .. Stages : Cycling!Alert(stage)
           \/ \E verdict \in BOOLEAN : Cycling!Prioritise(verdict)
  BY <1>2, CycleIdles DEF Cycling!Tick, Cycling!Dies, Cycling!Toggle, Cycling!Alert,
         Cycling!Prioritise, CycleInv, CycleTyped
<1>3. CASE \E finds \in SUBSET Models : Cycling!RunModels(finds)
  BY <1>3, RunModelsKeeps
<1> QED
  BY <1>1, <1>2, <1>3, ScoreAlertsKeeps, ConvergeKeeps, OpenCaseKeeps DEF Cycling!Next

\* One case for each cooldown, one convergence bonus and one bonus for a stage reached
\* for each window, whatever hours die or are switched off.
THEOREM BonusesNeverStack ==
    ASSUME Cycling!RiskCycleBounds
    PROVE  Cycling!Spec => []Cycling!NeverStacked
<1>1. Cycling!Init => CycleInv  BY CycleInitially
<1>2. CycleInv /\ [Cycling!Next]_(Cycling!vars) => CycleInv'  BY CycleStepKeeps
<1>3. CycleInv => Cycling!NeverStacked
  BY DEF CycleInv, OneCaseEach, OneConvergence, OneProgression, Cycling!NeverStacked
<1> QED  BY <1>1, <1>2, <1>3, PTL DEF Cycling!Spec

-----------------------------------------------------------------------------
(* The models that judge.  The places of a pool are known by their rank, and a  *)
(* median by the ranks of what is below it: neither sums nor folds are unrolled. *)

\* The operators of FiniteSets are the same within the models of Judging.
LEMMA SameCardinality == \A S : Judging!Cardinality(S) = Cardinality(S)
BY DEF Judging!Cardinality, Cardinality

LEMMA SameFinite == \A S : Judging!IsFiniteSet(S) <=> IsFiniteSet(S)
BY DEF Judging!IsFiniteSet, IsFiniteSet

\* Every rank up to the size of a finite set of integers has its one element.
LEMMA NthIsRanked ==
    ASSUME NEW I \in SUBSET Int, IsFiniteSet(I), NEW k \in 1 .. Cardinality(I)
    PROVE  /\ Judging!Nth(I, k) \in I
           /\ Cardinality({j \in I : j <= Judging!Nth(I, k)}) = k
           /\ \A i \in I : Cardinality({j \in I : j <= i}) = k => i = Judging!Nth(I, k)
<1> DEFINE atMost(i) == {j \in I : j <= i}
           n == Cardinality(I)
           rank == [i \in I |-> Cardinality(atMost(i))]
<1>1. \A i \in I : IsFiniteSet(atMost(i)) /\ rank[i] \in 1 .. n
  <2> SUFFICES ASSUME NEW i \in I  PROVE IsFiniteSet(atMost(i)) /\ rank[i] \in 1 .. n
    OBVIOUS
  <2>1. atMost(i) \in SUBSET I /\ i \in atMost(i)  OBVIOUS
  <2>2. IsFiniteSet(atMost(i)) /\ Cardinality(atMost(i)) <= n  BY <2>1, FS_Subset
  <2>3. Cardinality(atMost(i)) \in Nat \ {0}
    BY <2>1, <2>2, FS_CardinalityType, FS_EmptySet
  <2>4. n \in Nat  BY FS_CardinalityType
  <2> QED  BY <2>2, <2>3, <2>4
<1>2. ASSUME NEW i \in I, NEW m \in I, i < m  PROVE rank[i] # rank[m]
  <2>1. \A j \in Int : j <= i => j <= m  BY <1>2
  <2>2. ~(m <= i) /\ m <= m  BY <1>2
  <2>3. atMost(i) \in SUBSET atMost(m) /\ m \in atMost(m) /\ m \notin atMost(i)
    BY <2>1, <2>2
  <2> QED  BY <2>3, <1>1, FS_Subset
<1>3. rank \in Injection(I, 1 .. n)
  <2>1. \A i, m \in I : i # m => i < m \/ m < i  OBVIOUS
  <2> QED  BY <1>1, <1>2, <2>1 DEF Injection, IsInjective
<1>4. IsFiniteSet(1 .. n) /\ Cardinality(1 .. n) = n
  BY FS_CardinalityType, FS_Interval
<1>5. rank \in Surjection(I, 1 .. n)
  BY <1>3, <1>4, FS_Injection
<1>6. PICK i \in I : rank[i] = k
  BY <1>5 DEF Surjection
<1>7. \A m \in I : Cardinality(atMost(m)) = k => m = i
  BY <1>3, <1>6 DEF Injection, IsInjective
<1> HIDE DEF rank
<1>8. Cardinality(atMost(i)) = k  BY <1>6 DEF rank
<1> QED  BY <1>7, <1>8, SameCardinality DEF Judging!Nth

\* What all but one entry of a pool are is each of its middle entries.
LEMMA MiddleIsUsual ==
    ASSUME NEW n \in Nat, NEW s \in [1 .. n -> Int], NEW c \in Int,
           Cardinality({i \in 1 .. n : s[i] # c}) <= 1, NEW k \in 2 .. n - 1
    PROVE  Judging!Kth(s, k) = c
<1> DEFINE Other == {i \in 1 .. n : s[i] # c}
           Usual == (1 .. n) \ Other
           below(x) == {i \in DOMAIN s : s[i] < x}
           atMost(x) == {i \in DOMAIN s : s[i] <= x}
<1>1. IsFiniteSet(1 .. n) /\ Cardinality(1 .. n) = n  BY FS_Interval
<1>2. Other \in SUBSET (1 .. n) /\ Usual \in SUBSET (1 .. n)  OBVIOUS
<1>3. /\ IsFiniteSet(Other) /\ Cardinality(Other) \in 0 .. 1
  BY <1>1, <1>2, FS_Subset, FS_CardinalityType
<1>4. IsFiniteSet(Usual) /\ Cardinality(Usual) >= n - 1
  <2>1. (1 .. n) \cap Other = Other  OBVIOUS
  <2> HIDE DEF Other
  <2>2. Cardinality(Usual) = n - Cardinality(Other)
    BY <1>1, <1>3, <2>1, FS_Difference
  <2>3. IsFiniteSet(Usual)  BY <1>1, <1>2, FS_Subset
  <2> QED  BY <1>3, <2>2, <2>3
<1>5. \A S \in SUBSET Other : Cardinality(S) < k
  <2> SUFFICES ASSUME NEW S \in SUBSET Other  PROVE Cardinality(S) < k
    OBVIOUS
  <2>1. Cardinality(S) \in Nat /\ Cardinality(S) <= Cardinality(Other)
    BY <1>3, FS_Subset, FS_CardinalityType
  <2> HIDE DEF Other
  <2> QED  BY <1>3, <2>1
<1>6. \A S \in SUBSET (1 .. n) : Usual \subseteq S => Cardinality(S) >= k
  <2> SUFFICES ASSUME NEW S \in SUBSET (1 .. n), Usual \in SUBSET S
               PROVE  Cardinality(S) >= k
    OBVIOUS
  <2>1. Cardinality(S) \in Nat /\ Cardinality(Usual) <= Cardinality(S)
    BY <1>1, FS_Subset, FS_CardinalityType
  <2>2. Cardinality(Usual) \in Nat  BY <1>4, FS_CardinalityType
  <2> HIDE DEF Usual
  <2> QED  BY <1>4, <2>1, <2>2
<1>7. Usual # {}
  <2>1. Cardinality(Usual) # 0
    <3>1. Cardinality(Usual) \in Nat  BY <1>4, FS_CardinalityType
    <3> HIDE DEF Usual
    <3> QED  BY <1>4, <3>1
  <2> QED  BY <2>1, FS_EmptySet
<1>8. Cardinality(below(c)) < k
  <2>1. below(c) \in SUBSET Other  OBVIOUS
  <2> QED  BY <1>5, <2>1
<1>9. Cardinality(atMost(c)) >= k
  <2>1. Usual \subseteq atMost(c) /\ atMost(c) \in SUBSET (1 .. n)  OBVIOUS
  <2> QED  BY <1>6, <2>1
<1>10. ASSUME NEW x \in {s[i] : i \in DOMAIN s}, Cardinality(below(x)) < k,
              Cardinality(atMost(x)) >= k
       PROVE  x = c
  <2>1. x \in Int  OBVIOUS
  <2>2. CASE x < c
    <3>1. atMost(x) \in SUBSET Other  BY <2>1, <2>2
    <3>2. Cardinality(atMost(x)) \in Nat  BY <1>3, <3>1, FS_Subset, FS_CardinalityType
    <3>3. Cardinality(atMost(x)) < k  BY <1>5, <3>1
    <3> HIDE DEF atMost
    <3> QED  BY <1>10, <3>2, <3>3
  <2>3. CASE x > c
    <3>1. Usual \subseteq below(x) /\ below(x) \in SUBSET (1 .. n)  BY <2>1, <2>3
    <3>2. Cardinality(below(x)) \in Nat  BY <1>1, <3>1, FS_Subset, FS_CardinalityType
    <3>3. Cardinality(below(x)) >= k  BY <1>6, <3>1
    <3> HIDE DEF below
    <3> QED  BY <1>10, <3>2, <3>3
  <2> QED  BY <2>1, <2>2, <2>3
<1>11. c \in {s[i] : i \in DOMAIN s}  BY <1>7
<1> HIDE DEF below, atMost
<1>12. \A x \in {s[i] : i \in DOMAIN s} :
         Cardinality(below(x)) < k /\ Cardinality(atMost(x)) >= k => x = c
  BY <1>10
<1> QED  BY <1>8, <1>9, <1>11, <1>12, SameCardinality DEF Judging!Kth, below, atMost

LEMMA MedianIsUsual ==
    ASSUME NEW n \in Nat, n > 2, NEW s \in [1 .. n -> Int], NEW c \in Int,
           Cardinality({i \in 1 .. n : s[i] # c}) <= 1
    PROVE  Judging!TwiceMedian(s) = 2 * c
<1>1. (n + 1) \div 2 \in 2 .. n - 1 /\ n \div 2 + 1 \in 2 .. n - 1  OBVIOUS
<1>2. Len(s) = n  OBVIOUS
<1>3. Judging!Kth(s, (n + 1) \div 2) = c /\ Judging!Kth(s, n \div 2 + 1) = c
  BY <1>1, MiddleIsUsual
<1> QED  BY <1>2, <1>3 DEF Judging!TwiceMedian

\* So the median of the pool is what is usual, and its median deviation is none.
LEMMA DeviationIsNone ==
    ASSUME NEW n \in Nat, n > 2, NEW s \in [1 .. n -> Int], NEW c \in Int,
           Cardinality({i \in 1 .. n : s[i] # c}) <= 1
    PROVE  Judging!TwiceMedian(Judging!TwiceDeviations(s)) = 0
<1>1. Judging!TwiceMedian(s) = 2 * c  BY MedianIsUsual
<1> DEFINE away == Judging!TwiceDeviations(s)
<1>2. away = [i \in 1 .. n |-> Judging!Abs(2 * s[i] - 2 * c)]
  BY <1>1 DEF Judging!TwiceDeviations
<1> HIDE DEF away
<1>3. away \in [1 .. n -> Int] /\ \A i \in 1 .. n : away[i] # 0 <=> s[i] # c
  <2>1. \A i \in 1 .. n : away[i] = Judging!Abs(2 * s[i] - 2 * c)  BY <1>2
  <2>2. \A x \in Int : Judging!Abs(2 * x - 2 * c) \in Int
                       /\ (Judging!Abs(2 * x - 2 * c) # 0 <=> x # c)
    BY DEF Judging!Abs
  <2>3. \A i \in 1 .. n : s[i] \in Int  OBVIOUS
  <2> QED  BY <1>2, <2>1, <2>2, <2>3
<1>4. PICK z \in Int : z = 0  OBVIOUS
<1>5. {i \in 1 .. n : away[i] # z} = {i \in 1 .. n : s[i] # c}  BY <1>3, <1>4
<1>6. Judging!TwiceMedian(away) = 2 * z  BY <1>3, <1>5, MedianIsUsual
<1> QED  BY <1>4, <1>6 DEF away

\* Where the entries are once a connection without a delay is put between them.
LEMMA InsertedNull ==
    ASSUME NEW g \in Seq(Nat), NEW i \in 1 .. Len(g) + 1
    PROVE  LET h == Judging!InsertAt(g, i, 0)
           IN  /\ h \in Seq(Nat) /\ Len(h) = Len(g) + 1 /\ h[i] = 0
               /\ \A x \in DOMAIN g : h[IF x < i THEN x ELSE x + 1] = g[x]
<1> DEFINE h == Judging!InsertAt(g, i, 0)
           before == SubSeq(g, 1, i - 1)
           after == SubSeq(g, i, Len(g))
<1>1. /\ before \in Seq(Nat) /\ Len(before) = i - 1
      /\ \A x \in 1 .. i - 1 : before[x] = g[x]
  OBVIOUS
<1>2. /\ after \in Seq(Nat) /\ Len(after) = Len(g) + 1 - i
      /\ \A x \in 1 .. Len(g) + 1 - i : after[x] = g[x + i - 1]
  OBVIOUS
<1>3. h = before \o <<0>> \o after  BY DEF Judging!InsertAt
<1> HIDE DEF h, before, after
<1> DEFINE front == before \o <<0>>
<1>4. /\ front \in Seq(Nat) /\ Len(front) = i /\ front[i] = 0
      /\ \A x \in 1 .. i - 1 : front[x] = g[x]
  <2>1. <<0>> \in Seq(Nat) /\ Len(<<0>>) = 1 /\ <<0>>[1] = 0  OBVIOUS
  <2>2. /\ front \in Seq(Nat) /\ Len(front) = Len(before) + Len(<<0>>)
        /\ \A x \in 1 .. Len(before) + Len(<<0>>) :
             front[x] = IF x <= Len(before) THEN before[x] ELSE <<0>>[x - Len(before)]
    BY <1>1, <2>1, ConcatProperties
  <2> HIDE DEF front
  <2>3. Len(front) = i  BY <1>1, <2>1, <2>2
  <2>4. front[i] = <<0>>[i - (i - 1)] BY <1>1, <2>1, <2>2
  <2>5. front[i] = 0  BY <2>1, <2>4
  <2>6. \A x \in 1 .. i - 1 : front[x] = g[x]  BY <1>1, <2>1, <2>2
  <2> QED  BY <2>2, <2>3, <2>5, <2>6
<1> HIDE DEF front
<1>5. /\ h \in Seq(Nat) /\ Len(h) = Len(g) + 1
      /\ \A x \in 1 .. Len(g) + 1 : h[x] = IF x <= i THEN front[x] ELSE after[x - i]
  <2>1. h = front \o after  BY <1>3 DEF front
  <2> DEFINE whole == front \o after
  <2>2. /\ whole \in Seq(Nat) /\ Len(whole) = Len(front) + Len(after)
        /\ \A x \in 1 .. Len(front) + Len(after) :
             whole[x] = IF x <= Len(front) THEN front[x] ELSE after[x - Len(front)]
    <3>1. front \in Seq(Nat) /\ after \in Seq(Nat)  BY <1>2, <1>4
    <3> QED  BY <3>1, ConcatProperties
  <2> HIDE DEF whole
  <2>3. h = whole  BY <2>1 DEF whole
  <2>4. Len(front) = i /\ Len(after) = Len(g) + 1 - i  BY <1>2, <1>4
  <2>5. Len(front) + Len(after) = Len(g) + 1  BY <2>4
  <2> QED  BY <2>2, <2>3, <2>4, <2>5
<1>6. ASSUME NEW x \in 1 .. Len(g)  PROVE h[IF x < i THEN x ELSE x + 1] = g[x]
  <2>1. CASE x < i  BY <1>4, <1>5, <2>1
  <2>2. CASE ~(x < i)
    <3>0. x + 1 \in 1 .. Len(g) + 1 /\ ~(x + 1 <= i)  BY <2>2
    <3>1. h[x + 1] = after[x + 1 - i]
      <4>1. h[x + 1] = IF x + 1 <= i THEN front[x + 1] ELSE after[x + 1 - i]  BY <1>5, <3>0
      <4> QED  BY <3>0, <4>1
    <3>2. x + 1 - i \in 1 .. Len(g) + 1 - i /\ (x + 1 - i) + i - 1 = x  BY <2>2
    <3>3. after[x + 1 - i] = g[(x + 1 - i) + i - 1]  BY <1>2, <3>2
    <3> QED  BY <2>2, <3>1, <3>2, <3>3
  <2> QED  BY <2>1, <2>2
<1>7. h[i] = 0  BY <1>4, <1>5
<1>8. DOMAIN g = 1 .. Len(g)  OBVIOUS
<1> QED  BY <1>5, <1>6, <1>7, <1>8 DEF h

\* A shift of the places keeps their order.
LEMMA NullIsNoInterval ==
    ASSUME NEW g \in Seq(Nat), NEW h \in Seq(Nat), NEW i \in 1 .. Len(g) + 1,
           Len(h) = Len(g) + 1, h[i] = 0,
           \A x \in DOMAIN g : h[IF x < i THEN x ELSE x + 1] = g[x]
    PROVE  Judging!Intervals(h) = Judging!Intervals(g)
<1> DEFINE I == {x \in DOMAIN g : g[x] > 0}
           J == {x \in DOMAIN h : h[x] > 0}
           shift(x) == IF x < i THEN x ELSE x + 1
<1>1. I \in SUBSET (1 .. Len(g)) /\ J \in SUBSET (1 .. Len(h))  OBVIOUS
<1>2. IsFiniteSet(I) /\ IsFiniteSet(J)
  <2>1. IsFiniteSet(1 .. Len(g)) /\ IsFiniteSet(1 .. Len(h))  BY FS_Interval
  <2> HIDE DEF I, J
  <2> QED  BY <1>1, <2>1, FS_Subset
<1>3. \A x \in I : shift(x) \in J /\ h[shift(x)] = g[x]
  <2> SUFFICES ASSUME NEW x \in I  PROVE shift(x) \in J /\ h[shift(x)] = g[x]
    OBVIOUS
  <2>1. x \in 1 .. Len(g) /\ g[x] > 0 /\ h[shift(x)] = g[x]  OBVIOUS
  <2>2. shift(x) \in 1 .. Len(h)  BY <2>1
  <2> HIDE DEF shift
  <2> QED  BY <2>1, <2>2
<1>4. \A y \in J : \E x \in I : shift(x) = y
  <2> SUFFICES ASSUME NEW y \in J  PROVE \E x \in I : shift(x) = y
    OBVIOUS
  <2>1. y # i /\ y \in 1 .. Len(g) + 1 /\ h[y] > 0  OBVIOUS
  <2> DEFINE x == IF y < i THEN y ELSE y - 1
  <2>2. x \in DOMAIN g /\ shift(x) = y  BY <2>1
  <2>3. g[x] = h[y]  BY <2>2
  <2> QED  BY <2>1, <2>2, <2>3
<1>5. \A x, y \in 1 .. Len(g) : x <= y <=> shift(x) <= shift(y)  OBVIOUS
<1>6. \A x, y \in 1 .. Len(g) : shift(x) = shift(y) => x = y
  <2> SUFFICES ASSUME NEW x \in 1 .. Len(g), NEW y \in 1 .. Len(g), shift(x) = shift(y)
               PROVE  x = y
    OBVIOUS
  <2>1. CASE x < i /\ y < i  BY <2>1
  <2>2. CASE x < i /\ ~(y < i)  BY <2>2
  <2>3. CASE ~(x < i) /\ y < i  BY <2>3
  <2>4. CASE ~(x < i) /\ ~(y < i)  BY <2>4
  <2> QED  BY <2>1, <2>2, <2>3, <2>4
<1> HIDE DEF I, J, shift
<1>7. ASSUME NEW A \in SUBSET I, NEW B \in SUBSET J, \A x \in A : shift(x) \in B,
             \A y \in B : \E x \in A : shift(x) = y
      PROVE  Cardinality(B) = Cardinality(A)
  <2> DEFINE f == [x \in A |-> shift(x)]
  <2>1. f \in Surjection(A, B)  BY <1>7 DEF Surjection
  <2>2. f \in Injection(A, B)  BY <1>1, <1>6, <1>7 DEF Injection, IsInjective
  <2>3. IsFiniteSet(A)  BY <1>2, FS_Subset
  <2> HIDE DEF f
  <2> QED  BY <2>1, <2>2, <2>3, FS_Surjection
<1>8. Cardinality(J) = Cardinality(I)  BY <1>3, <1>4, <1>7
<1>9. \A x \in I : Cardinality({y \in J : y <= shift(x)}) = Cardinality({y \in I : y <= x})
  <2> SUFFICES ASSUME NEW x \in I
               PROVE  Cardinality({y \in J : y <= shift(x)}) = Cardinality({y \in I : y <= x})
    OBVIOUS
  <2> DEFINE A == {y \in I : y <= x}
             B == {y \in J : y <= shift(x)}
  <2>1. A \in SUBSET I /\ B \in SUBSET J  OBVIOUS
  <2>2. \A y \in A : shift(y) \in B  BY <1>1, <1>3, <1>5
  <2>3. \A z \in B : \E y \in A : shift(y) = z  BY <1>1, <1>4, <1>5
  <2> HIDE DEF A, B
  <2>4. Cardinality(B) = Cardinality(A)  BY <1>7, <2>1, <2>2, <2>3
  <2> QED  BY <2>4 DEF A, B
<1>10. ASSUME NEW k \in 1 .. Cardinality(I)
       PROVE  g[Judging!Nth(I, k)] = h[Judging!Nth(J, k)]
  <2>1. I \in SUBSET Int /\ J \in SUBSET Int  BY <1>1
  <2>2. PICK x : x = Judging!Nth(I, k)  OBVIOUS
  <2>3. x \in I /\ Cardinality({y \in I : y <= x}) = k
    BY <1>2, <2>1, <2>2, NthIsRanked
  <2>4. shift(x) \in J /\ Cardinality({y \in J : y <= shift(x)}) = k
    BY <1>3, <1>9, <2>3
  <2>5. k \in 1 .. Cardinality(J)  BY <1>8
  <2>6. \A y \in J : Cardinality({z \in J : z <= y}) = k => y = Judging!Nth(J, k)
    BY <1>2, <2>1, <2>5, NthIsRanked
  <2>7. shift(x) = Judging!Nth(J, k)  BY <2>4, <2>6
  <2> QED  BY <1>3, <2>2, <2>3, <2>7
<1>11. Judging!Along(g, I) = Judging!Along(h, J)
  BY <1>8, <1>10, SameCardinality DEF Judging!Along
<1> QED  BY <1>11 DEF Judging!Intervals, I, J

-----------------------------------------------------------------------------
(* What the entries of a state are: the bounds of the model play no part.      *)

JudgeTyped ==
    /\ pastDays \in Seq([count : Nat, met : SUBSET Partner])
    /\ today \in [count : Nat, met : SUBSET Partner]
    /\ critical \subseteq Machine /\ gaps \in Seq(Nat)

LEMMA JudgeInitially == Judging!Init => JudgeTyped
BY DEF Judging!Init, JudgeTyped, Judging!NoLogs

LEMMA JudgeStepKeeps ==
    ASSUME Judging!BaselineBounds  PROVE  JudgeTyped /\ [Judging!Next]_(Judging!vars) => JudgeTyped'
<1> SUFFICES ASSUME JudgeTyped, [Judging!Next]_(Judging!vars)  PROVE JudgeTyped'
  OBVIOUS
<1>1. CASE UNCHANGED Judging!vars  BY <1>1 DEF Judging!vars, JudgeTyped
<1>2. ASSUME NEW met \in {{}} \cup {{p} : p \in Partner}, Judging!LogOfDay(met)
      PROVE  JudgeTyped'
  <2>1. today' = [count |-> today.count + 1, met |-> today.met \cup met]
        /\ UNCHANGED <<pastDays, critical, gaps>>
    BY <1>2 DEF Judging!LogOfDay
  <2>2. met \subseteq Partner  OBVIOUS
  <2> QED  BY <2>1, <2>2 DEF JudgeTyped
<1>3. CASE Judging!Midnight  BY <1>3 DEF Judging!Midnight, JudgeTyped, Judging!NoLogs
<1>4. CASE Judging!NextDay \/ (\E h \in Machine : Judging!Execute(h))
             \/ \E fills \in BOOLEAN : Judging!Cycle(fills)
  BY <1>4 DEF Judging!NextDay, Judging!Execute, Judging!Cycle, JudgeTyped
<1>5. CASE \E after \in 0 .. MaxGap : Judging!Connect(after)
  <2>1. PICK after \in 0 .. MaxGap : Judging!Connect(after)  BY <1>5
  <2>2. after \in Nat  BY DEF Judging!BaselineBounds
  <2> QED  BY <2>1, <2>2 DEF Judging!Connect, JudgeTyped
<1> QED  BY <1>1, <1>2, <1>3, <1>4, <1>5 DEF Judging!Next

\* A pool is a sequence of counts, whichever days it is taken from.
LEMMA PoolIsCounts ==
    ASSUME JudgeTyped
    PROVE  \E n \in Nat : Judging!Pool \in [1 .. n -> Nat]
<1> DEFINE S == IF Judging!Cardinality(Judging!SameWeekday) >= MinDays
                THEN Judging!SameWeekday ELSE Judging!Window
<1>1. S \in SUBSET (1 .. Len(pastDays))
  BY DEF Judging!SameWeekday, Judging!Window, JudgeTyped
<1> HIDE DEF S
<1>2. IsFiniteSet(S) /\ S \in SUBSET Int
  <2>1. Len(pastDays) \in Nat  BY DEF JudgeTyped
  <2>2. IsFiniteSet(1 .. Len(pastDays))  BY <2>1, FS_Interval
  <2>3. IsFiniteSet(S)  BY <1>1, <2>2, FS_Subset
  <2> QED  BY <1>1, <2>3
<1> DEFINE counts == [i \in DOMAIN pastDays |-> pastDays[i].count]
<1>3. Judging!Pool = Judging!Along(counts, S)
  BY DEF Judging!Pool, Judging!Counts, S
<1>4. \A k \in 1 .. Cardinality(S) : Judging!Nth(S, k) \in S
  BY <1>2, NthIsRanked
<1>5. \A i \in S : counts[i] \in Nat
  <2> DEFINE D == [count : Nat, met : SUBSET Partner]
  <2>1. \A d \in D : d.count \in Nat  OBVIOUS
  <2> HIDE DEF D
  <2>2. pastDays \in Seq(D)  BY DEF JudgeTyped, D
  <2>3. DOMAIN pastDays = 1 .. Len(pastDays)  BY <2>2
  <2>4. \A i \in 1 .. Len(pastDays) : pastDays[i] \in D  BY <2>2, ElementOfSeq
  <2> QED  BY <1>1, <2>1, <2>3, <2>4
<1> HIDE DEF counts
<1>6. Judging!Pool = [k \in 1 .. Cardinality(S) |-> counts[Judging!Nth(S, k)]]
  BY <1>3, SameCardinality DEF Judging!Along
<1>7. Cardinality(S) \in Nat  BY <1>2, FS_CardinalityType
<1> QED  BY <1>4, <1>5, <1>6, <1>7

LEMMA SpikeIsForgiven ==
    ASSUME Judging!BaselineBounds, JudgeTyped  PROVE  Judging!SpikeForgiven
<1> SUFFICES ASSUME NEW c \in MinBaseline + 1 .. MaxCount, Len(Judging!Pool) > 2,
                    Cardinality({k \in DOMAIN Judging!Pool : Judging!Pool[k] # c}) <= 1
             PROVE  Judging!Anomalous(Judging!Pool) <=> today.count > c
  BY SameCardinality DEF Judging!SpikeForgiven
<1>1. PICK n \in Nat : Judging!Pool \in [1 .. n -> Nat]  BY PoolIsCounts
<1>2. PICK pool : pool = Judging!Pool  OBVIOUS
<1>3. /\ pool \in [1 .. n -> Int] /\ Len(pool) = n /\ DOMAIN pool = 1 .. n /\ n > 2
      /\ pool # <<>>
  BY <1>1, <1>2
<1>4. c \in Int /\ c > MinBaseline /\ MinBaseline \in Nat /\ Multiplier \in Nat
  BY DEF Judging!BaselineBounds
<1>5. Cardinality({k \in 1 .. n : pool[k] # c}) <= 1  BY <1>2, <1>3
<1>6. /\ Judging!TwiceMedian(pool) = 2 * c
      /\ Judging!TwiceMedian(Judging!TwiceDeviations(pool)) = 0
  BY <1>3, <1>4, <1>5, MedianIsUsual, DeviationIsNone
<1>7. today.count \in Nat  BY DEF JudgeTyped
<1>8. Multiplier * 0 = 0  BY <1>4
<1> QED
  BY <1>2, <1>3, <1>4, <1>6, <1>7, <1>8
  DEF Judging!Anomalous, Judging!Modelled, Judging!Exceeds

LEMMA RetriesAreNoise ==
    ASSUME Judging!BaselineBounds, JudgeTyped  PROVE  Judging!RetriesHideNothing
<1> SUFFICES ASSUME Judging!Beacons(gaps), NEW i \in 1 .. Len(gaps) + 1
             PROVE  Judging!Beacons(Judging!InsertAt(gaps, i, 0))
  BY DEF Judging!RetriesHideNothing
<1>1. PICK g : g = gaps  OBVIOUS
<1>2. PICK h : h = Judging!InsertAt(g, i, 0)  OBVIOUS
<1>3. g \in Seq(Nat) /\ i \in 1 .. Len(g) + 1  BY <1>1 DEF JudgeTyped
<1>4. /\ h \in Seq(Nat) /\ Len(h) = Len(g) + 1 /\ h[i] = 0
      /\ \A x \in DOMAIN g : h[IF x < i THEN x ELSE x + 1] = g[x]
  BY <1>2, <1>3, InsertedNull
<1>5. Judging!Intervals(h) = Judging!Intervals(g)
  BY <1>3, <1>4, NullIsNoInterval
<1>6. Judging!Beacons(g)  BY <1>1
<1>7. Len(g) \in Nat /\ MinCalls \in Nat  BY <1>3 DEF Judging!BaselineBounds
<1>8. Judging!Beacons(h)
  BY <1>4, <1>5, <1>6, <1>7 DEF Judging!Beacons
<1> QED  BY <1>1, <1>2, <1>8

LEMMA CommonIsCommon ==
    ASSUME Judging!BaselineBounds, JudgeTyped  PROVE  Judging!CommonIsNotRare
<1> SUFFICES ASSUME ran = Machine, NEW h \in Machine, Judging!RareOn(h)
             PROVE  FALSE
  BY DEF Judging!CommonIsNotRare
<1>1. IsFiniteSet(Machine) /\ MaxRare \in Nat
  BY SameFinite DEF Judging!BaselineBounds
<1>2. PICK T : T = Judging!Tier(h)  OBVIOUS
<1>3. T \subseteq Machine  BY <1>2 DEF Judging!Tier, JudgeTyped
<1>4. ran \cap T = T /\ ran \cap Machine = Machine  BY <1>3
<1>5. Cardinality(T) \in Nat /\ Cardinality(Machine) \in Nat
  BY <1>1, <1>3, FS_Subset, FS_CardinalityType
<1>6. CASE Cardinality(T) > MaxRare
  <2>1. Cardinality(ran \cap T) <= MaxRare
    BY <1>2, <1>6, SameCardinality DEF Judging!RareOn
  <2> QED  BY <1>1, <1>4, <1>5, <1>6, <2>1
<1>7. CASE ~(Cardinality(T) > MaxRare)
  <2>1. Cardinality(ran \cap Machine) <= MaxRare /\ Cardinality(Machine) > MaxRare
    BY <1>2, <1>7, SameCardinality DEF Judging!RareOn
  <2> QED  BY <1>1, <1>4, <1>5, <2>1
<1> QED  BY <1>6, <1>7

\* What ueba_engine.py calls noise hides nothing and makes nothing stand out.
THEOREM NoiseIsForgiven ==
    ASSUME Judging!BaselineBounds
    PROVE  Judging!Spec => [](/\ Judging!SpikeForgiven /\ Judging!RetriesHideNothing
                              /\ Judging!CommonIsNotRare)
<1>1. JudgeTyped =>
        Judging!SpikeForgiven /\ Judging!RetriesHideNothing /\ Judging!CommonIsNotRare
  BY SpikeIsForgiven, RetriesAreNoise, CommonIsCommon
<1> QED  BY <1>1, JudgeInitially, JudgeStepKeeps, PTL DEF Judging!Spec

\* Risk is earned, for any windows, cooldown, thresholds, hosts and histories.
THEOREM RiskIsEarned ==
    ASSUME HourlyBounds  PROVE  HourlySpec => []RiskEarned
<1>1. Cycling!Spec => []Cycling!NeverStacked  BY BonusesNeverStack DEF HourlyBounds
<1>2. Judging!Spec => [](/\ Judging!SpikeForgiven /\ Judging!RetriesHideNothing
                         /\ Judging!CommonIsNotRare)
  BY NoiseIsForgiven DEF HourlyBounds
<1> QED  BY <1>1, <1>2, PTL DEF HourlySpec, RiskEarned
=============================================================================
