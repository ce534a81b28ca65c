---------------------------- MODULE EndpointProofs ----------------------------
(* What an endpoint tells the server of itself, the entries it logged and the  *)
(* files it watches, and what it is told to log.                               *)
EXTENDS AgentSpool, FileWatch, Channels, SequenceTheorems, FiniteSetTheorems,
        WellFoundedInduction, TLAPS

-----------------------------------------------------------------------------
(* Shipping logs.  A request carries the batch that the agent waits with,    *)
(* and the answer that says so comes after the whole batch is stored.        *)

\* The types that the argument needs: the number of requests is not bounded by it.
SpoolTyped ==
    /\ clock \in Nat /\ cycle \in {"collect", "post", "sleep"}
    /\ pending \in Seq(LogEntry) /\ batch \in Seq(LogEntry) /\ attempt \in Nat
    /\ posts \in Seq(Upload) /\ logs \in Seq(LogEntry)

\* Outside a cycle nothing is in hand; in one, what was held goes with it.
InHand ==
    /\ cycle # "post" => batch = <<>>
    /\ cycle = "post" => Range(pending) \subseteq Range(batch)

\* The request that is waited for carries the batch.
Underway == cycle = "post" /\ attempt > 0 =>
    Len(posts) > 0 /\ posts[Len(posts)].batch = batch

\* A request has stored its batch up to where it is, and acknowledges a whole one.
Stored(p) ==
    /\ p.at \in 1 .. Len(p.batch) + 1
    /\ \A i \in DOMAIN p.batch : i < p.at => p.batch[i] \in Range(logs)
    /\ p.state = "ok" => p.at > Len(p.batch)
AllStored == \A n \in DOMAIN posts : Stored(posts[n])

SpoolIInv == SpoolTyped /\ InHand /\ Underway /\ AllStored /\ DeliveredOrHeld

-----------------------------------------------------------------------------
(* Sequences of entries.                                                      *)

LEMMA EmptyRange == Range(<<>>) = {}
BY DEF Range

LEMMA NewEntries ==
  ASSUME NEW S, NEW e, S = {} \/ S = {e}, S \subseteq LogEntry
  PROVE  SetToSeq(S) \in Seq(LogEntry) /\ Range(SetToSeq(S)) = S
<1>1. CASE S = {}
  <2> DEFINE f == [i \in 1 .. 0 |-> e]
  <2>1. Cardinality(S) = 0
    BY <1>1, FS_EmptySet
  <2>2. f \in [1 .. Cardinality(S) -> S] /\ IsInjective(f)
    BY <1>1, <2>1 DEF IsInjective
  <2>3. SetToSeq(S) \in [1 .. Cardinality(S) -> S]
    BY <2>2 DEF SetToSeq
  <2>4. SetToSeq(S) \in [1 .. 0 -> LogEntry]
    BY <1>1, <2>1, <2>3
  <2>5. SetToSeq(S) \in Seq(LogEntry)
    BY <2>4, IsASeq
  <2> QED
    BY <1>1, <2>4, <2>5 DEF Range
<1>2. CASE S = {e}
  <2> DEFINE f == [i \in 1 .. 1 |-> e]
  <2>1. Cardinality(S) = 1
    BY <1>2, FS_Singleton
  <2>2. f \in [1 .. Cardinality(S) -> S] /\ IsInjective(f)
    BY <1>2, <2>1 DEF IsInjective
  <2>3. SetToSeq(S) \in [1 .. Cardinality(S) -> S]
    BY <2>2 DEF SetToSeq
  <2>4. SetToSeq(S) \in [1 .. 1 -> LogEntry] /\ SetToSeq(S)[1] = e
    BY <1>2, <2>1, <2>3
  <2>5. SetToSeq(S) = <<e>>
    BY <2>4
  <2>6. <<e>> \in Seq(LogEntry) /\ Range(<<e>>) = {e}
    BY <1>2 DEF Range
  <2> QED
    BY <1>2, <2>5, <2>6
<1> QED
  BY <1>1, <1>2

LEMMA Concatenated ==
  ASSUME NEW s \in Seq(LogEntry), NEW t \in Seq(LogEntry)
  PROVE  s \o t \in Seq(LogEntry) /\ Range(s \o t) = Range(s) \cup Range(t)
BY ConcatProperties, RangeConcatenation

LEMMA RowsOf ==
  ASSUME NEW s \in Seq(LogEntry), NEW m \in 1 .. Len(s) + 1, NEW n \in m - 1 .. Len(s)
  PROVE  /\ SubSeq(s, m, n) \in Seq(LogEntry)
         /\ \A i \in m .. n : s[i] \in Range(SubSeq(s, m, n))
<1>1. m \in Nat /\ n \in Nat /\ m >= 1 /\ Len(s) \in Nat
  BY LenProperties
<1>2. SubSeq(s, m, n) \in Seq(LogEntry)
  BY <1>1, SubSeqProperties
<1>3. ASSUME NEW i \in m .. n
      PROVE  s[i] \in Range(SubSeq(s, m, n))
  <2>1. Len(SubSeq(s, m, n)) = n - m + 1 /\ i - m + 1 \in 1 .. n - m + 1
    BY <1>1, <1>3, SubSeqProperties
  <2>2. SubSeq(s, m, n)[i - m + 1] = s[i]
    BY <1>1, <1>3, <2>1, SubSeqProperties
  <2>3. i - m + 1 \in DOMAIN SubSeq(s, m, n)
    BY <1>2, <2>1, LenProperties
  <2> QED
    BY <2>2, <2>3 DEF Range
<1> QED
  BY <1>2, <1>3

\* The oldest entries go at the cap, the newest stay, and none is both forgotten
\* and not counted as lost.
LEMMA HeldOrLost ==
  ASSUME SpoolBounds, NEW s \in Seq(LogEntry)
  PROVE  /\ HeldBack(s) \in Seq(LogEntry)
         /\ Spools => Range(s) \subseteq Range(HeldBack(s)) \cup Range(Overflow(s))
         /\ ~Spools => Range(s) \subseteq Range(Overflow(s))
<1>1. Cap \in Nat /\ Len(s) \in Nat /\ DOMAIN s = 1 .. Len(s)
  BY LenProperties DEF SpoolBounds
<1>2. ~Spools => Range(s) \subseteq Range(Overflow(s))
  <2> SUFFICES ASSUME ~Spools, NEW i \in 1 .. Len(s) PROVE s[i] \in Range(Overflow(s))
    BY <1>1 DEF Range
  <2>1. Overflow(s) = SubSeq(s, 1, Len(s))
    BY DEF Overflow
  <2> QED
    BY <1>1, <2>1, RowsOf
<1>3. CASE Len(s) <= Cap
  <2>1. HeldBack(s) = SubSeq(s, 1, Len(s))
    BY <1>3 DEF HeldBack
  <2>2. HeldBack(s) = s
    BY <2>1, SubSeqFull
  <2> QED
    BY <1>2, <2>2
<1>4. CASE Cap < Len(s)
  <2> DEFINE k == Len(s) - Cap
  <2>1. k \in 1 .. Len(s) /\ HeldBack(s) = SubSeq(s, k + 1, Len(s))
    <3>1. k \in 1 .. Len(s)
      BY <1>1, <1>4
    <3>2. ~ (Len(s) <= Cap)
      BY <1>1, <1>4
    <3> QED
      BY <3>1, <3>2 DEF HeldBack
  <2>2. HeldBack(s) \in Seq(LogEntry) /\ \A i \in k + 1 .. Len(s) : s[i] \in Range(HeldBack(s))
    <3>1. k + 1 \in 1 .. Len(s) + 1 /\ Len(s) \in (k + 1) - 1 .. Len(s)
      BY <1>1, <2>1
    <3> HIDE DEF k
    <3> QED
      BY <2>1, <3>1, RowsOf
  <2>3. ASSUME Spools, NEW i \in 1 .. Len(s), ~ (i \in k + 1 .. Len(s))
        PROVE  s[i] \in Range(Overflow(s))
    <3>1. Overflow(s) = SubSeq(s, 1, k)
      BY <2>3 DEF Overflow
    <3>2. i \in 1 .. k /\ k \in 0 .. Len(s)
      BY <1>1, <2>1, <2>3
    <3> HIDE DEF k
    <3> QED
      BY <1>1, <3>1, <3>2, RowsOf
  <2>4. Spools => Range(s) \subseteq Range(HeldBack(s)) \cup Range(Overflow(s))
    BY <1>1, <2>2, <2>3 DEF Range
  <2> QED
    BY <1>2, <2>2, <2>4
<1> QED
  BY <1>1, <1>3, <1>4

\* The transaction of a request ends with its batch, or at the first entry that opens
\* the alert.
LEMMA UptoWithin ==
  ASSUME NEW p \in Upload, p.at \in 1 .. Len(p.batch) + 1
  PROVE  /\ StoredUpto(p) \in p.at - 1 .. Len(p.batch)
         /\ Opening(p) = {} => StoredUpto(p) = Len(p.batch)
<1>1. Len(p.batch) \in Nat /\ p.at \in Nat
  BY LenProperties DEF Upload
<1>2. CASE Opening(p) = {}
  BY <1>1, <1>2 DEF StoredUpto
<1>3. CASE Opening(p) # {}
  <2> DEFINE O == Opening(p)
  <2>1. O \subseteq Nat /\ O \subseteq p.at .. Len(p.batch) /\ O # {}
    BY <1>1, <1>3 DEF Opening
  <2>2. PICK i \in O : \A j \in O : ~ (<<j, i>> \in OpToRel(<, Nat))
    <3> HIDE DEF O
    <3> QED
      BY <2>1, NatLessThanWellFounded, WFMin
  <2>3. i \in O /\ \A j \in O : i <= j
    <3> HIDE DEF O
    <3>1. \A j \in O : ~ (j < i)
      BY <2>1, <2>2 DEF OpToRel
    <3> QED
      BY <2>1, <3>1
  <2>4. StoredUpto(p) \in O
    BY <1>3, <2>3 DEF StoredUpto
  <2> QED
    BY <1>1, <1>3, <2>1, <2>4
<1> QED
  BY <1>2, <1>3

-----------------------------------------------------------------------------
(* The steps.                                                                 *)

LEMMA SpoolStarts ==
  ASSUME SpoolInit
  PROVE  SpoolIInv
BY DEF SpoolInit, SpoolIInv, SpoolTyped, InHand, Underway, AllStored, DeliveredOrHeld, Range

\* The last batch is given up: it is held as far as the cap allows.
LEMMA SpoolKeeps ==
  ASSUME SpoolBounds, SpoolIInv, Spool, cycle = "post", clock' \in Nat,
         UNCHANGED <<collected, posts, logs>>
  PROVE  SpoolIInv'
<1>1. batch \in Seq(LogEntry)
  BY DEF SpoolIInv, SpoolTyped
<1>2. pending' \in Seq(LogEntry)
      /\ Range(batch) \subseteq Range(pending') \cup Range(Overflow(batch))
  BY <1>1, HeldOrLost DEF Spool
<1>3. /\ batch' = <<>> /\ cycle' = "sleep" /\ attempt' = 0
      /\ lost' = lost \cup Range(Overflow(batch))
  BY DEF Spool
<1>4. SpoolTyped'
  BY <1>2, <1>3 DEF SpoolIInv, SpoolTyped
<1>5. InHand' /\ Underway'
  BY <1>3 DEF InHand, Underway
<1>6. AllStored'
  BY DEF SpoolIInv, AllStored, Stored
<1>7. DeliveredOrHeld'
  <2>1. Range(pending) \subseteq Range(batch)
    BY DEF SpoolIInv, InHand
  <2> QED
    BY <1>2, <1>3, <2>1 DEF SpoolIInv, DeliveredOrHeld
<1> QED
  BY <1>4, <1>5, <1>6, <1>7 DEF SpoolIInv

\* One more request with the batch.
LEMMA SentKeeps ==
  ASSUME SpoolIInv, cycle = "post", posts' = Sent, attempt' \in Nat, clock' \in Nat,
         UNCHANGED <<cycle, collected, pending, batch, logs, lost>>
  PROVE  SpoolIInv'
<1> DEFINE p == [batch |-> batch, at |-> 1, state |-> "in"]
<1>1. batch \in Seq(LogEntry) /\ posts \in Seq(Upload) /\ p \in Upload
  BY DEF SpoolIInv, SpoolTyped, Upload
<1>2. /\ posts' \in Seq(Upload) /\ Len(posts') = Len(posts) + 1 /\ Len(posts) \in Nat
      /\ posts'[Len(posts')] = p /\ \A n \in DOMAIN posts : posts'[n] = posts[n]
      /\ DOMAIN posts' = 1 .. Len(posts') /\ DOMAIN posts = 1 .. Len(posts)
  BY <1>1, AppendProperties, LenProperties DEF Sent
<1>3. SpoolTyped' /\ InHand'
  BY <1>2 DEF SpoolIInv, SpoolTyped, InHand
<1>4. Underway'
  BY <1>2 DEF Underway
<1>5. Stored(p)
  BY <1>1, LenProperties DEF Stored
<1>6. AllStored'
  BY <1>2, <1>5 DEF SpoolIInv, AllStored, Stored
<1>7. DeliveredOrHeld'
  BY DEF SpoolIInv, DeliveredOrHeld
<1> QED
  BY <1>3, <1>4, <1>6, <1>7 DEF SpoolIInv

LEMMA CollectKeeps ==
  ASSUME SpoolIInv, CollectLogs
  PROVE  SpoolIInv'
<1> DEFINE new == SetToSeq(Window \ collected)
<1>1. /\ cycle = "collect" /\ batch' = pending \o new
      /\ cycle' = IF pending \o new = <<>> THEN "sleep" ELSE "post"
      /\ collected' = collected \cup Window /\ attempt' = 0
      /\ UNCHANGED <<clock, pending, posts, logs, lost>>
  BY DEF CollectLogs, NextBatch, server
<1>2. new \in Seq(LogEntry) /\ Range(new) = Window \ collected
  BY NewEntries DEF Window
<1>3. /\ pending \o new \in Seq(LogEntry)
      /\ Range(pending \o new) = Range(pending) \cup (Window \ collected)
  BY <1>2, Concatenated DEF SpoolIInv, SpoolTyped
<1> HIDE DEF new
<1>4. SpoolTyped'
  BY <1>1, <1>3 DEF SpoolIInv, SpoolTyped
<1>5. InHand' /\ Underway'
  BY <1>1, <1>3 DEF InHand, Underway
<1>6. AllStored'
  BY <1>1 DEF SpoolIInv, AllStored, Stored
<1>7. DeliveredOrHeld'
  <2>1. Range(batch) = {}
    BY <1>1, EmptyRange DEF SpoolIInv, InHand
  <2> QED
    BY <1>1, <1>3, <2>1 DEF SpoolIInv, DeliveredOrHeld
<1> QED
  BY <1>4, <1>5, <1>6, <1>7 DEF SpoolIInv

\* An acknowledged batch is stored, and what was held with it.
LEMMA DeliveredKeeps ==
  ASSUME SpoolIInv, Delivered
  PROVE  SpoolIInv'
<1>1. /\ cycle = "post" /\ attempt > 0 /\ posts[Len(posts)].state = "ok"
      /\ pending' = <<>> /\ batch' = <<>> /\ attempt' = 0 /\ cycle' = "sleep"
      /\ UNCHANGED <<clock, collected, posts, logs, lost>>
  BY DEF Delivered, Waiting, server
<1>2. Len(posts) \in DOMAIN posts /\ posts[Len(posts)].batch = batch
  BY <1>1, LenProperties DEF SpoolIInv, SpoolTyped, Underway
<1>3. Range(batch) \subseteq Range(logs)
  <2>1. Stored(posts[Len(posts)])
    BY <1>2 DEF SpoolIInv, AllStored
  <2>2. \A i \in DOMAIN batch : i <= Len(batch) /\ i \in Nat /\ Len(batch) \in Nat
    BY LenProperties DEF SpoolIInv, SpoolTyped
  <2>3. posts[Len(posts)].at \in Nat
    BY <2>1, <1>2, LenProperties DEF SpoolIInv, SpoolTyped, Stored
  <2> QED
    BY <1>1, <1>2, <2>1, <2>2, <2>3 DEF Stored, Range
<1>4. SpoolTyped'
  BY <1>1 DEF SpoolIInv, SpoolTyped
<1>5. InHand' /\ Underway' /\ AllStored'
  BY <1>1 DEF SpoolIInv, InHand, Underway, AllStored, Stored
<1>6. DeliveredOrHeld'
  BY <1>1, <1>3 DEF SpoolIInv, InHand, DeliveredOrHeld
<1> QED
  BY <1>4, <1>5, <1>6 DEF SpoolIInv

\* A restart loses what was in memory, and counts it as lost.
LEMMA CrashKeeps ==
  ASSUME SpoolIInv, Crash
  PROVE  SpoolIInv'
<1>1. /\ lost' = lost \cup Range(pending) \cup Range(batch) /\ collected' = {}
      /\ pending' = <<>> /\ batch' = <<>> /\ attempt' = 0 /\ cycle' = "collect"
      /\ UNCHANGED <<clock, posts, logs>>
  BY DEF Crash, server
<1>2. SpoolTyped'
  BY <1>1 DEF SpoolIInv, SpoolTyped
<1> QED
  BY <1>1, <1>2 DEF SpoolIInv, InHand, Underway, AllStored, Stored, DeliveredOrHeld

\* A request moves on: rows are only ever added, and up to where it then is.
LEMMA StoreKeeps ==
  ASSUME SpoolIInv, NEW n, Store(n)
  PROVE  SpoolIInv'
<1> DEFINE p == posts[n]
           rows == SubSeq(p.batch, p.at, StoredUpto(p))
           end == IF Opening(p) = {} THEN "ok" ELSE "in"
<1>1. /\ n \in DOMAIN posts /\ logs' = logs \o rows
      /\ posts' = [posts EXCEPT ![n] = [p EXCEPT !.at = StoredUpto(p) + 1, !.state = end]]
      /\ UNCHANGED <<clock, cycle, collected, pending, batch, attempt, lost>>
  BY DEF Store, agent
<1>2. /\ p \in Upload /\ Stored(p) /\ p.batch \in Seq(LogEntry) /\ Len(p.batch) \in Nat
      /\ DOMAIN p.batch = 1 .. Len(p.batch)
  <2>1. posts \in Seq(Upload) /\ n \in 1 .. Len(posts)
    BY <1>1, LenProperties DEF SpoolIInv, SpoolTyped
  <2>2. p \in Upload
    BY <2>1, ElementOfSeq
  <2>3. p.batch \in Seq(LogEntry)
    BY <2>2 DEF Upload
  <2> QED
    BY <1>1, <2>2, <2>3, LenProperties DEF SpoolIInv, AllStored
<1>3. /\ p.at \in 1 .. Len(p.batch) + 1
      /\ StoredUpto(p) \in p.at - 1 .. Len(p.batch)
      /\ Opening(p) = {} => StoredUpto(p) = Len(p.batch)
  BY <1>2, UptoWithin DEF Stored
<1>4. rows \in Seq(LogEntry) /\ \A i \in p.at .. StoredUpto(p) : p.batch[i] \in Range(rows)
  BY <1>2, <1>3, RowsOf
<1>5. logs' \in Seq(LogEntry) /\ Range(logs') = Range(logs) \cup Range(rows)
  BY <1>1, <1>4, Concatenated DEF SpoolIInv, SpoolTyped
<1>6. PICK q \in Upload : /\ posts' = [posts EXCEPT ![n] = q] /\ q.batch = p.batch
                          /\ q.at = StoredUpto(p) + 1 /\ q.state = end
  <2> DEFINE r == [p EXCEPT !.at = StoredUpto(p) + 1, !.state = end]
  <2>1. r.batch = p.batch /\ r.at = StoredUpto(p) + 1 /\ r.state = end
    BY <1>2 DEF Upload
  <2>2. StoredUpto(p) + 1 \in Nat
    BY <1>2, <1>3
  <2>3. r \in Upload
    BY <1>2, <2>2 DEF Upload
  <2> QED
    BY <1>1, <2>1, <2>3
<1>7. /\ posts' \in Seq(Upload) /\ Len(posts') = Len(posts) /\ DOMAIN posts' = DOMAIN posts
      /\ posts'[n] = q /\ \A m \in DOMAIN posts : m # n => posts'[m] = posts[m]
  BY <1>1, <1>6, ExceptSeq, LenProperties DEF SpoolIInv, SpoolTyped
<1> HIDE DEF rows
<1>8. SpoolTyped'
  BY <1>1, <1>5, <1>7 DEF SpoolIInv, SpoolTyped
<1>9. InHand' /\ DeliveredOrHeld'
  BY <1>1, <1>5 DEF SpoolIInv, InHand, DeliveredOrHeld
<1>10. Underway'
  <2>1. \A m \in DOMAIN posts : posts'[m].batch = posts[m].batch
    BY <1>6, <1>7
  <2>2. Len(posts) > 0 => Len(posts) \in DOMAIN posts
    BY LenProperties DEF SpoolIInv, SpoolTyped
  <2> QED
    BY <1>1, <1>7, <2>1, <2>2 DEF SpoolIInv, Underway
<1>11. Stored(q)'
  <2>1. ASSUME NEW i \in DOMAIN q.batch, i < q.at
        PROVE  q.batch[i] \in Range(logs')
    <3>1. i \in 1 .. Len(p.batch) /\ i <= StoredUpto(p) /\ p.at \in Nat
      BY <1>2, <1>3, <1>6, <2>1
    <3>2. CASE i < p.at
      BY <1>2, <1>5, <1>6, <3>1, <3>2 DEF Stored
    <3>3. CASE ~ (i < p.at)
      BY <1>3, <1>4, <1>5, <1>6, <3>1, <3>3
    <3> QED
      BY <3>2, <3>3
  <2>2. q.at \in 1 .. Len(q.batch) + 1 /\ (q.state = "ok" => q.at > Len(q.batch))
    BY <1>2, <1>3, <1>6
  <2> QED
    BY <2>1, <2>2 DEF Stored
<1>12. AllStored'
  <2>1. \A m \in DOMAIN posts : m # n => Stored(posts[m])'
    BY <1>5, <1>7 DEF SpoolIInv, AllStored, Stored
  <2> QED
    BY <1>7, <1>11, <2>1 DEF AllStored, Stored
<1> QED
  BY <1>8, <1>9, <1>10, <1>12 DEF SpoolIInv

LEMMA SpoolStep ==
  ASSUME SpoolBounds, SpoolIInv, [SpoolNext]_spoolVars
  PROVE  SpoolIInv'
<1>1. clock \in Nat /\ Later(clock) \in Nat
  BY DEF SpoolIInv, SpoolTyped, Later
<1>2. CASE UNCHANGED spoolVars
  BY <1>2 DEF SpoolIInv, SpoolTyped, InHand, Underway, AllStored, Stored, DeliveredOrHeld,
              spoolVars, agent,
     server, bounds
<1>3. CASE Sleep
  BY <1>1, <1>3 DEF Sleep, server, SpoolIInv, SpoolTyped, InHand, Underway, AllStored,
                    Stored,
     DeliveredOrHeld
<1>4. CASE Send
  BY <1>4, SentKeeps DEF Send, SpoolIInv, SpoolTyped
<1>5. CASE TimesOut \/ IsRefused
  <2>1. /\ cycle = "post" /\ clock' \in Nat /\ UNCHANGED <<collected, logs>>
        /\ \/ Spool /\ UNCHANGED posts
           \/ posts' = Sent /\ attempt' = attempt + 1 /\ UNCHANGED <<pending, lost, batch,
                                                                     cycle>>
    BY <1>1, <1>5 DEF TimesOut, IsRefused, Waiting, Retry
  <2> QED
    BY <2>1, SpoolKeeps, SentKeeps DEF SpoolIInv, SpoolTyped
<1>6. ASSUME NEW n \in Post, Refuse(n)
      PROVE  SpoolIInv'
  <2>1. /\ n \in DOMAIN posts /\ posts' = [posts EXCEPT ![n].state = "failed"]
        /\ UNCHANGED <<clock, cycle, collected, pending, batch, attempt, logs, lost>>
    BY <1>6 DEF Refuse, agent
  <2>2. posts \in Seq(Upload) /\ n \in 1 .. Len(posts) /\ posts[n] \in Upload
    BY <2>1, LenProperties, ElementOfSeq DEF SpoolIInv, SpoolTyped
  <2>3. posts' = [posts EXCEPT ![n] = [posts[n] EXCEPT !.state = "failed"]]
    BY <2>1
  <2>4. PICK q \in Upload : /\ posts' = [posts EXCEPT ![n] = q] /\ q.batch = posts[n].batch
                            /\ q.at = posts[n].at /\ q.state = "failed"
    <3> DEFINE r == [posts[n] EXCEPT !.state = "failed"]
    <3>1. r \in Upload /\ r.batch = posts[n].batch /\ r.at = posts[n].at /\ r.state = "failed"
      BY <2>2 DEF Upload
    <3> QED
      BY <2>3, <3>1
  <2>5. /\ posts' \in Seq(Upload) /\ Len(posts') = Len(posts) /\ DOMAIN posts' = DOMAIN posts
        /\ posts'[n] = q /\ \A m \in DOMAIN posts : m # n => posts'[m] = posts[m]
    BY <2>2, <2>4, ExceptSeq, LenProperties
  <2>6. SpoolTyped' /\ InHand' /\ DeliveredOrHeld'
    BY <2>1, <2>5 DEF SpoolIInv, SpoolTyped, InHand, DeliveredOrHeld
  <2>7. \A m \in DOMAIN posts : posts'[m].batch = posts[m].batch
    BY <2>4, <2>5
  <2>8. Underway'
    <3>1. Len(posts) > 0 => Len(posts) \in DOMAIN posts
      BY LenProperties DEF SpoolIInv, SpoolTyped
    <3> QED
      BY <2>1, <2>5, <2>7, <3>1 DEF SpoolIInv, Underway
  <2>9. AllStored'
    BY <2>1, <2>4, <2>5 DEF SpoolIInv, AllStored, Stored
  <2> QED
    BY <2>6, <2>8, <2>9 DEF SpoolIInv
<1> QED
  BY <1>2, <1>3, <1>4, <1>5, <1>6, CollectKeeps, DeliveredKeeps, CrashKeeps, StoreKeeps
     DEF SpoolNext

\* An entry that an agent has collected is on the server, in the batch it is about to
\* send, in the spool, or counted among those that the cap or a restart has cost:
\* whatever answers are lost and whatever requests arrive late.
THEOREM NothingFailsSilently ==
  ASSUME SpoolBounds
  PROVE  SpoolSpec => []DeliveredOrHeld
<1>1. SpoolInit => SpoolIInv
  BY SpoolStarts
<1>2. SpoolIInv /\ [SpoolNext]_spoolVars => SpoolIInv'
  BY SpoolStep
<1>3. SpoolIInv => DeliveredOrHeld
  BY DEF SpoolIInv
<1> QED
  BY <1>1, <1>2, <1>3, PTL DEF SpoolSpec

-----------------------------------------------------------------------------
(* File integrity.  The baseline on the disk and the one in hand are each    *)
(* what has been told, or what this check is telling.                        *)

FimTyped ==
    /\ file \in [Path -> [content : Content \cup {"none"}, mtime : Nat]] /\ writes \in Nat
    /\ DOMAIN saved = Path /\ DOMAIN state = Path
    /\ DOMAIN events = Path /\ DOMAIN heard = Path
    /\ fimPc \in {"idle", "check", "hash", "save", "dump", "ship"}
    /\ active \subseteq Path /\ toCheck \subseteq Path
    /\ fimPc = "hash" => at \in Path \ toCheck

Checking == fimPc \in {"check", "hash"}
\* This check is done with the path, but for the hash it may be computing.
Done(p) == Checking => p \in active \ toCheck /\ ~(fimPc = "hash" /\ p = at)
True(p, hash) == hash \in {file[p].content, "unreadable"}

\* The baseline in hand is what has been told.
TellsState(p) == state[p] # NoEntry => Told(p) = state[p].hash
\* So is the one on the disk, unless this check has just told otherwise.
TellsSaved(p) == saved[p] # NoEntry =>
    Told(p) = saved[p].hash \/ (Checking /\ events[p] # "nothing")
\* What the check has looked at it has right; what it has not, the disk has right.
StateTrue(p) == p \notin stalePaths /\ Done(p) /\ state[p] # NoEntry => True(p, state[p].hash)
SavedTrue(p) == p \notin stalePaths /\ (Checking => p \in toCheck) /\ saved[p] # NoEntry =>
    True(p, saved[p].hash)
Known(p) == TellsState(p) /\ TellsSaved(p) /\ StateTrue(p) /\ SavedTrue(p)

FromDisk == Checking => \A p \in toCheck : state[p] = saved[p]

FimIInv == FimTyped /\ FromDisk /\ \A p \in Path \ lostPaths : Known(p)

LEMMA FimStarts ==
  ASSUME FimInit
  PROVE  FimIInv
<1>1. FimTyped /\ FromDisk
  BY DEF FimInit, FimTyped, FromDisk, Checking, NoFile, NoEvents
<1>2. \A p \in Path : Known(p)
  BY DEF FimInit, Known, TellsState, TellsSaved, StateTrue, SavedTrue
<1> QED
  BY <1>1, <1>2 DEF FimIInv

\* Whoever writes a file, what is known of it is stalePaths.
LEMMA FileKeeps ==
  ASSUME FimIInv, NEW q \in Path,
         (\E c \in Content : Write(q, c) \/ WriteKeeping(q, c)) \/ DeleteFile(q)
  PROVE  FimIInv'
<1>1. /\ stalePaths' = stalePaths \cup {q}
      /\ UNCHANGED <<active, saved, state, fimPc, toCheck, at, events, heard, lostPaths>>
  BY DEF Write, WriteKeeping, DeleteFile, check
<1>2. \E f \in [content : Content \cup {"none"}, mtime : Nat] : file' = [file EXCEPT ![q] = f]
  <2>1. ASSUME NEW c \in Content, Write(q, c)
        PROVE  \E f \in [content : Content \cup {"none"}, mtime : Nat] :
                  file' = [file EXCEPT ![q] = f]
    <3>1. [content |-> c, mtime |-> writes + 1] \in [content : Content \cup {"none"}, mtime : Nat]
      BY DEF FimIInv, FimTyped
    <3> QED
      BY <2>1, <3>1 DEF Write
  <2>2. ASSUME NEW c \in Content, WriteKeeping(q, c)
        PROVE  \E f \in [content : Content \cup {"none"}, mtime : Nat] :
                  file' = [file EXCEPT ![q] = f]
    <3>1. [file[q] EXCEPT !.content = c] \in [content : Content \cup {"none"}, mtime : Nat]
      BY DEF FimIInv, FimTyped
    <3> QED
      BY <2>2, <3>1 DEF WriteKeeping
  <2>3. CASE DeleteFile(q)
    <3>1. NoFile \in [content : Content \cup {"none"}, mtime : Nat]
      BY DEF NoFile
    <3> QED
      BY <2>3, <3>1 DEF DeleteFile
  <2> QED
    BY <2>1, <2>2, <2>3
<1>3. FimTyped' /\ FromDisk'
  <2>1. writes' \in Nat
    BY DEF Write, WriteKeeping, DeleteFile, FimIInv, FimTyped
  <2> QED
    BY <1>1, <1>2, <2>1 DEF FimIInv, FimTyped, FromDisk, Checking
<1>4. ASSUME NEW p \in Path \ lostPaths
      PROVE  Known(p)'
  <2>1. Known(p)
    BY DEF FimIInv
  <2>2. TellsState(p)' /\ TellsSaved(p)'
    BY <1>1, <2>1 DEF Known, TellsState, TellsSaved, Told, Checking
  <2>3. p \notin stalePaths' => p # q /\ p \notin stalePaths
    BY <1>1
  <2>4. p # q => file'[p] = file[p]
    BY <1>2 DEF FimIInv, FimTyped
  <2>5. StateTrue(p)' /\ SavedTrue(p)'
    BY <1>1, <2>1, <2>3, <2>4 DEF Known, StateTrue, SavedTrue, True, Done, Checking
  <2> QED
    BY <2>2, <2>5 DEF Known
<1> QED
  BY <1>1, <1>3, <1>4 DEF FimIInv

\* Steps between checks, and the start of one.
LEMMA BetweenKeeps ==
  ASSUME FimIInv, Begin \/ \E paths \in SUBSET Path : FimCheckIn(paths)
  PROVE  FimIInv'
<1>1. fimPc = "idle" /\ UNCHANGED <<file, writes, saved, at, events, heard, lostPaths,
                                    stalePaths>>
  BY DEF Begin, FimCheckIn, check
<1>2. CASE Begin
  <2>1. fimPc' = "check" /\ toCheck' = active /\ state' = saved /\ UNCHANGED active
    BY <1>2 DEF Begin
  <2>2. \A p \in Path \ lostPaths : Known(p)'
    BY <1>1, <2>1 DEF FimIInv, Known, TellsState, TellsSaved, StateTrue, SavedTrue, Told,
                      True,
       Done, Checking
  <2>3. FimTyped' /\ FromDisk'
    BY <1>1, <2>1 DEF FimIInv, FimTyped, FromDisk
  <2>4. lostPaths' = lostPaths
    BY <1>1
  <2> QED
    BY <2>2, <2>3, <2>4 DEF FimIInv
<1>3. CASE \E paths \in SUBSET Path : FimCheckIn(paths)
  <2>1. UNCHANGED <<fimPc, toCheck, state>> /\ active' \subseteq Path
    BY <1>3 DEF FimCheckIn, check
  <2>2. \A p \in Path \ lostPaths : Known(p)'
    BY <1>1, <2>1 DEF FimIInv, Known, TellsState, TellsSaved, StateTrue, SavedTrue, Told,
                      True,
       Done, Checking
  <2> QED
    BY <1>1, <2>1, <2>2 DEF FimIInv, FimTyped, FromDisk, Checking
<1> QED
  BY <1>2, <1>3

\* What a path leaves to a check: nothing of the others changes.
LEMMA OthersKeep ==
  ASSUME FimIInv, NEW q \in Path, NEW p \in Path \ lostPaths, p # q, Checking, Checking',
         UNCHANGED <<file, active, saved, heard>>,
         state'[p] = state[p], events'[p] = events[p], p \in stalePaths' <=> p \in stalePaths,
         p \in toCheck' <=> p \in toCheck, fimPc = "hash" => at = q, fimPc' = "hash" => at' = q
  PROVE  Known(p)'
<1>1. Known(p)
  BY DEF FimIInv
<1>2. Done(p)' <=> Done(p)
  BY DEF Done
<1> QED
  BY <1>1, <1>2 DEF Known, TellsState, TellsSaved, StateTrue, SavedTrue, Told, True

\* A path is looked at.
LEMMA LookKeeps ==
  ASSUME FimIInv, NEW q \in Path, Gone(q) \/ Same(q) \/ Differs(q)
  PROVE  FimIInv'
<1>1. /\ fimPc = "check" /\ q \in toCheck /\ toCheck' = toCheck \ {q}
      /\ UNCHANGED <<file, writes, active, saved, heard>>
  BY DEF Gone, Same, Differs, Looked
<1>2. /\ fimPc' = "check" \/ (fimPc' = "hash" /\ at' = q)
      /\ stalePaths' = stalePaths \/ stalePaths' = stalePaths \ {q}
      /\ state' = state \/ state' = [state EXCEPT ![q] = NoEntry]
      /\ \/ events' = events /\ lostPaths' = lostPaths
         \/ events' = [events EXCEPT ![q] = "none"] /\ lostPaths' = lostPaths \ {q} /\ Gone(q)
      /\ Gone(q) /\ state[q] # NoEntry => events' = [events EXCEPT ![q] = "none"]
  BY <1>1 DEF Gone, Same, Differs, Looked, Tells
<1>3. FimTyped'
  BY <1>1, <1>2 DEF FimIInv, FimTyped
<1>4. FromDisk'
  BY <1>1, <1>2 DEF FimIInv, FimTyped, FromDisk, Checking
<1>5. ASSUME NEW p \in Path \ lostPaths', p # q
      PROVE  Known(p)'
  <2>1. p \in Path \ lostPaths
    BY <1>2, <1>5
  <2> QED
    BY <1>1, <1>2, <1>5, <2>1, OthersKeep DEF Checking, FimIInv, FimTyped
<1>6. ASSUME q \notin lostPaths'
      PROVE  Known(q)'
  <2>1. state[q] = saved[q] /\ Checking /\ Checking'
    BY <1>1, <1>2 DEF FimIInv, FromDisk, Checking
  <2>2. SavedTrue(q)'
    BY <1>1, <2>1 DEF SavedTrue
  <2>3. CASE Gone(q)
    <3>1. state'[q] = NoEntry
      BY <2>3 DEF Gone, FimIInv, FimTyped
    <3>2. saved[q] # NoEntry => events'[q] = "none"
      BY <1>2, <2>1, <2>3 DEF FimIInv, FimTyped
    <3> QED
      BY <1>1, <2>1, <2>2, <3>1, <3>2 DEF Known, TellsState, TellsSaved, StateTrue
  <2>6. ASSUME ~Gone(q)
        PROVE  Known(q) /\ lostPaths' = lostPaths
    BY <1>2, <1>6, <2>6 DEF FimIInv
  <2>4. CASE Same(q)
    <3>1. UNCHANGED <<state, events, fimPc>> /\ state[q] # NoEntry
          /\ stalePaths' = stalePaths \ IF state[q].hash = file[q].content THEN {q} ELSE {}
      BY <2>4 DEF Same
    <3>2. Known(q)
      BY <2>4, <2>6 DEF Same, Gone
    <3> QED
      BY <1>1, <2>1, <2>2, <3>1, <3>2
         DEF Known, TellsState, TellsSaved, StateTrue, SavedTrue, Told, True, Checking
  <2>5. CASE Differs(q)
    <3>1. UNCHANGED <<state, events>> /\ fimPc' = "hash" /\ at' = q
      BY <2>5 DEF Differs
    <3>2. Known(q)
      BY <2>5, <2>6 DEF Differs, Gone
    <3> QED
      BY <1>1, <2>1, <2>2, <3>1, <3>2
         DEF Known, TellsState, TellsSaved, StateTrue, Told, Done, Checking
  <2> QED
    BY <2>3, <2>4, <2>5
<1> QED
  BY <1>1, <1>3, <1>4, <1>5, <1>6 DEF FimIInv

\* A hash that is new is told, and is the file's, or tells that it is not readable.
LEMMA HashKeeps ==
  ASSUME FileWatchBounds, FimIInv, NEW hash \in Hashes, Hash(hash)
  PROVE  FimIInv'
<1>1. /\ fimPc = "hash" /\ fimPc' = "check" /\ hash \in {"unreadable", file[at].content} \ {"none"}
      /\ state' = [state EXCEPT ![at] = [hash |-> hash, mtime |-> seenTime]]
      /\ \/ events' = [events EXCEPT ![at] = hash] /\ lostPaths' = lostPaths \ {at}
         \/ events' = events /\ lostPaths' = lostPaths /\ state[at] # NoEntry /\ state[at].hash = hash
      /\ UNCHANGED <<file, writes, active, saved, toCheck, at, heard, stalePaths>>
  BY DEF Hash, Entry, Tells
<1>2. hash # "nothing" /\ hash # "none"
  BY <1>1 DEF FimIInv, FimTyped, FileWatchBounds
<1>3. at \in Path \ toCheck /\ FimTyped' /\ FromDisk'
  BY <1>1 DEF FimIInv, FimTyped, FromDisk, Checking
<1>4. ASSUME NEW p \in Path \ lostPaths', p # at
      PROVE  Known(p)'
  <2>1. p \in Path \ lostPaths
    BY <1>1, <1>4
  <2> QED
    BY <1>1, <1>3, <1>4, <2>1, OthersKeep DEF Checking, FimIInv, FimTyped
<1>5. ASSUME at \notin lostPaths'
      PROVE  Known(at)'
  <2>1. state'[at] = [hash |-> hash, mtime |-> seenTime]
    BY <1>1, <1>3 DEF FimIInv, FimTyped
  <2>7. \/ events'[at] = hash
        \/ events' = events /\ Known(at) /\ state[at] # NoEntry /\ state[at].hash = hash
    BY <1>1, <1>3, <1>5 DEF FimIInv, FimTyped
  <2>2. Told(at)' = hash
    BY <1>1, <1>2, <1>3, <2>1, <2>7 DEF Known, TellsState, Told, FimIInv, FimTyped
  <2>3. TellsState(at)'
    BY <1>1, <2>1, <2>2 DEF TellsState
  <2>4. TellsSaved(at)'
    <3>1. CASE events' = events /\ Known(at)
      BY <1>1, <2>1, <3>1 DEF Known, TellsSaved, Told, Checking
    <3>2. CASE events'[at] = hash
      BY <1>1, <1>2, <1>3, <3>2 DEF TellsSaved, Checking, FimIInv, FimTyped
    <3> QED
      BY <2>7, <3>1, <3>2
  <2>5. StateTrue(at)' /\ SavedTrue(at)'
    BY <1>1, <1>3, <2>1 DEF StateTrue, SavedTrue, True, Checking
  <2> QED
    BY <2>3, <2>4, <2>5 DEF Known
<1> QED
  BY <1>1, <1>3, <1>4, <1>5 DEF FimIInv

\* The check ends, the baseline goes to the disk or the paths are counted as lostPaths, and
\* the events go out or are kept.
LEMMA EndKeeps ==
  ASSUME FimIInv,
         EndCheck \/ Dump \/ Ship
            \/ \E arrives \in BOOLEAN, dropped \in SUBSET Path : ShipFails(arrives, dropped)
  PROVE  FimIInv'
<1>1. UNCHANGED <<file, writes, active, toCheck, at, stalePaths>>
  BY DEF EndCheck, Dump, Ship, ShipFails, ShipEnds
<1>2. CASE EndCheck
  <2>1. /\ fimPc = "check" /\ toCheck = {} /\ fimPc' \in {"dump", "ship"}
        /\ state' = [p \in Path |-> IF p \in active THEN state[p] ELSE NoEntry]
        /\ UNCHANGED <<events, heard>> /\ lostPaths \subseteq lostPaths'
        /\ \/ saved' = [p \in Path |-> NoEntry]
           \/ fimPc' = "ship" /\ saved' = saved /\ \A p \in Path \ lostPaths' : saved[p] = state'[p]
    BY <1>2 DEF EndCheck
  <2>2. FimTyped' /\ FromDisk'
    BY <1>1, <2>1 DEF FimIInv, FimTyped, FromDisk, Checking
  <2>3. ASSUME NEW p \in Path \ lostPaths'
        PROVE  Known(p)'
    <3>1. Known(p) /\ (p \in active => Done(p)) /\ ~Checking'
      BY <2>1, <2>3 DEF FimIInv, Done, Checking
    <3>2. TellsState(p)' /\ StateTrue(p)'
      BY <1>1, <2>1, <3>1 DEF Known, TellsState, StateTrue, Told, True
    <3>3. saved'[p] = NoEntry \/ saved'[p] = state'[p]
      BY <2>1, <2>3
    <3>4. TellsSaved(p)' /\ SavedTrue(p)'
      BY <3>1, <3>2, <3>3 DEF TellsState, TellsSaved, StateTrue, SavedTrue, Done, True
    <3> QED
      BY <3>2, <3>4 DEF Known
  <2> QED
    BY <2>2, <2>3 DEF FimIInv
<1>3. CASE Dump
  <2>1. fimPc = "dump" /\ fimPc' = "ship" /\ saved' = state /\ UNCHANGED <<state, events,
        heard, lostPaths>>
    BY <1>3 DEF Dump
  <2>2. FimTyped' /\ FromDisk'
    BY <1>1, <2>1 DEF FimIInv, FimTyped, FromDisk, Checking
  <2>3. \A p \in Path \ lostPaths : Known(p)'
    BY <1>1, <2>1 DEF FimIInv, Known, TellsState, TellsSaved, StateTrue, SavedTrue, Told,
                      True,
       Done, Checking
  <2> QED
    BY <2>1, <2>2, <2>3 DEF FimIInv
<1>4. ASSUME ShipEnds, lostPaths \subseteq lostPaths',
             DOMAIN events' = Path, DOMAIN heard' = Path,
             \A p \in Path \ lostPaths' : Told(p)' = Told(p)
      PROVE  FimIInv'
  <2>1. fimPc = "ship" /\ fimPc' = "idle" /\ UNCHANGED <<saved, state>>
    BY <1>4 DEF ShipEnds
  <2>2. FimTyped' /\ FromDisk'
    BY <1>1, <1>4, <2>1 DEF FimIInv, FimTyped, FromDisk, Checking
  <2>3. ASSUME NEW p \in Path \ lostPaths'
        PROVE  Known(p)'
    <3>1. Known(p) /\ Told(p)' = Told(p)
      BY <1>4, <2>3 DEF FimIInv
    <3> QED
      BY <1>1, <2>1, <3>1 DEF Known, TellsState, TellsSaved, StateTrue, SavedTrue, True,
                              Done, Checking
  <2> QED
    BY <2>2, <2>3 DEF FimIInv
<1>5. CASE Ship
  <2>1. /\ DOMAIN events' = Path /\ DOMAIN heard' = Path
        /\ \A p \in Path : Told(p)' = Told(p)
    BY <1>5 DEF Ship, Arrived, Unshipped, Told, NoEvents, FimIInv, FimTyped
  <2> QED
    BY <1>4, <1>5, <2>1 DEF Ship
<1>6. ASSUME NEW arrives \in BOOLEAN, NEW dropped \in SUBSET Path, ShipFails(arrives, dropped)
      PROVE  FimIInv'
  <2>1. /\ DOMAIN events' = Path /\ DOMAIN heard' = Path
        /\ lostPaths' = lostPaths \cup IF arrives THEN {} ELSE dropped
        /\ heard' = IF arrives THEN Arrived ELSE heard
        /\ \A p \in Path : events'[p] = IF p \in dropped THEN "nothing" ELSE events[p]
    BY <1>6 DEF ShipFails, Arrived, FimIInv, FimTyped
  <2>2. \A p \in Path : Arrived[p] = IF events[p] # "nothing" THEN events[p] ELSE heard[p]
    BY DEF Arrived, Unshipped
  <2>3. \A p \in Path \ lostPaths' : Told(p)' = Told(p)
    BY <2>1, <2>2 DEF Told
  <2> QED
    BY <1>4, <1>6, <2>1, <2>3 DEF ShipFails
<1> QED
  BY <1>2, <1>3, <1>5, <1>6

\* An agent that stops loses what it has not shipped, and knows nothing for certain.
LEMMA StopKeeps ==
  ASSUME FimIInv, Stop
  PROVE  FimIInv'
<1>1. /\ lostPaths' = lostPaths \cup Unshipped
      /\ events' = NoEvents /\ active' = {} /\ fimPc' = "idle" /\ toCheck' = {} /\ stalePaths' = Path
      /\ UNCHANGED <<file, writes, saved, state, at, heard>>
  BY DEF Stop
<1>2. FimTyped' /\ FromDisk'
  BY <1>1 DEF FimIInv, FimTyped, FromDisk, Checking, NoEvents
<1>3. ASSUME NEW p \in Path \ lostPaths'
      PROVE  Known(p)'
  <2>1. Known(p) /\ events[p] = "nothing" /\ events'[p] = "nothing"
    BY <1>1, <1>3 DEF FimIInv, NoEvents, Unshipped
  <2> QED
    BY <1>1, <2>1 DEF Known, TellsState, TellsSaved, StateTrue, SavedTrue, Told
<1> QED
  BY <1>2, <1>3 DEF FimIInv

LEMMA FimStep ==
  ASSUME FileWatchBounds, FimIInv, [FimNext]_filesVars
  PROVE  FimIInv'
<1>1. CASE UNCHANGED filesVars
  BY <1>1 DEF filesVars, check, FimIInv, FimTyped, FromDisk, Checking, Known, TellsState,
              TellsSaved,
     StateTrue, SavedTrue, Told, True, Done
<1>2. CASE FimNext
  BY <1>2, FileKeeps, BetweenKeeps, LookKeeps, HashKeeps, EndKeeps, StopKeeps DEF FimNext
<1> QED
  BY <1>1, <1>2

\* Once a check is over, what the server was told of a watched file, or will be by
\* what is held, is what is in it: but for files that were not readable, that have
\* been written since, or whose last event or baseline is gone: with the agent, with a
\* batch that got no answer on macOS, or over the cap of the spool.
THEOREM ChangesAreTold ==
  ASSUME FileWatchBounds
  PROVE  FimSpec => []ChangesTold
<1>1. FimInit => FimIInv
  BY FimStarts
<1>2. FimIInv /\ [FimNext]_filesVars => FimIInv'
  BY FimStep
<1>3. FimIInv => ChangesTold
  <2> SUFFICES ASSUME FimIInv, fimPc \in {"ship", "idle"}, NEW p \in active \ (stalePaths \cup lostPaths),
                      state[p] # NoEntry
               PROVE  Told(p) \in {file[p].content, "unreadable"}
    BY DEF ChangesTold
  <2>1. Known(p) /\ Done(p)
    BY DEF FimIInv, FimTyped, Done, Checking
  <2> QED
    BY <2>1 DEF Known, TellsState, StateTrue, True
<1> QED
  BY <1>1, <1>2, <1>3, PTL DEF FimSpec

-----------------------------------------------------------------------------
(* Applying the logging policy.  An application that nothing ran beside has in *)
(* force what it has done so far.                                             *)

Running(t) == policyRun[t] # Applying!Idle
PolicyParts == Applying!Parts(policyKind)

PolicyTyped ==
    /\ policyKind \in {"auditd", "windows", "sysmon"} /\ desiredPolicy \in AuditPolicy
    /\ DOMAIN policyInForce = Applying!Part
    /\ toolPresent \in BOOLEAN /\ installCooling \in BOOLEAN /\ policyDoubt \in BOOLEAN
    /\ policyRun \in [Thread -> [at : Nat, target : AuditPolicy \cup {Unset}, alone : BOOLEAN]]
    /\ \A t \in Thread : Running(t) => policyRun[t].at > 0

\* Nothing runs beside an application that is alone, and what it has done is in force.
AloneInForce ==
    \A t \in Thread : Running(t) /\ policyRun[t].alone =>
        /\ \A u \in Thread : Running(u) => u = t
        /\ \A i \in DOMAIN PolicyParts :
               i < policyRun[t].at => policyInForce[PolicyParts[i]] = policyRun[t].target

SettledInForce ==
    Applying!Quiet /\ toolPresent /\ policyMemory # Unset /\ ~policyDoubt =>
        \A i \in DOMAIN PolicyParts : policyInForce[PolicyParts[i]] = policyMemory

\* The loop of Linux applies only what it does not remember, and one at a time.
AuditdAnew ==
    policyKind = "auditd" =>
        /\ \A t \in Thread : Running(t) =>
               toolPresent /\ policyRun[t].target # policyMemory
                           /\ \A u \in Thread : Running(u) => u = t
        /\ toolPresent /\ failedFor # Unset => policyMemory # failedFor

\* While an installation runs, the cooldown holds off the next; what failed before Sysmon
\* was there is forgotten when the one that succeeded remembers.
SysmonOnce ==
    policyKind = "sysmon" =>
        /\ ~toolPresent =>
               /\ policyMemory = Unset /\ (installCooling \/ Applying!Quiet)
               /\ \A t \in Thread : policyRun[t].at <= 1
        /\ toolPresent /\ failedFor # Unset =>
               policyMemory # failedFor \/ \E t \in Thread : policyRun[t].at = Applying!Last

\* Nobody remembers anything while an application of Windows is alone.
WindowsAnew ==
    policyKind = "windows" =>
        /\ \A t \in Thread : Running(t) /\ policyRun[t].alone => policyRun[t].target # policyMemory
        /\ failedFor # Unset => policyMemory # failedFor

PolicyInv ==
    /\ PolicyTyped /\ AloneInForce /\ SettledInForce
    /\ AuditdAnew /\ SysmonOnce /\ WindowsAnew

LEMMA PartsAreParts ==
    ASSUME PolicyTyped
    PROVE  /\ PolicyParts \in Seq(Applying!Part)
           /\ DOMAIN PolicyParts = 1 .. Len(PolicyParts)
           /\ Applying!Last = Len(PolicyParts) + 1 /\ Len(PolicyParts) \in 1 .. 3
           /\ policyKind = "sysmon" => Len(PolicyParts) = 1
<1>1. CASE policyKind = "auditd"
  BY <1>1 DEF PolicyParts, Applying!Parts, Applying!Part, Applying!Last
<1>2. CASE policyKind = "windows"
  BY <1>2 DEF PolicyParts, Applying!Parts, Applying!Part, Applying!Last
<1>3. CASE policyKind = "sysmon"
  BY <1>3 DEF PolicyParts, Applying!Parts, Applying!Part, Applying!Last
<1> QED  BY <1>1, <1>2, <1>3 DEF PolicyTyped

LEMMA PolicyInitially == Applying!PolicyBounds /\ Applying!Init => PolicyInv
<1> SUFFICES ASSUME Applying!PolicyBounds, Applying!Init  PROVE PolicyInv
  OBVIOUS
<1>1. PolicyTyped
  BY DEF Applying!Init, PolicyTyped, Running, Applying!Idle
<1>2. AloneInForce /\ SettledInForce
  BY DEF Applying!Init, AloneInForce, SettledInForce, Running
<1>3. \A t \in Thread : policyRun[t] = Applying!Idle /\ policyRun[t].at = 0
  BY DEF Applying!Init, Applying!Idle
<1>4. AuditdAnew /\ SysmonOnce /\ WindowsAnew
  BY <1>3 DEF Applying!Init, AuditdAnew, SysmonOnce, WindowsAnew, Running, Applying!Quiet
<1> QED  BY <1>1, <1>2, <1>4 DEF PolicyInv

LEMMA PolicyIdles ==
    ASSUME PolicyInv, desiredPolicy' \in AuditPolicy,
           UNCHANGED <<policyKind, policyInForce, policyMemory, toolPresent, policyRun,
                       policyDoubt, failedFor>>,
           \/ installCooling' = installCooling
           \/ Applying!Quiet /\ installCooling' \in BOOLEAN
    PROVE  PolicyInv'
<1>1. PolicyTyped'  BY DEF PolicyInv, PolicyTyped, Running
<1>2. AloneInForce' /\ SettledInForce'
  BY DEF PolicyInv, AloneInForce, SettledInForce, Running, PolicyParts, Applying!Quiet
<1>3. AuditdAnew' /\ WindowsAnew'
  BY DEF PolicyInv, AuditdAnew, WindowsAnew, Running
<1>4. SysmonOnce'
  BY DEF PolicyInv, SysmonOnce, Applying!Quiet, Applying!Last
<1> QED  BY <1>1, <1>2, <1>3, <1>4 DEF PolicyInv

\* An application that begins puts an end to the solitude of the others.
LEMMA BeginsKeeps ==
    ASSUME PolicyInv, Applying!PolicyBounds, NEW t \in Thread,
           \/ Applying!ReconcileLinux(t) \/ Applying!ReconcileWindows(t)
           \/ Applying!UpdateSysmon(t)
    PROVE  PolicyInv'
<1> DEFINE target == IF policyKind = "sysmon" THEN Unset ELSE desiredPolicy
           begun == [at |-> 1, target |-> target, alone |-> Applying!Quiet]
<1>1. /\ UNCHANGED <<policyKind, desiredPolicy, policyInForce, policyMemory, toolPresent,
                     installCooling, policyDoubt, failedFor>>
      /\ ~Running(t) /\ desiredPolicy # policyMemory
      /\ policyRun' = [u \in Thread |->
             IF u = t THEN begun
             ELSE IF policyRun[u] = Applying!Idle THEN Applying!Idle
                  ELSE [policyRun[u] EXCEPT !.alone = FALSE]]
      /\ policyKind = "auditd" => toolPresent /\ Applying!Quiet
      /\ policyKind = "sysmon" => toolPresent
  BY DEF Applying!ReconcileLinux, Applying!ReconcileWindows, Applying!UpdateSysmon,
         Applying!Begins, Running, PolicyInv, PolicyTyped
<1>2. /\ policyRun'[t] = begun /\ Running(t)'
      /\ \A u \in Thread : u # t /\ ~Running(u) => policyRun'[u] = policyRun[u] /\ ~Running(u)'
      /\ \A u \in Thread : u # t /\ Running(u) =>
            /\ policyRun'[u].at = policyRun[u].at /\ policyRun'[u].target = policyRun[u].target
            /\ ~policyRun'[u].alone /\ Running(u)'
  BY <1>1 DEF PolicyInv, PolicyTyped, Running, Applying!Idle
<1>3. PolicyTyped'
  <2>1. policyRun' \in [Thread -> [at : Nat, target : AuditPolicy \cup {Unset}, alone : BOOLEAN]]
    BY <1>1 DEF PolicyInv, PolicyTyped, Applying!Quiet, Applying!Idle
  <2>2. \A u \in Thread : Running(u)' => policyRun'[u].at > 0
    BY <1>2 DEF PolicyInv, PolicyTyped
  <2> QED  BY <1>1, <2>1, <2>2 DEF PolicyInv, PolicyTyped
<1>4. AloneInForce'
  <2> SUFFICES ASSUME NEW u \in Thread, Running(u)', policyRun'[u].alone
               PROVE  /\ \A v \in Thread : Running(v)' => v = u
                      /\ \A i \in DOMAIN PolicyParts' : i < policyRun'[u].at =>
                            policyInForce'[PolicyParts'[i]] = policyRun'[u].target
    BY DEF AloneInForce
  <2>1. u = t /\ Applying!Quiet  BY <1>2
  <2>2. \A v \in Thread : Running(v)' => v = u
    BY <1>2, <2>1 DEF Applying!Quiet, Running
  <2>3. \A i \in DOMAIN PolicyParts' : ~(i < policyRun'[u].at)
    BY <1>1, <1>2, <2>1, PartsAreParts DEF PolicyInv, PolicyParts
  <2> QED  BY <2>2, <2>3
<1>5. ~Applying!Quiet'  BY <1>2 DEF Applying!Quiet, Running
<1>6. SettledInForce'  BY <1>5 DEF SettledInForce
<1>7. AuditdAnew'
  BY <1>1, <1>2 DEF PolicyInv, AuditdAnew, Applying!Quiet, Running
<1>8. SysmonOnce'
  BY <1>1, <1>2, PartsAreParts
  DEF PolicyInv, PolicyTyped, SysmonOnce, Applying!Last, Running, Applying!Idle
<1>9. WindowsAnew'  BY <1>1, <1>2 DEF PolicyInv, WindowsAnew
<1> QED  BY <1>3, <1>4, <1>6, <1>7, <1>8, <1>9 DEF PolicyInv

LEMMA InstallKeeps ==
    ASSUME PolicyInv, Applying!PolicyBounds, NEW t \in Thread, Applying!InstallSysmon(t)
    PROVE  PolicyInv'
<1> DEFINE begun == [at |-> 1, target |-> Unset, alone |-> Applying!Quiet]
<1>1. /\ UNCHANGED <<policyKind, desiredPolicy, policyInForce, policyMemory, toolPresent,
                     policyDoubt, failedFor>>
      /\ policyKind = "sysmon" /\ ~toolPresent /\ ~installCooling /\ installCooling' = TRUE
      /\ policyRun' = [policyRun EXCEPT ![t] = begun]
  BY DEF Applying!InstallSysmon
<1>2. Applying!Quiet  BY <1>1 DEF PolicyInv, SysmonOnce
<1>3. /\ policyRun'[t] = begun /\ Running(t)'
      /\ \A u \in Thread : u # t => ~Running(u)'
  BY <1>1, <1>2 DEF PolicyInv, PolicyTyped, Running, Applying!Idle, Applying!Quiet
<1>4. PolicyTyped'
  <2>1. begun \in [at : Nat, target : AuditPolicy \cup {Unset}, alone : BOOLEAN]
    BY DEF Applying!Quiet
  <2> HIDE DEF begun
  <2>2. policyRun' \in [Thread -> [at : Nat, target : AuditPolicy \cup {Unset}, alone : BOOLEAN]]
    BY <1>1, <2>1 DEF PolicyInv, PolicyTyped
  <2>3. \A u \in Thread : Running(u)' => policyRun'[u].at > 0
    BY <1>3 DEF begun
  <2> QED  BY <1>1, <2>2, <2>3 DEF PolicyInv, PolicyTyped
<1>5. AloneInForce'
  <2>1. \A i \in DOMAIN PolicyParts' : ~(i < policyRun'[t].at)
    BY <1>1, <1>3, PartsAreParts DEF PolicyInv, PolicyParts
  <2> QED  BY <1>3, <2>1 DEF AloneInForce
<1>6. SettledInForce' /\ SysmonOnce' /\ AuditdAnew' /\ WindowsAnew'
  BY <1>1 DEF PolicyInv, SettledInForce, SysmonOnce, AuditdAnew, WindowsAnew
<1> QED  BY <1>4, <1>5, <1>6 DEF PolicyInv

LEMMA FetchKeeps ==
    ASSUME PolicyInv, NEW t \in Thread, Applying!Fetch(t)  PROVE  PolicyInv'
<1>1. /\ UNCHANGED <<policyKind, desiredPolicy, policyInForce, policyMemory, toolPresent,
                     installCooling, policyDoubt, failedFor>>
      /\ policyKind = "sysmon" /\ policyRun[t].at = 1
      /\ policyRun' = [policyRun EXCEPT ![t].target = desiredPolicy]
  BY DEF Applying!Fetch
<1>2. /\ policyRun'[t].at = 1 /\ policyRun'[t].alone = policyRun[t].alone
      /\ Running(t) /\ Running(t)'
      /\ \A u \in Thread : u # t => policyRun'[u] = policyRun[u] /\ Running(u)' = Running(u)
  BY <1>1 DEF PolicyInv, PolicyTyped, Running, Applying!Idle
<1>3. PolicyTyped'
  <2>1. policyRun' \in [Thread -> [at : Nat, target : AuditPolicy \cup {Unset}, alone : BOOLEAN]]
    BY <1>1 DEF PolicyInv, PolicyTyped
  <2> QED  BY <1>1, <1>2, <2>1 DEF PolicyInv, PolicyTyped
<1>4. AloneInForce'
  <2>1. \A i \in DOMAIN PolicyParts' : ~(i < policyRun'[t].at)
    BY <1>1, <1>2, PartsAreParts DEF PolicyInv, PolicyParts
  <2>2. PolicyParts' = PolicyParts  BY <1>1 DEF PolicyParts
  <2> QED  BY <1>1, <1>2, <2>1, <2>2 DEF PolicyInv, AloneInForce
<1>5. ~Applying!Quiet' /\ ~Applying!Quiet  BY <1>2 DEF Applying!Quiet, Running
<1>6. SysmonOnce'
  <2>1. Applying!Last' = Applying!Last  BY <1>1 DEF Applying!Last
  <2>2. \A u \in Thread : policyRun'[u].at = policyRun[u].at  BY <1>1, <1>2
  <2> QED  BY <1>1, <1>5, <2>1, <2>2 DEF PolicyInv, SysmonOnce
<1>7. SettledInForce' /\ AuditdAnew' /\ WindowsAnew'
  BY <1>1, <1>5 DEF PolicyInv, SettledInForce, AuditdAnew, WindowsAnew
<1> QED  BY <1>3, <1>4, <1>6, <1>7 DEF PolicyInv

\* A command, whether it works or fails unseen: one step further.
LEMMA StepUnderway ==
    ASSUME PolicyInv, NEW t \in Thread, policyRun[t].at \in DOMAIN PolicyParts,
           NEW alone \in BOOLEAN,
           policyRun' = [policyRun EXCEPT ![t] =
               [at |-> @.at + 1, target |-> @.target, alone |-> alone]]
    PROVE  /\ Running(t) /\ Running(t)' /\ policyRun'[t].at = policyRun[t].at + 1
           /\ policyRun'[t].target = policyRun[t].target /\ policyRun'[t].alone = alone
           /\ policyRun[t].at \in Nat
           /\ \A u \in Thread : u # t => policyRun'[u] = policyRun[u] /\ Running(u)' = Running(u)
           /\ policyRun' \in [Thread -> [at : Nat, target : AuditPolicy \cup {Unset}, alone : BOOLEAN]]
           /\ ~Applying!Quiet /\ ~Applying!Quiet'
<1>1. policyRun[t].at \in Nat \ {0}  BY PartsAreParts DEF PolicyInv
<1>2. Running(t)  BY <1>1 DEF Running, Applying!Idle
<1>3. /\ policyRun'[t] = [at |-> policyRun[t].at + 1, target |-> policyRun[t].target,
                          alone |-> alone]
      /\ policyRun[t] \in [at : Nat, target : AuditPolicy \cup {Unset}, alone : BOOLEAN]
      /\ \A u \in Thread : u # t => policyRun'[u] = policyRun[u]
  BY DEF PolicyInv, PolicyTyped
<1>4. policyRun'[t].at = policyRun[t].at + 1
      /\ policyRun'[t].target = policyRun[t].target /\ policyRun'[t].alone = alone
      /\ policyRun'[t] \in [at : Nat, target : AuditPolicy \cup {Unset}, alone : BOOLEAN]
  BY <1>1, <1>3
<1>5. Running(t)'  BY <1>1, <1>4 DEF Running, Applying!Idle
<1>6. policyRun' \in [Thread -> [at : Nat, target : AuditPolicy \cup {Unset}, alone : BOOLEAN]]
  BY <1>4 DEF PolicyInv, PolicyTyped
<1> QED  BY <1>1, <1>2, <1>3, <1>4, <1>5, <1>6 DEF Running, Applying!Quiet

LEMMA CommandKeeps ==
    ASSUME PolicyInv, NEW t \in Thread, Applying!Command(t)  PROVE  PolicyInv'
<1> DEFINE part == policyRun[t].at
<1>1. /\ UNCHANGED <<policyKind, desiredPolicy, policyMemory, installCooling, policyDoubt,
                     failedFor>>
      /\ part \in DOMAIN PolicyParts /\ policyRun[t].target # Unset /\ toolPresent' = TRUE
      /\ policyInForce' = [policyInForce EXCEPT ![PolicyParts[part]] = policyRun[t].target]
      /\ policyRun' = [policyRun EXCEPT ![t].at = @ + 1]
  BY DEF Applying!Command, PolicyParts
<1>2. policyRun' = [policyRun EXCEPT ![t] =
             [at |-> @.at + 1, target |-> @.target, alone |-> policyRun[t].alone]]
      /\ policyRun[t].alone \in BOOLEAN
  <2>1. policyRun[t] \in [at : Nat, target : AuditPolicy \cup {Unset}, alone : BOOLEAN]
    BY DEF PolicyInv, PolicyTyped
  <2>2. [policyRun[t] EXCEPT !.at = @ + 1] =
            [at |-> policyRun[t].at + 1, target |-> policyRun[t].target,
             alone |-> policyRun[t].alone]
    BY <2>1
  <2> QED  BY <1>1, <2>1, <2>2
<1>3. /\ Running(t) /\ Running(t)' /\ policyRun'[t].at = part + 1 /\ part \in Nat
      /\ policyRun'[t].target = policyRun[t].target /\ policyRun'[t].alone = policyRun[t].alone
      /\ \A u \in Thread : u # t => policyRun'[u] = policyRun[u] /\ Running(u)' = Running(u)
      /\ policyRun' \in [Thread -> [at : Nat, target : AuditPolicy \cup {Unset}, alone : BOOLEAN]]
      /\ ~Applying!Quiet'
  BY <1>1, <1>2, StepUnderway
<1>4. PolicyTyped'
  BY <1>1, <1>3 DEF PolicyInv, PolicyTyped
<1>5. PolicyParts' = PolicyParts  BY <1>1 DEF PolicyParts
<1>6. AloneInForce'
  <2> SUFFICES ASSUME NEW u \in Thread, Running(u)', policyRun'[u].alone
               PROVE  /\ \A v \in Thread : Running(v)' => v = u
                      /\ \A i \in DOMAIN PolicyParts : i < policyRun'[u].at =>
                            policyInForce'[PolicyParts[i]] = policyRun'[u].target
    BY <1>5 DEF AloneInForce
  <2>1. Running(u) /\ policyRun[u].alone  BY <1>3
  <2>2. \A v \in Thread : Running(v) => v = u  BY <2>1 DEF PolicyInv, AloneInForce
  <2>3. u = t  BY <1>3, <2>2
  <2>4. ASSUME NEW i \in DOMAIN PolicyParts, i < part + 1
        PROVE  policyInForce'[PolicyParts[i]] = policyRun[t].target
    <3>1. PolicyParts[i] \in Applying!Part /\ i \in Int
      BY PartsAreParts DEF PolicyInv
    <3>2. CASE i = part  BY <1>1, <3>1, <3>2 DEF PolicyInv, PolicyTyped
    <3>3. CASE i < part
      <4>1. policyInForce[PolicyParts[i]] = policyRun[t].target
        BY <2>1, <2>3, <3>3 DEF PolicyInv, AloneInForce
      <4> QED  BY <1>1, <3>1, <4>1 DEF PolicyInv, PolicyTyped
    <3> QED  BY <1>3, <2>4, <3>1, <3>2, <3>3
  <2> QED  BY <1>3, <2>2, <2>3, <2>4
<1>7. SettledInForce'  BY <1>3 DEF SettledInForce
<1>8. AuditdAnew'
  <2> SUFFICES ASSUME policyKind = "auditd"  PROVE AuditdAnew'
    BY <1>1 DEF AuditdAnew
  <2>1. toolPresent  BY <1>3 DEF PolicyInv, AuditdAnew
  <2> QED  BY <1>1, <1>3, <2>1 DEF PolicyInv, AuditdAnew
<1>9. SysmonOnce'
  <2> SUFFICES ASSUME policyKind = "sysmon"
               PROVE  policyRun'[t].at = Applying!Last'
    BY <1>1 DEF SysmonOnce
  <2>1. Len(PolicyParts) = 1 /\ DOMAIN PolicyParts = 1 .. Len(PolicyParts)
    BY PartsAreParts DEF PolicyInv
  <2>3. part = 1  BY <1>1, <2>1
  <2>2. Applying!Last' = Len(PolicyParts) + 1
    BY <1>5 DEF Applying!Last, PolicyParts
  <2> QED  BY <1>3, <2>1, <2>2, <2>3
<1>10. WindowsAnew'  BY <1>1, <1>3 DEF PolicyInv, WindowsAnew
<1> QED  BY <1>4, <1>6, <1>7, <1>8, <1>9, <1>10 DEF PolicyInv

LEMMA FailsUnseenKeeps ==
    ASSUME PolicyInv, NEW t \in Thread, Applying!FailsUnseen(t)  PROVE  PolicyInv'
<1> DEFINE part == policyRun[t].at
<1>1. /\ UNCHANGED <<policyKind, desiredPolicy, policyInForce, policyMemory, toolPresent,
                     installCooling, policyDoubt, failedFor>>
      /\ policyKind = "windows" \/ (policyKind = "sysmon" /\ toolPresent)
      /\ part \in DOMAIN PolicyParts
      /\ policyRun' = [policyRun EXCEPT ![t] =
             [at |-> @.at + 1, target |-> @.target, alone |-> FALSE]]
  BY DEF Applying!FailsUnseen, PolicyParts
<1>2. /\ Running(t) /\ Running(t)' /\ policyRun'[t].at = part + 1 /\ part \in Nat
      /\ ~policyRun'[t].alone
      /\ \A u \in Thread : u # t => policyRun'[u] = policyRun[u] /\ Running(u)' = Running(u)
      /\ policyRun' \in [Thread -> [at : Nat, target : AuditPolicy \cup {Unset}, alone : BOOLEAN]]
      /\ ~Applying!Quiet'
  BY <1>1, StepUnderway
<1>3. PolicyTyped'  BY <1>1, <1>2 DEF PolicyInv, PolicyTyped
<1>4. PolicyParts' = PolicyParts /\ Applying!Last' = Applying!Last
  BY <1>1 DEF PolicyParts, Applying!Last
<1>5. AloneInForce'  BY <1>1, <1>2, <1>4 DEF PolicyInv, AloneInForce
<1>6. SysmonOnce'
  <2> SUFFICES ASSUME policyKind = "sysmon"
               PROVE  policyRun'[t].at = Applying!Last'
    BY <1>1 DEF SysmonOnce
  <2>1. /\ Len(PolicyParts) = 1 /\ DOMAIN PolicyParts = 1 .. Len(PolicyParts)
        /\ Applying!Last = Len(PolicyParts) + 1
    BY PartsAreParts DEF PolicyInv
  <2>2. part = 1  BY <1>1, <2>1
  <2> QED  BY <1>2, <1>4, <2>1, <2>2
<1>7. SettledInForce' /\ AuditdAnew' /\ WindowsAnew'
  BY <1>1, <1>2 DEF PolicyInv, SettledInForce, AuditdAnew, WindowsAnew
<1> QED  BY <1>3, <1>5, <1>6, <1>7 DEF PolicyInv

\* An application ends.
LEMMA RunOver ==
    ASSUME PolicyInv, NEW t \in Thread, policyRun' = [policyRun EXCEPT ![t] = Applying!Idle]
    PROVE  /\ ~Running(t)' /\ policyRun'[t].at = 0
           /\ \A u \in Thread : u # t => policyRun'[u] = policyRun[u] /\ Running(u)' = Running(u)
           /\ policyRun' \in [Thread -> [at : Nat, target : AuditPolicy \cup {Unset}, alone : BOOLEAN]]
           /\ \A u \in Thread : Running(u)' => policyRun'[u].at > 0
BY DEF PolicyInv, PolicyTyped, Running, Applying!Idle

LEMMA FailsSeenKeeps ==
    ASSUME PolicyInv, Applying!PolicyBounds, NEW t \in Thread, Applying!FailsSeen(t)
    PROVE  PolicyInv'
<1>1. /\ UNCHANGED <<policyKind, desiredPolicy, policyMemory, toolPresent, installCooling>>
      /\ policyRun[t].at \in DOMAIN PolicyParts /\ policyRun[t].target # Unset
      /\ DOMAIN policyInForce' = DOMAIN policyInForce
      /\ policyKind = "sysmon" /\ ~toolPresent => policyInForce' = policyInForce
      /\ failedFor' = IF Applying!Fresh(t) THEN policyRun[t].target ELSE failedFor
      /\ policyDoubt' = TRUE /\ policyRun' = [policyRun EXCEPT ![t] = Applying!Idle]
  BY DEF Applying!FailsSeen, Applying!AfterFailure, PolicyParts
<1>2. Running(t)
  <2>1. policyRun[t].at \in Nat \ {0}  BY <1>1, PartsAreParts DEF PolicyInv
  <2> QED  BY <2>1 DEF Running, Applying!Idle
<1>3. PolicyTyped'
  BY <1>1, RunOver DEF PolicyInv, PolicyTyped
<1>4. AloneInForce'
  <2>1. \A u \in Thread : Running(u)' => ~policyRun'[u].alone
    BY <1>1, <1>2, RunOver DEF PolicyInv, AloneInForce
  <2> QED  BY <2>1 DEF AloneInForce
<1>5. SettledInForce'  BY <1>1 DEF SettledInForce
<1>6. AuditdAnew'
  BY <1>1, <1>2, RunOver DEF PolicyInv, AuditdAnew
<1>7. SysmonOnce'
  <2> SUFFICES ASSUME policyKind = "sysmon"  PROVE SysmonOnce'
    BY <1>1 DEF SysmonOnce
  <2>1. CASE ~toolPresent
    <3>1. ~toolPresent' /\ policyMemory' = Unset /\ installCooling'
      BY <1>1, <1>2, <2>1 DEF PolicyInv, SysmonOnce, Applying!Quiet, Running
    <3>2. \A u \in Thread : policyRun[u].at <= 1  BY <2>1 DEF PolicyInv, SysmonOnce
    <3>3. \A u \in Thread : policyRun'[u].at <= 1
      <4>1. /\ policyRun'[t].at = 0
            /\ \A u \in Thread : u # t => policyRun'[u] = policyRun[u]
        BY <1>1, RunOver
      <4> QED  BY <3>2, <4>1
    <3> QED  BY <3>1, <3>3 DEF SysmonOnce
  <2>2. CASE toolPresent
    <3>1. policyRun[t].at # Applying!Last
      BY <1>1, PartsAreParts DEF PolicyInv
    <3>2. Applying!Last' = Applying!Last  BY <1>1 DEF Applying!Last
    <3>3. failedFor' # Unset =>
              \/ policyMemory' # failedFor'
              \/ \E u \in Thread : u # t /\ policyRun[u].at = Applying!Last
      BY <1>1, <2>2, <3>1 DEF PolicyInv, SysmonOnce, Applying!Fresh
    <3> QED  BY <1>1, <2>2, <3>2, <3>3, RunOver DEF SysmonOnce
  <2> QED  BY <2>1, <2>2 DEF PolicyInv, PolicyTyped
<1>8. WindowsAnew'
  <2>1. \A u \in Thread : Running(u)' => ~policyRun'[u].alone
    BY <1>1, <1>2, RunOver DEF PolicyInv, AloneInForce
  <2> QED  BY <1>1, <1>2, <2>1 DEF PolicyInv, WindowsAnew, Applying!Fresh
<1> QED  BY <1>3, <1>4, <1>5, <1>6, <1>7, <1>8 DEF PolicyInv

\* What was applied alone, to its end, is in force in every part.
LEMMA RememberKeeps ==
    ASSUME PolicyInv, Applying!PolicyBounds, NEW t \in Thread, Applying!Remember(t)
    PROVE  PolicyInv'
<1>1. /\ UNCHANGED <<policyKind, desiredPolicy, policyInForce, toolPresent, installCooling>>
      /\ policyRun[t].at = Applying!Last /\ policyMemory' = policyRun[t].target
      /\ policyDoubt' = ~policyRun[t].alone /\ failedFor' = Unset
      /\ policyRun' = [policyRun EXCEPT ![t] = Applying!Idle]
  BY DEF Applying!Remember
<1>2. Running(t)
  <2>1. policyRun[t].at \in Nat \ {0}  BY <1>1, PartsAreParts DEF PolicyInv
  <2> QED  BY <2>1 DEF Running, Applying!Idle
<1>3. PolicyTyped'
  BY <1>1, RunOver DEF PolicyInv, PolicyTyped
<1>4. PolicyParts' = PolicyParts  BY <1>1 DEF PolicyParts
<1>5. AloneInForce'
  BY <1>1, <1>4, RunOver DEF PolicyInv, AloneInForce
<1>6. SettledInForce'
  <2> SUFFICES ASSUME policyRun[t].alone, NEW i \in DOMAIN PolicyParts
               PROVE  policyInForce[PolicyParts[i]] = policyRun[t].target
    BY <1>1, <1>4 DEF SettledInForce
  <2>1. i < policyRun[t].at  BY <1>1, PartsAreParts DEF PolicyInv
  <2> QED  BY <1>2, <2>1 DEF PolicyInv, AloneInForce
<1>7. AuditdAnew'
  BY <1>1, <1>2, RunOver DEF PolicyInv, AuditdAnew
<1>8. SysmonOnce'
  <2> SUFFICES ASSUME policyKind = "sysmon"  PROVE SysmonOnce'
    BY <1>1 DEF SysmonOnce
  <2>1. policyRun[t].at = 2
    <3>1. Applying!Last = Len(PolicyParts) + 1 /\ Len(PolicyParts) = 1
      BY PartsAreParts DEF PolicyInv
    <3> QED  BY <1>1, <3>1
  <2>2. toolPresent  BY <2>1 DEF PolicyInv, PolicyTyped, SysmonOnce
  <2> QED  BY <1>1, <2>2 DEF SysmonOnce
<1>9. WindowsAnew'
  <2>1. \A u \in Thread : Running(u)' => ~policyRun'[u].alone
    BY <1>1, <1>2, RunOver DEF PolicyInv, AloneInForce
  <2> QED  BY <1>1, <2>1 DEF WindowsAnew
<1> QED  BY <1>3, <1>5, <1>6, <1>7, <1>8, <1>9 DEF PolicyInv

LEMMA NoAuditdKeeps ==
    ASSUME PolicyInv, Applying!NoAuditd  PROVE  PolicyInv'
<1>1. /\ UNCHANGED <<policyKind, desiredPolicy, policyInForce, toolPresent, installCooling,
                     policyRun, policyDoubt, failedFor>>
      /\ policyKind = "auditd" /\ ~toolPresent
  BY DEF Applying!NoAuditd
<1>2. PolicyTyped'  BY <1>1 DEF PolicyInv, PolicyTyped, Running
<1>3. AloneInForce' /\ SettledInForce'
  BY <1>1 DEF PolicyInv, AloneInForce, SettledInForce, Running, PolicyParts
<1>4. AuditdAnew'
  BY <1>1 DEF PolicyInv, AuditdAnew, Running
<1>5. SysmonOnce' /\ WindowsAnew'  BY <1>1 DEF SysmonOnce, WindowsAnew
<1> QED  BY <1>2, <1>3, <1>4, <1>5 DEF PolicyInv

\* A restart forgets a global, and leaves doubt about what it interrupts.
LEMMA RestartKeeps ==
    ASSUME PolicyInv, Applying!PolicyBounds, Applying!Restart  PROVE  PolicyInv'
<1>1. /\ UNCHANGED <<policyKind, desiredPolicy, policyInForce, toolPresent, installCooling>>
      /\ policyRun' = [t \in Thread |-> Applying!Idle]
      /\ policyMemory' = IF policyKind = "sysmon" THEN policyMemory ELSE Unset
      /\ policyDoubt' = (policyDoubt \/ ~Applying!Quiet) /\ failedFor' = Unset
  BY DEF Applying!Restart
<1>2. /\ \A t \in Thread : ~Running(t)'
      /\ policyRun' \in [Thread -> [at : Nat, target : AuditPolicy \cup {Unset}, alone : BOOLEAN]]
  BY <1>1 DEF Running, Applying!Idle
<1>3. PolicyTyped'
  BY <1>1, <1>2 DEF PolicyInv, PolicyTyped, Applying!Quiet
<1>4. AloneInForce'  BY <1>2 DEF AloneInForce
<1>5. SettledInForce'
  <2> SUFFICES ASSUME toolPresent, policyMemory' # Unset, ~policyDoubt'  PROVE SettledInForce'
    BY <1>1 DEF SettledInForce
  <2>1. Applying!Quiet /\ ~policyDoubt /\ policyMemory' = policyMemory
    BY <1>1
  <2> QED  BY <1>1, <2>1 DEF PolicyInv, SettledInForce, PolicyParts
<1>6. AuditdAnew'  BY <1>1, <1>2 DEF AuditdAnew
<1>7. SysmonOnce'
  <2>1. \A t \in Thread : policyRun'[t].at = 0  BY <1>1 DEF Applying!Idle
  <2> QED  BY <1>1, <1>2, <2>1 DEF PolicyInv, SysmonOnce, Applying!Quiet, Running
<1>8. WindowsAnew'  BY <1>1, <1>2 DEF WindowsAnew
<1> QED  BY <1>3, <1>4, <1>5, <1>6, <1>7, <1>8 DEF PolicyInv

LEMMA PolicyStepKeeps ==
    ASSUME PolicyInv, Applying!PolicyBounds, [Applying!Next]_(Applying!vars)
    PROVE  PolicyInv'
<1>1. CASE UNCHANGED Applying!vars
  BY <1>1, PolicyIdles DEF Applying!vars, PolicyInv, PolicyTyped
<1>2. CASE \E s \in AuditPolicy : Applying!Change(s)
  BY <1>2, PolicyIdles DEF Applying!Change
<1>3. CASE Applying!Cool
  BY <1>3, PolicyIdles DEF Applying!Cool, PolicyInv, PolicyTyped
<1>4. CASE Applying!NoAuditd \/ Applying!Restart
  BY <1>4, NoAuditdKeeps, RestartKeeps
<1>5. CASE \E t \in Thread :
              \/ Applying!ReconcileLinux(t) \/ Applying!ReconcileWindows(t)
              \/ Applying!UpdateSysmon(t) \/ Applying!InstallSysmon(t)
              \/ Applying!Fetch(t) \/ Applying!Command(t) \/ Applying!FailsUnseen(t)
              \/ Applying!FailsSeen(t) \/ Applying!Remember(t)
  BY <1>5, BeginsKeeps, InstallKeeps, FetchKeeps, CommandKeeps, FailsUnseenKeeps,
     FailsSeenKeeps, RememberKeeps
<1> QED  BY <1>1, <1>2, <1>3, <1>4, <1>5 DEF Applying!Next

\* What the endpoint remembers to have applied is in force, if the last application was
\* alone and saw no failure; what was seen to fail is not taken for applied.
THEOREM WhatIsRememberedIsInForce ==
    ASSUME Applying!PolicyBounds  PROVE  Applying!Spec => []Applying!PolicyFollows
<1>1. Applying!Init => PolicyInv  BY PolicyInitially
<1>2. PolicyInv /\ [Applying!Next]_(Applying!vars) => PolicyInv'  BY PolicyStepKeeps
<1>3. PolicyInv => Applying!PolicyFollows
  <2> SUFFICES ASSUME PolicyInv, Applying!Quiet, toolPresent
               PROVE  /\ policyMemory # Unset /\ ~policyDoubt =>
                            \A p \in Applying!Mine : policyInForce[p] = policyMemory
                      /\ failedFor # Unset => policyMemory # failedFor
    BY DEF Applying!PolicyFollows
  <2>1. policyMemory # Unset /\ ~policyDoubt =>
            \A p \in Applying!Mine : policyInForce[p] = policyMemory
    BY DEF PolicyInv, SettledInForce, Applying!Mine, PolicyParts
  <2>2. \A t \in Thread : policyRun[t].at # Applying!Last
    <3>1. \A t \in Thread : policyRun[t].at = 0  BY DEF Applying!Quiet, Applying!Idle
    <3>2. Applying!Last # 0  BY PartsAreParts DEF PolicyInv
    <3> QED  BY <3>1, <3>2
  <2>3. failedFor # Unset => policyMemory # failedFor
    BY <2>2 DEF PolicyInv, PolicyTyped, AuditdAnew, SysmonOnce, WindowsAnew
  <2> QED  BY <2>1, <2>3
<1> QED  BY <1>1, <1>2, <1>3, PTL DEF Applying!Spec

-----------------------------------------------------------------------------
(* The file of the channels.  Requests overlap; as long as none has written    *)
(* over what it had not read, the file says what it should, or is being        *)
(* written by the one request that had read exactly that.                      *)

Asks(c) == channelCall[c] # Choosing!Idle
Request ==
    [kind : Choosing!Kind, at : {"start", "empty", "write", "act"}, next : {"act", "done"},
     read : Choosing!File, file : Choosing!File, group : Choosing!Groups,
     on : SUBSET Choosing!Channels]

ChannelsTyped ==
    /\ channelFile \in Choosing!File /\ channelCall \in [Asker -> Request]
    /\ saveClashed \in BOOLEAN
    /\ retiredChannels \subseteq AgentGroup \X Custom
    /\ \A c \in Asker :
          /\ channelCall[c].at = "start" \/ channelCall[c].kind = "none" => ~Asks(c)
          /\ channelCall[c].kind = "drop" => channelCall[c].group \in AgentGroup
          /\ channelCall[c].kind \in {"define", "remove"} => \E x \in Custom : channelCall[c].on = {x}

\* A file that a read leaves alone: the default template is there, and no template
\* names a channel that does not exist.
Tidy(text) ==
    /\ text \in Choosing!File /\ text.groups[Choosing!Default] # Unset
    /\ \A g \in Choosing!Groups :
          text.groups[g] # Unset => text.groups[g] \subseteq BuiltIn \cup text.custom

\* What a request is to write is what it makes of a text.
MadeOf(c, text) ==
    /\ channelCall[c].kind \in {"save", "drop", "define", "remove"}
    /\ channelCall[c].file = Choosing!Made(channelCall[c].kind, text, channelCall[c].group,
                                           channelCall[c].on)

\* Where each request is, against what it read and what the file should say.
InStep(c) ==
    /\ channelCall[c].at = "act" =>
          channelCall[c].file = channelCall[c].read /\ Tidy(channelCall[c].read)
    /\ channelCall[c].at = "empty" =>
          IF channelCall[c].next = "act" THEN channelCall[c].read = Choosing!Nothing
                                         ELSE MadeOf(c, channelCall[c].read)
    /\ channelCall[c].at = "write" =>
          /\ channelCall[c].next = "done" /\ channelFile = Choosing!Nothing
          /\ MadeOf(c, wantedChannels)

OneWrites ==
    \A c, d \in Asker : channelCall[c].at = "write" /\ channelCall[d].at = "write" => c = d

NoneReturns ==
    \A pair \in retiredChannels :
        wantedChannels.groups[pair[1]] # Unset => pair[2] \notin wantedChannels.groups[pair[1]]

AllInStep ==
    ~saveClashed =>
        /\ Tidy(wantedChannels) /\ NoneReturns /\ OneWrites
        /\ \A c \in Asker : InStep(c)
        /\ (\A c \in Asker : channelCall[c].at # "write") => channelFile = wantedChannels

ChannelsInv == ChannelsTyped /\ AllInStep

LEMMA IdleRequest ==
    /\ Choosing!Idle \in Request /\ Choosing!Idle.at = "start" /\ Choosing!Idle.kind = "none"
    /\ Choosing!Nothing \in Choosing!File
<1>1. Choosing!Nothing \in Choosing!File
  BY DEF Choosing!Nothing, Choosing!File
<1> QED
  BY <1>1 DEF Choosing!Idle, Request, Choosing!Kind, Choosing!Groups

LEMMA TidyStays == ASSUME NEW text, Tidy(text)  PROVE Choosing!Normal(text) = text
<1>1. text = [custom |-> text.custom, groups |-> text.groups]
      /\ text.groups \in [Choosing!Groups -> (SUBSET Choosing!Channels) \cup {Unset}]
  BY DEF Tidy, Choosing!File
<1> DEFINE remains == [g \in Choosing!Groups |->
        IF text.groups[g] = Unset THEN Unset
        ELSE text.groups[g] \cap (BuiltIn \cup text.custom)]
<1>2. \A g \in Choosing!Groups : remains[g] = text.groups[g]  BY DEF Tidy
<1>3. remains = text.groups  BY <1>1, <1>2
<1>4. Choosing!Normal(text) = [text EXCEPT !.groups = remains]
  BY DEF Tidy, Choosing!Normal
<1> HIDE DEF remains
<1> QED  BY <1>1, <1>3, <1>4

LEMMA MadeIsFile ==
    ASSUME NEW text \in Choosing!File, NEW kind \in {"save", "drop", "define", "remove"},
           NEW g \in Choosing!Groups, NEW on \in SUBSET Choosing!Channels,
           kind \in {"define", "remove"} => \E x \in Custom : on = {x}
    PROVE  Choosing!Made(kind, text, g, on) \in Choosing!File
<1>1. /\ text.custom \subseteq Custom
      /\ text.groups \in [Choosing!Groups -> (SUBSET Choosing!Channels) \cup {Unset}]
      /\ text = [custom |-> text.custom, groups |-> text.groups]
  BY DEF Choosing!File
<1>2. CASE kind = "save"
  <2>1. on \cap (BuiltIn \cup text.custom) \in SUBSET Choosing!Channels  OBVIOUS
  <2>2. [text EXCEPT !.groups[g] = on \cap (BuiltIn \cup text.custom)] \in Choosing!File
    BY <1>1, <2>1 DEF Choosing!File
  <2> QED  BY <1>2, <2>2 DEF Choosing!Made
<1>3. CASE kind = "drop"
  <2>1. [text EXCEPT !.groups[g] = Unset] \in Choosing!File  BY <1>1 DEF Choosing!File
  <2> QED  BY <1>3, <2>1 DEF Choosing!Made
<1>4. CASE kind = "define"
  <2>1. [text EXCEPT !.custom = @ \cup on] \in Choosing!File
    BY <1>1, <1>4 DEF Choosing!File
  <2> QED  BY <1>4, <2>1 DEF Choosing!Made
<1>5. CASE kind = "remove"
  <2>1. PICK x \in Custom : on = {x}  BY <1>5
  <2>2. Choosing!Without(text, x) \in Choosing!File
    BY <1>1 DEF Choosing!Without, Choosing!File, Choosing!Channels
  <2> QED  BY <1>5, <2>1, <2>2 DEF Choosing!Made
<1> QED  BY <1>2, <1>3, <1>4, <1>5

\* What a request makes of a tidy file is tidy, and what was retired stays away.
LEMMA MadeIsTidy ==
    ASSUME Choosing!ChannelBounds, NEW text, Tidy(text), NEW kind,
           NEW g \in Choosing!Groups,
           NEW on \in SUBSET Choosing!Channels,
           kind \in {"save", "drop", "define", "remove"}, kind = "drop" => g \in AgentGroup,
           kind \in {"define", "remove"} => \E x \in Custom : on = {x},
           NEW made, made = Choosing!Made(kind, text, g, on)
    PROVE  Tidy(made)
<1>0. /\ text \in Choosing!File /\ text.custom \subseteq Custom
      /\ text.groups \in [Choosing!Groups -> (SUBSET Choosing!Channels) \cup {Unset}]
  BY DEF Tidy, Choosing!File
<1>1. CASE kind = "save"
  <2>1. made = [text EXCEPT !.groups[g] = on \cap (BuiltIn \cup text.custom)]
    BY <1>1 DEF Choosing!Made
  <2>2. on \cap (BuiltIn \cup text.custom) \in SUBSET Choosing!Channels
    OBVIOUS
  <2>3. made \in Choosing!File  BY <1>0, <2>1, <2>2 DEF Choosing!File
  <2>4. /\ made.custom = text.custom
        /\ made.groups[g] = on \cap (BuiltIn \cup text.custom)
        /\ \A h \in Choosing!Groups : h # g => made.groups[h] = text.groups[h]
    BY <1>0, <2>1 DEF Choosing!File
  <2>5. made.groups[Choosing!Default] # Unset
    BY <2>2, <2>4 DEF Tidy, Choosing!ChannelBounds, Choosing!Groups
  <2> QED  BY <2>3, <2>4, <2>5 DEF Tidy
<1>2. CASE kind = "drop"
  <2>1. made = [text EXCEPT !.groups[g] = Unset]  BY <1>2 DEF Choosing!Made
  <2>2. made \in Choosing!File  BY <1>0, <2>1 DEF Choosing!File
  <2>3. /\ made.custom = text.custom /\ made.groups[g] = Unset
        /\ \A h \in Choosing!Groups : h # g => made.groups[h] = text.groups[h]
    BY <1>0, <2>1 DEF Choosing!File
  <2>4. g # Choosing!Default  BY <1>2 DEF Choosing!ChannelBounds
  <2> QED  BY <2>2, <2>3, <2>4 DEF Tidy, Choosing!Groups
<1>3. CASE kind = "define"
  <2>1. made = [text EXCEPT !.custom = @ \cup on] /\ on \subseteq Custom
    BY <1>3 DEF Choosing!Made
  <2>2. made.custom = text.custom \cup on /\ made.groups = text.groups
    BY <1>0, <2>1 DEF Choosing!File
  <2>3. made \in Choosing!File  BY <1>0, <2>1 DEF Choosing!File
  <2> QED  BY <2>2, <2>3 DEF Tidy
<1>4. CASE kind = "remove"
  <2>1. PICK x \in Custom : on = {x}  BY <1>4
  <2>2. made = Choosing!Without(text, x)  BY <1>4, <2>1 DEF Choosing!Made
  <2>3. made.custom = text.custom \ {x}
        /\ \A h \in Choosing!Groups : made.groups[h] =
              IF text.groups[h] = Unset THEN Unset ELSE text.groups[h] \ {x}
    BY <2>2 DEF Choosing!Without
  <2>4. made \in Choosing!File
    BY <1>0, <2>2 DEF Choosing!Without, Choosing!File, Choosing!Channels
  <2>5. made.groups[Choosing!Default] # Unset
    <3>1. text.groups[Choosing!Default] \ {x} \in SUBSET Choosing!Channels
      BY <1>0 DEF Tidy, Choosing!Groups
    <3> QED  BY <2>3, <3>1 DEF Tidy, Choosing!ChannelBounds, Choosing!Groups
  <2> QED  BY <2>3, <2>4, <2>5 DEF Tidy
<1> QED  BY <1>1, <1>2, <1>3, <1>4

\* What was retired stays away from the templates that are not saved anew.
LEMMA MadeForgets ==
    ASSUME Choosing!ChannelBounds, Tidy(wantedChannels), NoneReturns,
           retiredChannels \subseteq AgentGroup \X Custom,
           NEW kind \in {"save", "drop", "define", "remove"}, NEW g \in Choosing!Groups,
           NEW on \in SUBSET Choosing!Channels,
           kind \in {"define", "remove"} => \E x \in Custom : on = {x},
           NEW made, made = Choosing!Made(kind, wantedChannels, g, on),
           NEW pair \in Choosing!Retired(kind, g, on), made.groups[pair[1]] # Unset
    PROVE  pair[2] \notin made.groups[pair[1]]
<1>1. /\ wantedChannels.custom \subseteq Custom
      /\ wantedChannels.groups \in
             [Choosing!Groups -> (SUBSET Choosing!Channels) \cup {Unset}]
      /\ wantedChannels = [custom |-> wantedChannels.custom, groups |-> wantedChannels.groups]
  BY DEF Tidy, Choosing!File
<1>2. CASE kind \in {"save", "drop"}
  <2>1. pair \in retiredChannels /\ pair \notin {g} \X Custom
    BY <1>2 DEF Choosing!Retired
  <2>2. pair[1] # g /\ pair[1] \in Choosing!Groups  BY <2>1 DEF Choosing!Groups
  <2>3. made.groups[pair[1]] = wantedChannels.groups[pair[1]]
    <3>1. CASE kind = "save"
      <4>1. made = [wantedChannels EXCEPT
                       !.groups[g] = on \cap (BuiltIn \cup wantedChannels.custom)]
        BY <3>1 DEF Choosing!Made
      <4> QED  BY <1>1, <2>2, <4>1
    <3>2. CASE kind = "drop"
      <4>1. made = [wantedChannels EXCEPT !.groups[g] = Unset]
        BY <3>2 DEF Choosing!Made
      <4> QED  BY <1>1, <2>2, <4>1
    <3> QED  BY <1>2, <3>1, <3>2
  <2> QED  BY <2>1, <2>3 DEF NoneReturns
<1>3. CASE kind = "define"
  <2>1. made = [wantedChannels EXCEPT !.custom = @ \cup on]
    BY <1>3 DEF Choosing!Made
  <2>2. made.groups = wantedChannels.groups  BY <1>1, <2>1
  <2>3. pair \in retiredChannels  BY <1>3 DEF Choosing!Retired
  <2> QED  BY <2>2, <2>3 DEF NoneReturns
<1>4. CASE kind = "remove"
  <2>1. PICK x \in Custom : on = {x}  BY <1>4
  <2>2. pair \in retiredChannels \/ pair \in AgentGroup \X {x}
    BY <1>4, <2>1 DEF Choosing!Retired
  <2>3. pair[1] \in Choosing!Groups  BY <2>2 DEF Choosing!Groups
  <2>4. made = Choosing!Without(wantedChannels, x)
    BY <1>4, <2>1 DEF Choosing!Made
  <2>5. /\ wantedChannels.groups[pair[1]] # Unset
        /\ made.groups[pair[1]] = wantedChannels.groups[pair[1]] \ {x}
    BY <2>3, <2>4 DEF Choosing!Without
  <2> QED  BY <2>2, <2>5 DEF NoneReturns
<1> QED  BY <1>2, <1>3, <1>4

LEMMA ChannelsInitially == Choosing!ChannelBounds /\ Choosing!Init => ChannelsInv
<1> SUFFICES ASSUME Choosing!ChannelBounds, Choosing!Init  PROVE ChannelsInv
  OBVIOUS
<1>1. \A c \in Asker : ~Asks(c) /\ channelCall[c].at = "start" /\ channelCall[c].kind = "none"
  BY IdleRequest DEF Choosing!Init, Asks
<1>2. /\ Choosing!First \in Choosing!File /\ Choosing!First.groups[Choosing!Default] = {}
      /\ \A g \in Choosing!Groups : g # Choosing!Default => Choosing!First.groups[g] = Unset
  BY IdleRequest DEF Choosing!First, Choosing!Nothing, Choosing!File, Choosing!Groups
<1>3. Tidy(Choosing!First)
  BY <1>2 DEF Tidy, Choosing!ChannelBounds
<1>4. ChannelsTyped
  <2>1. channelCall \in [Asker -> Request]  BY IdleRequest DEF Choosing!Init
  <2> QED  BY <1>1, <1>2, <2>1 DEF Choosing!Init, ChannelsTyped
<1>5. AllInStep
  BY <1>1, <1>3 DEF Choosing!Init, AllInStep, InStep, NoneReturns, OneWrites
<1> QED  BY <1>4, <1>5 DEF ChannelsInv

\* The request of c becomes another one, and everybody else stays where they are.
LEMMA AskerMoves ==
    ASSUME ChannelsInv, NEW c \in Asker, NEW asked \in Request,
           channelCall' = [channelCall EXCEPT ![c] = asked],
           channelFile' \in Choosing!File, saveClashed' \in BOOLEAN,
           retiredChannels' \subseteq AgentGroup \X Custom,
           asked.at = "start" \/ asked.kind = "none" => asked = Choosing!Idle,
           asked.kind = "drop" => asked.group \in AgentGroup,
           asked.kind \in {"define", "remove"} => \E x \in Custom : asked.on = {x}
    PROVE  /\ ChannelsTyped' /\ channelCall'[c] = asked
           /\ \A d \in Asker : d # c => channelCall'[d] = channelCall[d]
<1>1. /\ channelCall'[c] = asked
      /\ \A d \in Asker : d # c => channelCall'[d] = channelCall[d]
      /\ channelCall' \in [Asker -> Request]
  BY DEF ChannelsInv, ChannelsTyped
<1>2. ChannelsTyped'
  BY <1>1 DEF ChannelsInv, ChannelsTyped, Asks
<1> QED  BY <1>1, <1>2

\* A file that is empty is not tidy: a read normalises it.
LEMMA EmptyIsUntidy ==
    ASSUME Choosing!ChannelBounds
    PROVE  Choosing!Normal(Choosing!Nothing) # Choosing!Nothing /\ ~Tidy(Choosing!Nothing)
<1>1. Choosing!Default \in Choosing!Groups /\ {} # Unset
  BY DEF Choosing!ChannelBounds, Choosing!Groups
<1>2. Choosing!Nothing.groups[Choosing!Default] = Unset  BY <1>1 DEF Choosing!Nothing
<1>3. Choosing!Normal(Choosing!Nothing).groups[Choosing!Default] = {}
  <2> DEFINE groups == [Choosing!Nothing.groups EXCEPT ![Choosing!Default] = {}]
             remains == [h \in Choosing!Groups |->
                         IF groups[h] = Unset THEN Unset
                         ELSE groups[h] \cap (BuiltIn \cup Choosing!Nothing.custom)]
  <2>1. groups[Choosing!Default] = {}  BY <1>1 DEF Choosing!Nothing
  <2>2. remains[Choosing!Default] = {}  BY <1>1, <2>1
  <2>3. Choosing!Normal(Choosing!Nothing) = [Choosing!Nothing EXCEPT !.groups = remains]
    BY <1>2 DEF Choosing!Normal
  <2> HIDE DEF groups, remains
  <2>4. [Choosing!Nothing EXCEPT !.groups = remains].groups = remains
    BY DEF Choosing!Nothing
  <2> QED  BY <2>2, <2>3, <2>4
<1> QED  BY <1>1, <1>2, <1>3 DEF Tidy

\* A request reads: what it should, unless the file is being written, and then nothing.
LEMMA ReadsKeep ==
    ASSUME ChannelsInv, Choosing!ChannelBounds, NEW c \in Asker, NEW kind,
           NEW g \in Choosing!Groups, NEW on \in SUBSET Choosing!Channels,
           kind \in {"save", "drop", "define", "remove", "check-in"},
           kind = "drop" => g \in AgentGroup,
           kind \in {"define", "remove"} => \E x \in Custom : on = {x},
           Choosing!Reads(c, kind, g, on)
    PROVE  ChannelsInv'
<1> DEFINE asked == [kind |-> kind,
                     at |-> IF Choosing!Normal(channelFile) = channelFile THEN "act"
                            ELSE "empty",
                     next |-> "act", read |-> channelFile,
                     file |-> Choosing!Normal(channelFile), group |-> g, on |-> on]
<1>1. /\ UNCHANGED <<channelFile, saveClashed, wantedChannels, retiredChannels>>
      /\ channelCall' = [channelCall EXCEPT ![c] = asked]
      /\ ~Asks(c)
  BY DEF Choosing!Reads, Asks
<1>2. Choosing!Normal(channelFile) \in Choosing!File
  <2>1. /\ channelFile.custom \subseteq Custom
        /\ channelFile = [custom |-> channelFile.custom, groups |-> channelFile.groups]
        /\ channelFile.groups \in [Choosing!Groups -> (SUBSET Choosing!Channels) \cup {Unset}]
    BY DEF ChannelsInv, ChannelsTyped, Choosing!File
  <2> DEFINE groups == IF channelFile.groups[Choosing!Default] = Unset
                       THEN [channelFile.groups EXCEPT ![Choosing!Default] = {}]
                       ELSE channelFile.groups
             remains == [h \in Choosing!Groups |->
                         IF groups[h] = Unset THEN Unset
                         ELSE groups[h] \cap (BuiltIn \cup channelFile.custom)]
  <2>2. groups \in [Choosing!Groups -> (SUBSET Choosing!Channels) \cup {Unset}]
    BY <2>1
  <2>3. Choosing!Normal(channelFile) = [channelFile EXCEPT !.groups = remains]
    BY DEF Choosing!Normal
  <2> HIDE DEF groups
  <2>4. remains \in [Choosing!Groups -> (SUBSET Choosing!Channels) \cup {Unset}]
    BY <2>1, <2>2
  <2> HIDE DEF remains
  <2> QED  BY <2>1, <2>3, <2>4 DEF Choosing!File
<1>3. asked \in Request
  BY <1>2 DEF Request, Choosing!Kind, ChannelsInv, ChannelsTyped
<1>4. asked.kind = kind /\ asked.at \in {"act", "empty"} /\ asked.group = g /\ asked.on = on
      /\ asked.file = Choosing!Normal(channelFile) /\ asked.read = channelFile
      /\ asked.next = "act"
      /\ (asked.at = "act" <=> Choosing!Normal(channelFile) = channelFile)
  OBVIOUS
<1> HIDE DEF asked
<1>5. /\ channelCall'[c] = asked
      /\ \A d \in Asker : d # c => channelCall'[d] = channelCall[d]
      /\ channelCall[c].at = "start" /\ channelCall[c].kind = "none"
  BY <1>1, IdleRequest DEF ChannelsInv, ChannelsTyped, Asks
<1>6. ChannelsTyped'
  <2>1. /\ channelFile' \in Choosing!File /\ retiredChannels' \subseteq AgentGroup \X Custom
        /\ saveClashed' \in BOOLEAN /\ asked.at # "start" /\ asked.kind # "none"
    BY <1>1, <1>4 DEF ChannelsInv, ChannelsTyped
  <2> QED  BY <1>1, <1>3, <1>4, <2>1, AskerMoves
<1>7. AllInStep'
  <2> SUFFICES ASSUME ~saveClashed  PROVE AllInStep'
    BY <1>1 DEF AllInStep
  <2>1. /\ Tidy(wantedChannels) /\ NoneReturns /\ OneWrites /\ \A d \in Asker : InStep(d)
        /\ (\A d \in Asker : channelCall[d].at # "write") => channelFile = wantedChannels
    BY DEF ChannelsInv, AllInStep
  <2>2. CASE \E d \in Asker : channelCall[d].at = "write"
    <3>1. channelFile = Choosing!Nothing  BY <2>1, <2>2 DEF InStep
    <3>2. asked.at = "empty" /\ asked.read = Choosing!Nothing
      <4>1. Choosing!Normal(channelFile) # channelFile  BY <3>1, EmptyIsUntidy
      <4> QED  BY <1>4, <3>1, <4>1
    <3>3. \A d \in Asker : InStep(d)'
      <4> SUFFICES ASSUME NEW d \in Asker  PROVE InStep(d)'  OBVIOUS
      <4>1. CASE d = c  BY <1>4, <1>5, <3>2, <4>1 DEF InStep
      <4>2. CASE d # c  BY <1>1, <1>5, <2>1, <4>2 DEF InStep, MadeOf, Tidy
      <4> QED  BY <4>1, <4>2
    <3>4. OneWrites' /\ \E d \in Asker : channelCall'[d].at = "write"
      BY <1>5, <2>1, <2>2, <3>2 DEF OneWrites
    <3> QED  BY <1>1, <2>1, <3>3, <3>4 DEF AllInStep, Tidy, NoneReturns
  <2>3. CASE \A d \in Asker : channelCall[d].at # "write"
    <3>1. channelFile = wantedChannels  BY <2>1, <2>3
    <3>2. asked.at = "act" /\ asked.file = channelFile /\ Tidy(channelFile)
      BY <1>4, <2>1, <3>1, TidyStays
    <3>3. \A d \in Asker : InStep(d)'
      <4> SUFFICES ASSUME NEW d \in Asker  PROVE InStep(d)'  OBVIOUS
      <4>1. CASE d = c  BY <1>4, <1>5, <3>2, <4>1 DEF InStep, Tidy
      <4>2. CASE d # c  BY <1>1, <1>5, <2>1, <4>2 DEF InStep, MadeOf, Tidy
      <4> QED  BY <4>1, <4>2
    <3>4. OneWrites' /\ \A d \in Asker : channelCall'[d].at # "write"
      BY <1>5, <2>3, <3>2 DEF OneWrites
    <3> QED  BY <1>1, <2>1, <3>1, <3>3, <3>4 DEF AllInStep, Tidy, NoneReturns
  <2> QED  BY <2>2, <2>3
<1> QED  BY <1>6, <1>7 DEF ChannelsInv

\* A file is emptied; unless that clashes, it said what the request had read.
LEMMA EmptyKeeps ==
    ASSUME ChannelsInv, NEW c \in Asker, Choosing!Empty(c)  PROVE ChannelsInv'
<1> DEFINE asked == [channelCall[c] EXCEPT !.at = "write"]
<1>1. /\ channelCall[c].at = "empty" /\ channelFile' = Choosing!Nothing
      /\ channelCall' = [channelCall EXCEPT ![c].at = "write"]
      /\ ~saveClashed' => /\ ~saveClashed /\ channelFile = channelCall[c].read
                          /\ channelFile # Choosing!Nothing
      /\ saveClashed' \in BOOLEAN /\ UNCHANGED <<wantedChannels, retiredChannels>>
  BY DEF Choosing!Empty, ChannelsInv, ChannelsTyped
<1>2. channelCall[c] \in Request  BY DEF ChannelsInv, ChannelsTyped
<1>3. /\ asked \in Request /\ asked.at = "write" /\ asked.kind = channelCall[c].kind
      /\ asked.next = channelCall[c].next /\ asked.file = channelCall[c].file
      /\ asked.group = channelCall[c].group /\ asked.on = channelCall[c].on
  BY <1>2 DEF Request
<1>4. channelCall' = [channelCall EXCEPT ![c] = asked]  BY <1>1
<1> HIDE DEF asked
<1>5. /\ ChannelsTyped' /\ channelCall'[c] = asked
      /\ \A d \in Asker : d # c => channelCall'[d] = channelCall[d]
  <2>1. /\ channelFile' \in Choosing!File /\ retiredChannels' \subseteq AgentGroup \X Custom
        /\ asked.kind = "drop" => asked.group \in AgentGroup
        /\ asked.kind \in {"define", "remove"} => \E x \in Custom : asked.on = {x}
        /\ asked.at # "start" /\ asked.kind # "none"
    BY <1>1, <1>3, IdleRequest DEF ChannelsInv, ChannelsTyped, Asks
  <2> QED  BY <1>1, <1>3, <1>4, <2>1, AskerMoves
<1>6. AllInStep'
  <2> SUFFICES ASSUME ~saveClashed'  PROVE AllInStep'
    BY DEF AllInStep
  <2>1. /\ Tidy(wantedChannels) /\ NoneReturns /\ \A d \in Asker : InStep(d)
        /\ (\A d \in Asker : channelCall[d].at # "write") => channelFile = wantedChannels
    BY <1>1 DEF ChannelsInv, AllInStep
  <2>2. \A d \in Asker : channelCall[d].at # "write"  BY <1>1, <2>1 DEF InStep
  <2>3. asked.next = "done" /\ MadeOf(c, wantedChannels)
    BY <1>1, <1>2, <1>3, <2>1, <2>2 DEF InStep, Request
  <2>4. \A d \in Asker : InStep(d)'
    <3> SUFFICES ASSUME NEW d \in Asker  PROVE InStep(d)'  OBVIOUS
    <3>1. CASE d = c  BY <1>1, <1>3, <1>5, <2>3, <3>1 DEF InStep, MadeOf
    <3>2. CASE d # c  BY <1>1, <1>5, <2>1, <2>2, <3>2 DEF InStep, MadeOf, Tidy
    <3> QED  BY <3>1, <3>2
  <2>5. OneWrites' /\ channelCall'[c].at = "write"  BY <1>3, <1>5, <2>2 DEF OneWrites
  <2> QED  BY <1>1, <2>1, <2>4, <2>5 DEF AllInStep, Tidy, NoneReturns
<1> QED  BY <1>5, <1>6 DEF ChannelsInv

\* A request is refused, a check-in answered, or the process killed.
LEMMA LeavesKeep ==
    ASSUME ChannelsInv, NEW c \in Asker,
           Choosing!Refuse(c) \/ Choosing!Answer(c) \/ Choosing!Dies(c)
    PROVE  ChannelsInv'
<1>1. /\ ~saveClashed' => ~saveClashed /\ channelCall[c].at # "write"
      /\ channelCall' = [channelCall EXCEPT ![c] = Choosing!Idle]
      /\ saveClashed' \in BOOLEAN
      /\ UNCHANGED <<channelFile, wantedChannels, retiredChannels>>
  BY DEF Choosing!Refuse, Choosing!Answer, Choosing!Dies, ChannelsInv, ChannelsTyped
<1>2. /\ ChannelsTyped' /\ channelCall'[c] = Choosing!Idle
      /\ \A d \in Asker : d # c => channelCall'[d] = channelCall[d]
  BY <1>1, AskerMoves, IdleRequest DEF ChannelsInv, ChannelsTyped
<1>3. AllInStep'
  <2> SUFFICES ASSUME ~saveClashed'  PROVE AllInStep'
    BY DEF AllInStep
  <2>1. \A d \in Asker : InStep(d)'
    BY <1>1, <1>2, IdleRequest DEF ChannelsInv, AllInStep, InStep, MadeOf, Tidy
  <2>2. OneWrites'  BY <1>1, <1>2, IdleRequest DEF ChannelsInv, AllInStep, OneWrites
  <2>3. (\A d \in Asker : channelCall'[d].at # "write") => channelFile' = wantedChannels'
    BY <1>1, <1>2 DEF ChannelsInv, AllInStep
  <2> QED  BY <1>1, <2>1, <2>2, <2>3 DEF ChannelsInv, AllInStep, Tidy, NoneReturns
<1> QED  BY <1>2, <1>3 DEF ChannelsInv

LEMMA ActKeeps ==
    ASSUME ChannelsInv, Choosing!ChannelBounds, NEW c \in Asker, Choosing!Act(c)
    PROVE  ChannelsInv'
<1> DEFINE was == channelCall[c]
           made == Choosing!Made(was.kind, was.file, was.group, was.on)
           asked == [kind |-> was.kind, at |-> "empty", next |-> "done", group |-> was.group,
                     on |-> was.on, read |-> was.read, file |-> made]
<1>1. /\ was.at = "act" /\ was.kind # "check-in"
      /\ UNCHANGED <<channelFile, saveClashed, wantedChannels, retiredChannels>>
      /\ channelCall' = [channelCall EXCEPT ![c] = asked]
  BY DEF Choosing!Act
<1>2. /\ was \in Request /\ was.group \in Choosing!Groups
      /\ was.on \in SUBSET Choosing!Channels /\ was.file \in Choosing!File
      /\ was.read \in Choosing!File /\ was.kind \in Choosing!Kind
      /\ was.kind = "drop" => was.group \in AgentGroup
      /\ was.kind \in {"define", "remove"} => \E x \in Custom : was.on = {x}
  BY DEF ChannelsInv, ChannelsTyped, Request
<1>3. was.kind \in {"save", "drop", "define", "remove"}
  <2>1. was.kind # "none"  BY <1>1, IdleRequest DEF ChannelsInv, ChannelsTyped, Asks
  <2> QED  BY <1>1, <1>2, <2>1 DEF Choosing!Kind
<1>4. made \in Choosing!File
  BY <1>2, <1>3, MadeIsFile
<1>5. /\ asked \in Request /\ asked.at = "empty" /\ asked.next = "done"
      /\ asked.kind = was.kind /\ asked.group = was.group /\ asked.on = was.on
      /\ asked.read = was.read /\ asked.file = made
  BY <1>2, <1>4 DEF Request
<1> HIDE DEF asked
<1>6. /\ ChannelsTyped' /\ channelCall'[c] = asked
      /\ \A d \in Asker : d # c => channelCall'[d] = channelCall[d]
  <2>1. /\ channelFile' \in Choosing!File /\ retiredChannels' \subseteq AgentGroup \X Custom
        /\ saveClashed' \in BOOLEAN /\ asked.at # "start" /\ asked.kind # "none"
        /\ asked.kind = "drop" => asked.group \in AgentGroup
        /\ asked.kind \in {"define", "remove"} => \E x \in Custom : asked.on = {x}
    BY <1>1, <1>2, <1>3, <1>5 DEF ChannelsInv, ChannelsTyped
  <2> HIDE DEF made
  <2> QED  BY <1>1, <1>5, <2>1, AskerMoves
<1>7. AllInStep'
  <2> SUFFICES ASSUME ~saveClashed  PROVE AllInStep'
    BY <1>1 DEF AllInStep
  <2>1. was.file = was.read  BY <1>1 DEF ChannelsInv, AllInStep, InStep
  <2>2. made = Choosing!Made(was.kind, was.read, was.group, was.on)
    BY <2>1 DEF made
  <2> HIDE DEF made
  <2>3. \A d \in Asker : InStep(d)'
    <3> SUFFICES ASSUME NEW d \in Asker  PROVE InStep(d)'  OBVIOUS
    <3>1. CASE d = c  BY <1>3, <1>5, <1>6, <2>2, <3>1 DEF InStep, MadeOf
    <3>2. CASE d # c
      BY <1>1, <1>6, <3>2 DEF ChannelsInv, AllInStep, InStep, MadeOf, Tidy
    <3> QED  BY <3>1, <3>2
  <2>4. OneWrites'  BY <1>5, <1>6 DEF ChannelsInv, AllInStep, OneWrites
  <2>5. (\A d \in Asker : channelCall'[d].at # "write") => channelFile' = wantedChannels'
    BY <1>1, <1>6 DEF ChannelsInv, AllInStep
  <2> QED  BY <1>1, <2>3, <2>4, <2>5 DEF ChannelsInv, AllInStep, Tidy, NoneReturns
<1> QED  BY <1>6, <1>7 DEF ChannelsInv

\* The file is written: what was asked for becomes what the file should say.
LEMMA WriteKeeps ==
    ASSUME ChannelsInv, Choosing!ChannelBounds, NEW c \in Asker, Choosing!Write(c)
    PROVE  ChannelsInv'
<1> DEFINE was == channelCall[c]
<1>1. /\ was.at = "write" /\ channelFile' = was.file /\ saveClashed' = saveClashed
      /\ was.at # "start" /\ saveClashed' \in BOOLEAN
  BY DEF Choosing!Write, ChannelsInv, ChannelsTyped
<1>2. /\ was \in Request /\ was.group \in Choosing!Groups
      /\ was.on \in SUBSET Choosing!Channels /\ was.file \in Choosing!File
      /\ was.kind = "drop" => was.group \in AgentGroup
      /\ was.kind \in {"define", "remove"} => \E x \in Custom : was.on = {x}
  BY DEF ChannelsInv, ChannelsTyped, Request
<1>3. CASE was.next = "act"
  <2> DEFINE asked == [was EXCEPT !.at = "act", !.read = was.file]
  <2>1. /\ asked \in Request /\ asked.at = "act" /\ asked.kind = was.kind
        /\ asked.group = was.group /\ asked.on = was.on
    BY <1>2 DEF Request
  <2>2. /\ channelCall' = [channelCall EXCEPT ![c] = asked]
        /\ UNCHANGED <<wantedChannels, retiredChannels>>
    BY <1>3 DEF Choosing!Write, ChannelsInv, ChannelsTyped
  <2> HIDE DEF asked
  <2>3. retiredChannels' \subseteq AgentGroup \X Custom
    BY <2>2 DEF ChannelsInv, ChannelsTyped
  <2>4. /\ asked.at # "start" /\ asked.kind # "none" /\ channelFile' \in Choosing!File
    BY <1>1, <1>2, <2>1, IdleRequest DEF ChannelsInv, ChannelsTyped, Asks
  <2>5. ChannelsTyped'
    BY <1>1, <1>2, <2>1, <2>2, <2>3, <2>4, AskerMoves
  <2>6. saveClashed  BY <1>1, <1>3 DEF ChannelsInv, AllInStep, InStep
  <2> QED  BY <1>1, <2>5, <2>6 DEF ChannelsInv, AllInStep
<1>4. CASE was.next # "act"
  <2>1. /\ channelCall' = [channelCall EXCEPT ![c] = Choosing!Idle]
        /\ wantedChannels' = Choosing!Made(was.kind, wantedChannels, was.group, was.on)
        /\ retiredChannels' = Choosing!Retired(was.kind, was.group, was.on)
    BY <1>4 DEF Choosing!Write
  <2>2. retiredChannels' \subseteq AgentGroup \X Custom
    <3>1. was.kind = "remove" => was.on \subseteq Custom  BY <1>2
    <3> QED  BY <2>1, <3>1 DEF Choosing!Retired, ChannelsInv, ChannelsTyped
  <2>3. /\ ChannelsTyped' /\ channelCall'[c] = Choosing!Idle
        /\ \A d \in Asker : d # c => channelCall'[d] = channelCall[d]
    <3>1. channelFile' \in Choosing!File  BY <1>1, <1>2
    <3>2. Choosing!Idle.kind # "drop" /\ Choosing!Idle.kind \notin {"define", "remove"}
      BY IdleRequest
    <3> QED  BY <1>1, <2>1, <2>2, <3>1, <3>2, AskerMoves, IdleRequest
  <2>4. AllInStep'
    <3> SUFFICES ASSUME ~saveClashed  PROVE AllInStep'
      BY <1>1 DEF AllInStep
    <3>1. /\ was.kind \in {"save", "drop", "define", "remove"}
          /\ was.file = Choosing!Made(was.kind, wantedChannels, was.group, was.on)
          /\ Tidy(wantedChannels) /\ NoneReturns
      BY <1>1 DEF ChannelsInv, AllInStep, InStep, MadeOf
    <3>2. Tidy(wantedChannels)'
      <4>1. Tidy(was.file)  BY <1>2, <3>1, MadeIsTidy
      <4> QED  BY <2>1, <3>1, <4>1 DEF Tidy
    <3>3. NoneReturns'
      BY <1>2, <2>1, <3>1, MadeForgets DEF ChannelsInv, ChannelsTyped, NoneReturns
    <3>4. \A d \in Asker : channelCall'[d].at # "write"
      BY <1>1, <2>3, IdleRequest DEF ChannelsInv, AllInStep, OneWrites
    <3>5. \A d \in Asker : InStep(d)'
      BY <1>1, <2>3, <3>4, IdleRequest DEF ChannelsInv, AllInStep, InStep, MadeOf, Tidy
    <3>6. OneWrites'  BY <3>4 DEF OneWrites
    <3> QED  BY <1>1, <2>1, <3>1, <3>2, <3>3, <3>5, <3>6 DEF AllInStep
  <2> QED  BY <2>3, <2>4 DEF ChannelsInv
<1> QED  BY <1>3, <1>4

LEMMA ChannelsStepKeeps ==
    ASSUME ChannelsInv, Choosing!ChannelBounds, [Choosing!Next]_(Choosing!vars)
    PROVE  ChannelsInv'
<1>1. CASE UNCHANGED Choosing!vars
  BY <1>1 DEF Choosing!vars, ChannelsInv, ChannelsTyped, Asks, AllInStep, InStep, MadeOf,
              OneWrites, NoneReturns, Tidy
<1>2. CASE \E c \in Asker, g \in Choosing!Groups, on \in SUBSET Choosing!Channels :
              Choosing!Save(c, g, on)
  BY <1>2, ReadsKeep DEF Choosing!Save
<1>3. CASE \E c \in Asker, g \in AgentGroup : Choosing!Drop(c, g)
  BY <1>3, ReadsKeep DEF Choosing!Drop, Choosing!Groups
<1>4. CASE \E c \in Asker : Choosing!CheckIn(c)
  BY <1>4, ReadsKeep DEF Choosing!CheckIn, Choosing!Groups
<1>5. CASE \E c \in Asker, x \in Custom : Choosing!Define(c, x) \/ Choosing!Remove(c, x)
  <2>1. \A x \in Custom : {x} \in SUBSET Choosing!Channels  BY DEF Choosing!Channels
  <2>2. Choosing!Default \in Choosing!Groups  BY DEF Choosing!Groups
  <2> QED  BY <1>5, <2>1, <2>2, ReadsKeep DEF Choosing!Define, Choosing!Remove
<1>6. CASE \E c \in Asker :
              \/ Choosing!Empty(c) \/ Choosing!Write(c) \/ Choosing!Act(c)
              \/ Choosing!Refuse(c) \/ Choosing!Answer(c) \/ Choosing!Dies(c)
  BY <1>6, EmptyKeeps, WriteKeeps, ActKeeps, LeavesKeep
<1> QED  BY <1>1, <1>2, <1>3, <1>4, <1>5, <1>6 DEF Choosing!Next

\* However requests and check-ins overlap or die, the file says what was saved last, and a
\* channel that is defined anew comes back only where it was switched on since; unless a
\* request wrote over what it had not read, or was killed when it had emptied the file.
THEOREM SavesAreKept ==
    ASSUME Choosing!ChannelBounds  PROVE  Choosing!Spec => []Choosing!SavesKept
<1>1. Choosing!Init => ChannelsInv  BY ChannelsInitially
<1>2. ChannelsInv /\ [Choosing!Next]_(Choosing!vars) => ChannelsInv'
  BY ChannelsStepKeeps
<1>3. ChannelsInv => Choosing!SavesKept
  <2> SUFFICES ASSUME ChannelsInv, Choosing!Quiet, ~saveClashed
               PROVE  channelFile = wantedChannels /\ NoneReturns
    BY DEF Choosing!SavesKept, NoneReturns
  <2>1. \A c \in Asker : channelCall[c].at # "write"
    BY IdleRequest DEF Choosing!Quiet
  <2> QED  BY <2>1 DEF ChannelsInv, AllInStep
<1> QED  BY <1>1, <1>2, <1>3, PTL DEF Choosing!Spec

-----------------------------------------------------------------------------
(* The file of channels and the policy together.                             *)

\* What was saved last is in the file, unless a request wrote over what it had not read or
\* was killed in the middle of a write; and what an endpoint remembers is in force.
THEOREM ChannelsAreFollowed ==
    ASSUME ChannelsBounds  PROVE  ChannelsSpec => []ChannelsFollow
<1>1. Choosing!Spec => []Choosing!SavesKept  BY SavesAreKept DEF ChannelsBounds
<1>2. Applying!Spec => []Applying!PolicyFollows
  BY WhatIsRememberedIsInForce DEF ChannelsBounds
<1> QED  BY <1>1, <1>2, PTL DEF ChannelsSpec, ChannelsFollow
===============================================================================
