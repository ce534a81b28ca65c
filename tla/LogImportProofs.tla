---------------------------- MODULE LogImportProofs ----------------------------
(* What an import keeps, for an upload of any length and any number of requests: *)
(* its rows only come until they go all at once with it, an import shown as     *)
(* complete has a row for every line, and no line has more rows than it was     *)
(* staged.  A replay shown as complete has run every rule, for any number of    *)
(* rules and tabs.                                                               *)
EXTENDS LogImport, Replay, SequenceTheorems, FiniteSetTheorems, TLAPS

Typed ==
    /\ normOffset \in Nat /\ commitOffset \in Nat /\ cut \in Nat
    /\ staged \in Seq(Line) /\ stored \in Seq(Line)
    /\ uncited \subseteq DOMAIN stored /\ errors \in 0 .. MaxErrors
    /\ seen \in [Request -> Chunk]

\* With the import its rows are gone.
NothingLeft == status = "gone" => stored = <<>>

\* A line goes without its error only when the import keeps no more of them.
Capped == uncited # {} => errors = MaxErrors

IInv == Typed /\ NothingLeft /\ Capped

-----------------------------------------------------------------------------
(* What requests hold are lines of the upload.                                *)

LEMMA FromToLines ==
  ASSUME ImportBounds, NEW m \in Nat, NEW n \in 0 .. Lines
  PROVE  FromTo(m, n) \in Seq(Line)
<1>1. CASE m <= n
  <2>1. n - m \in Nat
    BY <1>1
  <2>2. \A i \in 1 .. n - m : m + i \in Line
    BY <1>1 DEF Line, ImportBounds
  <2> QED
    BY <2>1, <2>2, IsASeq DEF FromTo
<1>2. CASE ~(m <= n)
  <2>1. 1 .. n - m = 1 .. 0
    BY <1>2
  <2>2. FromTo(m, n) = [i \in 1 .. 0 |-> m + i]
    BY <2>1 DEF FromTo
  <2>3. \A i \in 1 .. 0 : m + i \in Line
    OBVIOUS
  <2> QED
    BY <2>2, <2>3, IsASeq
<1> QED
  BY <1>1, <1>2

LEMMA PartOf ==
  ASSUME NEW s \in Seq(Line), NEW m \in Nat, NEW n \in Nat, n <= Len(s)
  PROVE  SubSeq(s, m + 1, n) \in Seq(Line)
<1>1. \A i \in m + 1 .. n : s[i] \in Line
  BY LenProperties
<1> QED
  BY <1>1, SubSeqProperties

LEMMA StagingIsLines ==
  ASSUME Typed
  PROVE  Staging \in Seq(Line)
BY PartOf, LenProperties DEF Typed, Staging

LEMMA LeastNat ==
  ASSUME NEW m \in Nat, NEW n \in Nat
  PROVE  Least(m, n) \in Nat /\ Least(m, n) <= n
BY DEF Least

\* What a request has read stays of its kind.
LEMMA HeldChunk ==
  ASSUME Typed, NEW r \in Request, NEW c \in Chunk, seen' = [seen EXCEPT ![r] = c]
  PROVE  seen' \in [Request -> Chunk]
BY DEF Typed

\* Only commits and deletions touch the tables.
LEMMA NormalizeLeaves ==
  ASSUME NEW r \in Request, Normalize(r)
  PROVE  stored' = stored /\ uncited' = uncited /\ errors' = errors
BY DEF Normalize, NormalizeRead, NormalizeStage, NormalizeAdvance, NormalizeUnlink,
       ParseWhole, SwapWhole, UpdateWhole

\* The errors of a chunk fill the room that is left, and only then one is left out.
LEMMA KeptFills ==
  ASSUME NEW failing, IsFiniteSet(failing), NEW room \in Nat, NEW k \in Kept(failing, room)
  PROVE  /\ k \subseteq failing /\ Cardinality(k) \in 0 .. room
         /\ k # failing => Cardinality(k) = room
<1>1. k \subseteq failing /\ Cardinality(k) = Least(room, Cardinality(failing))
  BY DEF Kept
<1>2. Cardinality(failing) \in Nat
  BY FS_CardinalityType
<1>3. /\ Cardinality(k) \in Nat
      /\ Cardinality(k) = Cardinality(failing) => k = failing
  BY <1>1, FS_Subset, FS_CardinalityType
<1>4. CASE room < Cardinality(failing)
  BY <1>1, <1>2, <1>3, <1>4 DEF Least
<1>5. CASE ~(room < Cardinality(failing))
  <2>1. Cardinality(k) = Cardinality(failing)
    BY <1>1, <1>5 DEF Least
  <2>2. k = failing
    BY <1>2, <1>3, <2>1
  <2> QED
    BY <1>1, <1>2, <1>5, <2>1, <2>2
<1> QED
  BY <1>4, <1>5

LEMMA TakeAdds ==
  ASSUME ImportBounds, Typed, Capped, NEW lines \in Seq(Line), Take(lines)
  PROVE  /\ stored' = stored \o lines /\ stored' \in Seq(Line)
         /\ errors' \in 0 .. MaxErrors /\ uncited' \subseteq DOMAIN stored' /\ Capped'
         /\ Recorded \subseteq Recorded' /\ Recorded' \subseteq Line
<1>0. PICK failing \in SUBSET DOMAIN lines :
        \E cited \in Kept(failing, MaxErrors - errors) :
            /\ stored' = stored \o lines
            /\ errors' = errors + Cardinality(cited)
            /\ uncited' = uncited \cup {Len(stored) + i : i \in failing \ cited}
  BY DEF Take
<1>1. PICK cited \in Kept(failing, MaxErrors - errors) :
        /\ stored' = stored \o lines
        /\ errors' = errors + Cardinality(cited)
        /\ uncited' = uncited \cup {Len(stored) + i : i \in failing \ cited}
  BY <1>0
<1>2. MaxErrors - errors \in Nat /\ errors \in Nat /\ MaxErrors \in Nat
  BY DEF Typed, ImportBounds
<1>3. IsFiniteSet(failing)
  <2>1. IsFiniteSet(DOMAIN lines)
    BY LenProperties, FS_Interval
  <2> QED
    BY <2>1, FS_Subset
<1>4. /\ cited \subseteq failing /\ Cardinality(cited) \in 0 .. MaxErrors - errors
      /\ cited # failing => Cardinality(cited) = MaxErrors - errors
  BY <1>2, <1>3, KeptFills
<1>5. /\ stored' \in Seq(Line) /\ Len(stored') = Len(stored) + Len(lines)
      /\ \A i \in 1 .. Len(stored) : stored'[i] = stored[i]
      /\ Len(stored) \in Nat /\ Len(lines) \in Nat
      /\ DOMAIN stored = 1 .. Len(stored) /\ DOMAIN lines = 1 .. Len(lines)
      /\ DOMAIN stored' = 1 .. Len(stored')
  BY <1>1, ConcatProperties, LenProperties DEF Typed
<1>6. errors' \in 0 .. MaxErrors
  BY <1>1, <1>2, <1>4
<1>7. uncited' \subseteq DOMAIN stored'
  BY <1>1, <1>5 DEF Typed
<1>8. Capped'
  <2>1. CASE cited = failing
    <3>1. uncited' = uncited
      BY <1>1, <2>1
    <3>2. uncited # {} => errors = MaxErrors
      BY DEF Capped
    <3> QED
      BY <1>1, <1>2, <1>4, <3>1, <3>2 DEF Capped
  <2>2. CASE cited # failing
    BY <1>1, <1>2, <1>4, <2>2 DEF Capped
  <2> QED
    BY <2>1, <2>2
<1>9. Recorded \subseteq Recorded'
  <2>1. ASSUME NEW i \in DOMAIN stored \ uncited
        PROVE  i \in DOMAIN stored' \ uncited' /\ stored'[i] = stored[i]
    BY <1>1, <1>5
  <2> QED
    BY <2>1 DEF Recorded
<1>10. Recorded' \subseteq Line
  BY <1>5 DEF Recorded
<1> QED
  BY <1>1, <1>5, <1>6, <1>7, <1>8, <1>9, <1>10

LEMMA UnreadChunk == Unread \in Chunk
BY EmptySeq DEF Unread, Chunk

-----------------------------------------------------------------------------
(* Types.                                                                     *)

LEMMA NormalizeTyped ==
  ASSUME ImportBounds, Typed, NEW r \in Request, Normalize(r)
  PROVE  Typed'
<1> USE UnreadChunk DEF row, files
<1>0. stored' = stored /\ uncited' = uncited /\ errors' = errors
  BY NormalizeLeaves
<1>1. seen[r] \in Chunk /\ seen[r].lines \in Seq(Line) /\ seen[r].off \in Nat
      /\ seen[r].end \in Nat
  BY DEF Typed, Chunk
<1>2. CASE NormalizeRead(r)
  <2>1. [Unread EXCEPT !.off = normOffset, !.own = ~named] \in Chunk
    BY EmptySeq DEF Unread, Chunk, Typed
  <2> QED
    BY <1>0, <1>2, <2>1, HeldChunk DEF NormalizeRead, Typed
<1>3. CASE NormalizeStage(r)
  <2>1. PICK k \in 1 .. MaxChunk :
          LET end  == Least(seen[r].off + k, Lines)
              rows == FromTo(seen[r].off, end)
          IN  /\ seen' = [seen EXCEPT ![r] =
                            [seen[r] EXCEPT !.lines = rows, !.end = end,
                                            !.eof = AtEnd(seen[r].off, k, Lines)]]
              /\ staged' = staged \/ staged' = staged \o rows
    BY <1>3 DEF NormalizeStage
  <2> DEFINE end == Least(seen[r].off + k, Lines)
             rows == FromTo(seen[r].off, end)
             c == [seen[r] EXCEPT !.lines = rows, !.end = end,
                                  !.eof = AtEnd(seen[r].off, k, Lines)]
  <2>2. end \in 0 .. Lines
    <3>1. seen[r].off + k \in Nat /\ Lines \in Nat
      BY <1>1 DEF ImportBounds
    <3>2. end \in Nat /\ end <= Lines
      BY <3>1, LeastNat
    <3> HIDE DEF end
    <3> QED
      BY <3>1, <3>2
  <2>3. rows \in Seq(Line)
    BY <1>1, <2>2, FromToLines
  <2>4. AtEnd(seen[r].off, k, Lines) \in BOOLEAN
    BY DEF AtEnd
  <2>5. c \in Chunk
    <3> HIDE DEF rows, end
    <3>1. end \in Nat
      BY <2>2 DEF ImportBounds
    <3> QED
      BY <1>1, <2>3, <2>4, <3>1 DEF Chunk
  <2>6. staged' \in Seq(Line)
    BY <2>1, <2>3, ConcatProperties DEF Typed
  <2>7. seen' \in [Request -> Chunk]
    BY <2>1, <2>5, HeldChunk
  <2> QED
    BY <1>0, <1>3, <2>6, <2>7 DEF NormalizeStage, Typed
<1>4. CASE NormalizeAdvance(r)
  <2>1. seen' \in [Request -> Chunk]
    BY <1>4, HeldChunk DEF NormalizeAdvance
  <2>2. staged' \in Seq(Line) /\ cut' \in Nat /\ normOffset' \in Nat
    BY <1>1, <1>4 DEF NormalizeAdvance, Typed
  <2> QED
    BY <1>0, <1>4, <2>1, <2>2 DEF NormalizeAdvance, Typed
<1>5. CASE UpdateWhole(r)
  <2>1. FromTo(0, Lines) \in Seq(Line)
    BY FromToLines DEF ImportBounds
  <2> QED
    BY <1>0, <1>5, <2>1, HeldChunk DEF UpdateWhole, Done, Typed
<1>6. CASE NormalizeUnlink(r) \/ ParseWhole(r) \/ SwapWhole(r)
  BY <1>0, <1>6, HeldChunk DEF NormalizeUnlink, ParseWhole, SwapWhole, Done, Typed
<1> QED
  BY <1>2, <1>3, <1>4, <1>5, <1>6 DEF Normalize

LEMMA CommitTyped ==
  ASSUME ImportBounds, Typed, Capped, NEW r \in Request, Commit(r)
  PROVE  Typed' /\ Capped'
<1> USE UnreadChunk DEF row, files
<1>0. CommitRead(r) \/ CommitFetch(r) =>
        /\ stored' = stored /\ uncited' = uncited /\ errors' = errors
        /\ normOffset' = normOffset /\ commitOffset' = commitOffset
        /\ cut' = cut /\ staged' = staged
  BY DEF CommitRead, CommitFetch
<1>1. seen[r] \in Chunk /\ seen[r].lines \in Seq(Line) /\ seen[r].off \in Nat
      /\ seen[r].end \in Nat
  BY DEF Typed, Chunk
<1>2. Len(staged) \in Nat
  BY LenProperties DEF Typed
<1>3. CASE CommitRead(r)
  <2>1. [Unread EXCEPT !.off = commitOffset] \in Chunk
    BY EmptySeq DEF Unread, Chunk, Typed
  <2> QED
    <3>1. seen' \in [Request -> Chunk]
      BY <1>3, <2>1, HeldChunk DEF CommitRead
    <3> QED
      BY <1>0, <1>3, <3>1 DEF Typed, Capped
<1>4. CASE CommitFetch(r)
  <2> DEFINE s == Staging
             end(k) == IF Len(s) < seen[r].off THEN seen[r].off
                       ELSE Least(seen[r].off + k, Len(s))
             c(k) == [seen[r] EXCEPT !.lines = SubSeq(s, seen[r].off + 1, end(k)),
                                     !.end = end(k), !.eof = AtEnd(seen[r].off, k, Len(s))]
  <2>1. PICK k \in 1 .. MaxChunk : seen' = [seen EXCEPT ![r] = c(k)]
    BY <1>4 DEF CommitFetch
  <2>2. s \in Seq(Line) /\ Len(s) \in Nat
    BY StagingIsLines, LenProperties
  <2> HIDE DEF s
  <2>0. seen[r].off + k \in Nat
    BY <1>1 DEF ImportBounds
  <2>3. end(k) \in Nat
    BY <1>1, <2>0, <2>2, LeastNat
  <2>4. SubSeq(s, seen[r].off + 1, end(k)) \in Seq(Line)
    <3>1. CASE Len(s) < seen[r].off
      BY <1>1, <3>1, SubSeqEmpty, EmptySeq
    <3>2. CASE ~(Len(s) < seen[r].off)
      <4>1. end(k) <= Len(s)
        BY <2>0, <2>2, <3>2, LeastNat
      <4> HIDE DEF end
      <4> QED
        BY <1>1, <2>2, <2>3, <4>1, PartOf
    <3> QED
      BY <3>1, <3>2
  <2>5. c(k) \in Chunk
    <3> HIDE DEF end
    <3>1. AtEnd(seen[r].off, k, Len(s)) \in BOOLEAN
      BY DEF AtEnd
    <3> QED
      BY <1>1, <2>3, <2>4, <3>1 DEF Chunk
  <2>6. seen' \in [Request -> Chunk]
    BY <2>1, <2>5, HeldChunk
  <2> QED
    BY <1>0, <1>4, <2>6 DEF Typed, Capped
<1>5. CASE CommitInsert(r) \/ CommitTorn(r)
  <2>1. seen' \in [Request -> Chunk]
    BY <1>5, HeldChunk DEF CommitInsert, CommitTorn, Done
  <2>2. Take(seen[r].lines) \/ UNCHANGED <<stored, uncited, errors>>
    BY <1>5 DEF CommitInsert, CommitTorn
  <2>3. /\ stored' \in Seq(Line) /\ uncited' \subseteq DOMAIN stored'
        /\ errors' \in 0 .. MaxErrors /\ Capped'
    <3>1. CASE UNCHANGED <<stored, uncited, errors>>
      BY <3>1 DEF Typed, Capped
    <3> QED
      BY <1>1, <2>2, <3>1, TakeAdds
  <2>4. cut' \in Nat /\ commitOffset' \in Nat /\ UNCHANGED <<staged, normOffset>>
    BY <1>1, <1>2, <1>5 DEF CommitInsert, CommitTorn, Typed
  <2> QED
    BY <2>1, <2>3, <2>4 DEF Typed
<1>6. CASE CommitRead(r) \/ CommitFetch(r)
  <2>1. Capped'
    BY <1>0, <1>6 DEF Capped
  <2> QED
    BY <1>3, <1>4, <1>6, <2>1
<1> QED
  BY <1>5, <1>6 DEF Commit

LEMMA StepTyped ==
  ASSUME ImportBounds, Typed, Capped, [ImportNext]_importVars
  PROVE  Typed' /\ Capped'
<1> USE DEF row, files
<1>1. CASE UNCHANGED importVars
  BY <1>1 DEF importVars, Typed, Capped
<1>2. ASSUME NEW r \in Request, Dies(r)
      PROVE  Typed' /\ Capped'
  BY <1>2, UnreadChunk, HeldChunk DEF Dies, Done, Typed, Capped
<1>3. CASE Delete \/ ReapDelete
  <2>1. Discard /\ UNCHANGED seen
    BY <1>3 DEF Delete, ReapDelete
  <2>2. Len(staged) \in Nat /\ 0 \in 0 .. MaxErrors
    BY LenProperties DEF Typed, ImportBounds
  <2>3. Capped'
    BY <2>1 DEF Discard, Capped
  <2> QED
    BY <2>1, <2>2, <2>3, EmptySeq DEF Discard, RemoveFiles, Discarded, Typed
<1>4. CASE Age \/ ReapRead \/ ReapDies
  <2>1. Len(staged) \in Nat
    BY LenProperties DEF Typed
  <2> QED
    BY <1>4, <2>1 DEF Age, ReapRead, ReapDies, RemoveFiles, Typed, Capped
<1>5. ASSUME NEW r \in Request, Normalize(r)
      PROVE  Typed' /\ Capped'
  BY <1>5, NormalizeTyped, NormalizeLeaves DEF Capped
<1> QED
  BY <1>1, <1>2, <1>3, <1>4, <1>5, CommitTyped DEF ImportNext, Reap

-----------------------------------------------------------------------------
(* The steps of a transfer.                                                   *)

\* What leaves rows and deletion alone is no step of the transfer.
LEMMA Stutters ==
  ASSUME UNCHANGED <<stored, uncited>>, (status' = "gone") <=> (status = "gone")
  PROVE  UNCHANGED T!vars
BY DEF T!vars, Recorded

LEMMA NormalizeMaps ==
  ASSUME NEW r \in Request, Normalize(r)
  PROVE  UNCHANGED <<stored, uncited>> /\ ((status' = "gone") <=> (status = "gone"))
BY NormalizeLeaves
   DEF Normalize, NormalizeRead, NormalizeStage, NormalizeAdvance, NormalizeUnlink,
       ParseWhole, SwapWhole, UpdateWhole, row

\* A commit stores the lines that it has fetched, while the import is there.
LEMMA CommitMaps ==
  ASSUME ImportBounds, Typed, Capped, NEW r \in Request, Commit(r)
  PROVE  [T!Next]_(T!vars) /\ (status' = "gone" => status = "gone" /\ UNCHANGED stored)
<1>1. CASE CommitInsert(r) /\ Current(r)
  <2>1. seen[r].lines \in Seq(Line)
    BY DEF Typed, Chunk
  <2>2. Take(seen[r].lines) /\ status # "gone" /\ status' # "gone"
    BY <1>1 DEF CommitInsert, Current
  <2>3. Recorded \subseteq Recorded' /\ Recorded' \in SUBSET Line
    BY <2>1, <2>2, TakeAdds
  <2>4. T!Store(Recorded')
    BY <2>2, <2>3 DEF T!Store
  <2> QED
    BY <2>2, <2>3, <2>4 DEF T!Next
<1>2. CASE ~(CommitInsert(r) /\ Current(r))
  <2>1. UNCHANGED <<stored, uncited, status>>
    BY <1>2 DEF Commit, CommitRead, CommitFetch, CommitInsert, CommitTorn, row
  <2> QED
    BY <2>1, Stutters
<1> QED
  BY <1>1, <1>2

\* A deletion takes everything; one that comes second finds nothing.
LEMMA DiscardMaps ==
  ASSUME Typed, NothingLeft, Discard
  PROVE  [T!Next]_(T!vars) /\ NothingLeft'
<1>1. stored' = <<>> /\ uncited' = {} /\ status' = "gone"
  BY DEF Discard, Discarded
<1>2. Recorded' = {}
  BY <1>1 DEF Recorded
<1>3. CASE status = "gone"
  <2>1. stored = <<>> /\ uncited = {}
    BY <1>3 DEF NothingLeft, Typed
  <2>2. UNCHANGED <<stored, uncited>> /\ ((status' = "gone") <=> (status = "gone"))
    BY <1>1, <1>3, <2>1
  <2>3. UNCHANGED T!vars
    BY <2>2, Stutters
  <2> QED
    BY <1>1, <2>3 DEF NothingLeft
<1>4. CASE status # "gone"
  BY <1>1, <1>2, <1>4 DEF T!Next, T!Discard, NothingLeft
<1> QED
  BY <1>1, <1>3, <1>4 DEF NothingLeft

LEMMA StepMaps ==
  ASSUME ImportBounds, IInv, [ImportNext]_importVars
  PROVE  [T!Next]_(T!vars) /\ NothingLeft'
<1>1. CASE UNCHANGED <<stored, uncited, status>>
  BY <1>1, Stutters DEF IInv, NothingLeft
<1>2. ASSUME NEW r \in Request, Normalize(r)
      PROVE  [T!Next]_(T!vars) /\ NothingLeft'
  BY <1>2, NormalizeMaps, Stutters DEF IInv, NothingLeft
<1>3. ASSUME NEW r \in Request, Commit(r)
      PROVE  [T!Next]_(T!vars) /\ NothingLeft'
  BY <1>3, CommitMaps DEF IInv, NothingLeft
<1>4. CASE Delete \/ ReapDelete
  BY <1>4, DiscardMaps DEF Delete, ReapDelete, IInv
<1> QED
  BY <1>1, <1>2, <1>3, <1>4
     DEF ImportNext, Reap, ReapRead, ReapDies, Dies, Age, importVars, row

-----------------------------------------------------------------------------
LEMMA Initially ==
  ASSUME ImportBounds, ImportInit
  PROVE  IInv /\ T!Init
<1>1. Typed
  BY EmptySeq, UnreadChunk DEF ImportInit, Typed, ImportBounds
<1>2. Recorded = {}
  BY DEF ImportInit, Recorded
<1> QED
  BY <1>1, <1>2 DEF ImportInit, IInv, NothingLeft, Capped, T!Init

\* An import implements a transfer: its rows come in any number of steps of racing
\* requests, but go in one, with the import, and none comes after it.
THEOREM ImportIsTransfer ==
  ASSUME ImportBounds
  PROVE  ImportSpec => TransferSpec
<1>1. ImportInit => IInv /\ T!Init
  BY Initially
<1>2. IInv /\ [ImportNext]_importVars => IInv' /\ [T!Next]_(T!vars)
  BY StepTyped, StepMaps DEF IInv
<1> QED
  BY <1>1, <1>2, PTL DEF ImportSpec, T!Spec, TransferSpec

-----------------------------------------------------------------------------
(* An import that is shown as complete is whole.  The wizard's order keeps the *)
(* two phases apart; then what is stored is a beginning of the staging file.   *)

Committing(q) == pc[q] \in {"fetch", "insert"}
Begun == status \in {"importing", "complete"} \/ (cut # 0 /\ raw) \/ \E q \in Request : Committing(q)

\* A file is normalized in one of the two ways, and is named when it has been.
OneWay ==
    /\ DOMAIN pc = Request
    /\ status \in {"uploaded", "normalizing", "mapped", "importing", "complete", "gone"}
    /\ \A q \in Request : /\ pc[q] \in {"stage", "advance", "unlink"} => format = "ndjson"
                          /\ pc[q] \in {"swap", "update"} => format = "whole"
    /\ named => status # "uploaded"
    /\ ~named => normOffset = 0
    /\ named /\ format = "ndjson" => normOffset # 0

\* What a request has staged, or is about to stage.
InHand(q) ==
    /\ pc[q] \in {"stage", "advance"} => IF seen[q].own THEN seen[q].off = 0 ELSE named
    /\ pc[q] = "advance" =>
         /\ seen[q].end # 0
         /\ seen[q].eof => seen[q].end = Lines
         /\ seen[q].off + 1 .. seen[q].end \subseteq Range(seen[q].lines)
         /\ ~seen[q].own => Range(seen[q].lines) \subseteq Range(staged)

\* Up to the offset every line is in the staging file; once mapped, all are.
AllStaged ==
    /\ named /\ format = "ndjson" => 1 .. normOffset \subseteq Range(staged)
    /\ status \in {"mapped", "importing", "complete"} => named /\ Line \subseteq Range(staged)

\* Nobody normalizes what is being committed.
Apart ==
    /\ Begun => /\ status \in {"mapped", "importing", "complete"}
                /\ \A q \in Request : ~Normalizing(q)
    /\ cut = 0 \/ ~onDisk

\* A file that is parsed in a single pass is parsed by one request.
Unparsed ==
    /\ format = "whole" /\ raw => staged = <<>> /\ cut = 0
    /\ \A q \in Request : pc[q] = "update" =>
         ~raw /\ staged = <<>> /\ cut = 0 /\ \A p \in Request \ {q} : pc[p] # "update"

\* What is stored is the staging file up to the offset.
Prefix ==
    /\ status \notin {"importing", "complete"} => commitOffset = 0
    /\ commitOffset <= Len(staged)
    /\ stored = SubSeq(staged, 1, commitOffset)
    /\ status = "complete" => commitOffset = Len(staged)

\* What a request has fetched follows its offset.
Follows(q) ==
    /\ Committing(q) => seen[q].off <= Len(staged)
    /\ pc[q] = "insert" =>
         /\ seen[q].lines = SubSeq(staged, seen[q].off + 1, seen[q].end)
         /\ seen[q].off <= seen[q].end /\ seen[q].end <= Len(staged)
         /\ seen[q].eof => seen[q].end = Len(staged)

OnTheWay ==
    /\ OneWay /\ AllStaged /\ Apart /\ Unparsed /\ Prefix
    /\ \A q \in Request : InHand(q) /\ Follows(q)
WholeInv == status # "gone" => OnTheWay

LEMMA AtOnce ==
  ASSUME ImportInit
  PROVE  WholeInv
<1>1. SubSeq(staged, 1, 0) = <<>> /\ Len(staged) = 0
  BY EmptySeq, SubSeqEmpty DEF ImportInit
<1> QED
  BY <1>1 DEF ImportInit, WholeInv, OnTheWay, OneWay, AllStaged, Apart, Unparsed, Begun, Prefix,
              InHand, Follows, Committing, Normalizing

LEMMA HeldKinds ==
  ASSUME Typed, NEW q \in Request
  PROVE  /\ seen[q].off \in Nat /\ seen[q].end \in Nat /\ seen[q].own \in BOOLEAN
         /\ seen[q].eof \in BOOLEAN /\ seen[q].lines \in Seq(Line)
BY DEF Typed, Chunk

\* A request that ends, or dies, takes nothing along.
LEMMA Frees ==
  ASSUME Typed, OnTheWay, NEW r \in Request, Done(r),
         UNCHANGED <<row, staged, cut, onDisk, stored>>, raw' => raw
  PROVE  OnTheWay'
<1>1. /\ DOMAIN pc' = Request /\ pc'[r] = "idle"
      /\ \A q \in Request \ {r} : pc'[q] = pc[q] /\ seen'[q] = seen[q]
  BY DEF Done, Goto, OnTheWay, OneWay, Typed
<1>2. \A q \in Request : InHand(q)' /\ Follows(q)'
  BY <1>1 DEF OnTheWay, InHand, Follows, Committing, row
<1>3. Begun' => Begun
  BY <1>1 DEF Begun, Committing, row
<1>4. \A q \in Request : Normalizing(q)' => Normalizing(q)
  BY <1>1 DEF Normalizing
<1> QED
  BY <1>1, <1>2, <1>3, <1>4 DEF OnTheWay, OneWay, AllStaged, Apart, Unparsed, Prefix, row

\* While somebody normalizes nothing has been committed.
LEMMA NotBegun ==
  ASSUME OnTheWay, NEW r \in Request,
         Normalizing(r) \/ status \in {"uploaded", "normalizing"}
  PROVE  /\ ~Begun /\ (raw => cut = 0) /\ commitOffset = 0
         /\ \A q \in Request : ~Committing(q)
         /\ status \notin {"importing", "complete"}
BY DEF OnTheWay, Apart, Prefix, Begun

LEMMA NothingStored ==
  ASSUME Typed, OnTheWay, commitOffset = 0, NEW s \in Seq(Line)
  PROVE  stored = <<>> /\ SubSeq(s, 1, 0) = <<>> /\ 0 <= Len(s)
<1>1. SubSeq(staged, 1, 0) = <<>> /\ SubSeq(s, 1, 0) = <<>>
  BY SubSeqEmpty DEF Typed
<1>2. Len(s) \in Nat
  BY LenProperties
<1> QED
  BY <1>1, <1>2 DEF OnTheWay, Prefix

LEMMA StageWhole ==
  ASSUME ImportBounds, Typed, Typed', OnTheWay, NEW r \in Request, NormalizeStage(r)
  PROVE  OnTheWay'
<1>1. PICK k \in 1 .. MaxChunk :
        LET end  == Least(seen[r].off + k, Lines)
            rows == FromTo(seen[r].off, end)
        IN  /\ seen' = [seen EXCEPT ![r] =
                          [seen[r] EXCEPT !.lines = rows, !.end = end,
                                          !.eof = AtEnd(seen[r].off, k, Lines)]]
            /\ IF seen[r].own THEN UNCHANGED <<staged, onDisk>>
               ELSE staged' = staged \o rows /\ onDisk' = TRUE
  BY DEF NormalizeStage
<1> DEFINE off == seen[r].off
           end == Least(off + k, Lines)
           rows == FromTo(off, end)
<1>0. IF seen[r].own THEN staged' = staged ELSE staged' = staged \o rows
  BY <1>1
<1>2. /\ pc[r] = "stage" /\ pc' = [pc EXCEPT ![r] = "advance"] /\ raw
      /\ UNCHANGED <<row, cut, raw, stored>>
  BY DEF NormalizeStage, Goto
<1>3. off \in Nat /\ k \in Nat \ {0} /\ Lines \in Nat \ {0}
  BY HeldKinds DEF ImportBounds
<1>4. end \in Nat \ {0} /\ end <= Lines /\ (off + k > Lines => end = Lines)
  BY <1>3 DEF Least
<1>5. rows \in Seq(Line) /\ off + 1 .. end \subseteq Range(rows)
  <2> HIDE DEF end, off
  <2>1. rows \in Seq(Line)
    BY <1>3, <1>4, FromToLines
  <2>2. ASSUME NEW l \in off + 1 .. end
        PROVE  l \in Range(rows)
    <3>1. l - off \in 1 .. end - off /\ off + (l - off) = l
      BY <1>3, <1>4
    <3> QED
      BY <3>1 DEF Range, FromTo
  <2> QED
    BY <2>1, <2>2
<1> HIDE DEF end, rows
<1>6. /\ seen'[r].off = off /\ seen'[r].own = seen[r].own /\ seen'[r].lines = rows
      /\ seen'[r].end = end /\ (seen'[r].eof => off + k > Lines)
  <2>1. seen[r] \in Chunk
    BY DEF Typed
  <2> QED
    BY <1>1, <2>1 DEF Typed, Chunk, AtEnd, end, rows, off
<1>7. /\ \A q \in Request \ {r} : pc'[q] = pc[q] /\ seen'[q] = seen[q]
      /\ DOMAIN pc' = Request /\ pc'[r] = "advance"
  BY <1>1, <1>2 DEF Typed, OnTheWay, OneWay
<1>8. /\ Range(staged) \subseteq Range(staged')
      /\ ~seen[r].own => Range(rows) \subseteq Range(staged')
  <2>1. staged \in Seq(Line) /\ seen[r].own \in BOOLEAN
    BY HeldKinds DEF Typed
  <2>2. Range(staged \o rows) = Range(staged) \cup Range(rows)
    BY <1>5, <2>1, RangeConcatenation
  <2>3. CASE seen[r].own
    BY <1>0, <2>3
  <2>4. CASE ~seen[r].own
    BY <1>0, <2>2, <2>4
  <2> QED
    BY <2>3, <2>4
<1>9. /\ cut = 0 /\ commitOffset = 0 /\ status \notin {"importing", "complete"}
      /\ \A q \in Request : ~Committing(q)
  BY <1>2, NotBegun DEF Normalizing
<1>10. ~Begun' /\ \A q \in Request : ~Committing(q)'
  BY <1>2, <1>7, <1>9 DEF Begun, Committing, row
<1>11. Prefix'
  BY <1>2, <1>9, NothingStored DEF Prefix, Typed, row
<1>12. \A q \in Request : InHand(q)' /\ Follows(q)'
  <2>1. InHand(r)'
    BY <1>2, <1>4, <1>5, <1>6, <1>7, <1>8 DEF InHand, OnTheWay, row, off
  <2>2. ASSUME NEW q \in Request \ {r} PROVE InHand(q)'
    BY <1>2, <1>7, <1>8 DEF InHand, OnTheWay, row
  <2>3. \A q \in Request : Follows(q)'
    BY <1>10 DEF Follows, Committing
  <2> QED
    BY <2>1, <2>2, <2>3
<1> QED
  <2>1. format = "ndjson" /\ \A q \in Request : pc'[q] # "update"
    BY <1>2, <1>7 DEF OnTheWay, OneWay
  <2>2. Unparsed'
    BY <1>2, <2>1 DEF Unparsed, row
  <2> QED
    BY <1>2, <1>7, <1>8, <1>9, <1>10, <1>11, <1>12, <2>2
       DEF OnTheWay, OneWay, AllStaged, Apart, row

LEMMA AdvanceWhole ==
  ASSUME ImportBounds, Typed, Typed', OnTheWay, NEW r \in Request, NormalizeAdvance(r)
  PROVE  OnTheWay'
<1>1. CASE ~(status # "gone" /\ normOffset = seen[r].off)
  <2>1. Done(r) /\ UNCHANGED <<row, raw, staged, cut, onDisk, stored>>
    BY <1>1 DEF NormalizeAdvance, Done, row
  <2> QED
    BY <2>1, Frees
<1>2. CASE status # "gone" /\ normOffset = seen[r].off
  <2>1. /\ pc[r] = "advance"
        /\ status' = IF seen[r].eof THEN "mapped" ELSE "normalizing"
        /\ normOffset' = seen[r].end /\ named' = TRUE
        /\ IF seen[r].own THEN staged' = seen[r].lines /\ cut' = 0
           ELSE UNCHANGED <<staged, cut, onDisk>>
        /\ UNCHANGED <<format, raw, commitOffset, stored>>
    BY <1>2 DEF NormalizeAdvance
  <2>2. pc' = [pc EXCEPT ![r] = IF seen[r].eof THEN "unlink" ELSE "idle"]
    BY <1>2 DEF NormalizeAdvance, Goto
  <2>3. seen' = [seen EXCEPT ![r] = Unread]
    BY DEF NormalizeAdvance
  <2>4. /\ \A q \in Request \ {r} : pc'[q] = pc[q] /\ seen'[q] = seen[q]
        /\ DOMAIN pc' = Request /\ pc'[r] \in {"unlink", "idle"}
    BY <2>2, <2>3 DEF Typed, OnTheWay, OneWay
  <2>5. /\ ~(cut # 0 /\ raw) /\ commitOffset = 0 /\ \A q \in Request : ~Committing(q)
    BY <2>1, NotBegun DEF Normalizing
  <2>6. /\ format = "ndjson" /\ seen[r].end # 0 /\ (seen[r].eof => seen[r].end = Lines)
        /\ seen[r].off + 1 .. seen[r].end \subseteq Range(seen[r].lines)
        /\ seen[r].own => seen[r].off = 0
        /\ ~seen[r].own => named /\ Range(seen[r].lines) \subseteq Range(staged)
    BY <2>1 DEF OnTheWay, OneWay, InHand
  <2>7. 1 .. normOffset' \subseteq Range(staged')
    <3>1. CASE seen[r].own
      BY <2>1, <2>6, <3>1
    <3>2. CASE ~seen[r].own
      <4>1. 1 .. normOffset \subseteq Range(staged)
        BY <2>6, <3>2 DEF OnTheWay, AllStaged
      <4> QED
        BY <1>2, <2>1, <2>6, <3>2, <4>1, HeldKinds DEF Typed
    <3> QED
      BY <3>1, <3>2
  <2>8. ~Begun' /\ status' \in {"mapped", "normalizing"}
        /\ \A q \in Request : ~Committing(q)'
    BY <2>1, <2>4, <2>5 DEF Begun, Committing
  <2>9. Prefix'
    BY <2>1, <2>5, <2>8, NothingStored DEF Prefix, Typed
  <2>10. ASSUME NEW q \in Request
         PROVE  InHand(q)' /\ Follows(q)'
    <3>1. Follows(q)'
      BY <2>8 DEF Follows, Committing
    <3>2. CASE q = r
      BY <2>4, <3>1, <3>2 DEF InHand
    <3>3. CASE q # r /\ seen[r].own
      <4>1. ~named
        BY <1>2, <2>6, <3>3 DEF OnTheWay, OneWay
      <4> QED
        BY <2>4, <3>1, <3>3, <4>1 DEF InHand, OnTheWay
    <3>4. CASE q # r /\ ~seen[r].own
      BY <2>1, <2>4, <3>1, <3>4 DEF InHand, OnTheWay
    <3> QED
      BY <3>2, <3>3, <3>4
  <2>11. OneWay'
    BY <2>1, <2>4, <2>6, <2>8 DEF OnTheWay, OneWay
  <2>12. AllStaged'
    BY <2>1, <2>6, <2>7, <2>8 DEF AllStaged, Line
  <2> QED
    <3>1. cut' = 0 \/ ~onDisk'
      BY <2>1 DEF OnTheWay, Apart
    <3>2. \A q \in Request : pc'[q] # "update"
      BY <2>4, <2>6 DEF OnTheWay, OneWay
    <3>3. Apart' /\ Unparsed'
      BY <2>1, <2>6, <2>8, <3>1, <3>2 DEF Apart, Unparsed
    <3> QED
      BY <2>9, <2>10, <2>11, <2>12, <3>3 DEF OnTheWay
<1> QED
  BY <1>1, <1>2

LEMMA NormalizeWhole ==
  ASSUME ImportBounds, Typed, Typed', OnTheWay, NEW r \in Request, Normalize(r)
  PROVE  OnTheWay'
<1>1. CASE NormalizeRead(r)
  <2>1. /\ pc[r] = "idle" /\ format = "ndjson" /\ status \in {"uploaded", "normalizing"}
        /\ pc' = [pc EXCEPT ![r] = "stage"]
        /\ seen' = [seen EXCEPT ![r] = [Unread EXCEPT !.off = normOffset, !.own = ~named]]
        /\ UNCHANGED <<row, files, stored>>
    BY <1>1 DEF NormalizeRead, Goto
  <2>2. /\ \A q \in Request \ {r} : pc'[q] = pc[q] /\ seen'[q] = seen[q]
        /\ DOMAIN pc' = Request /\ pc'[r] = "stage"
        /\ seen'[r].off = normOffset /\ seen'[r].own = ~named
    BY <2>1 DEF Typed, OnTheWay, OneWay, Unread
  <2>3. ~Begun
    BY <2>1, NotBegun
  <2>4. ~Begun'
    BY <2>1, <2>2, <2>3 DEF Begun, Committing, row, files
  <2>5. \A q \in Request : InHand(q)' /\ Follows(q)'
    <3>1. InHand(r)' /\ Follows(r)'
      BY <2>1, <2>2 DEF OnTheWay, OneWay, InHand, Follows, Committing, row
    <3>2. ASSUME NEW q \in Request \ {r} PROVE InHand(q)' /\ Follows(q)'
      BY <2>1, <2>2 DEF OnTheWay, InHand, Follows, Committing, row, files
    <3> QED
      BY <3>1, <3>2
  <2> QED
    BY <2>1, <2>2, <2>4, <2>5
       DEF OnTheWay, OneWay, AllStaged, Apart, Unparsed, Prefix, row, files
<1>2. CASE ParseWhole(r) \/ SwapWhole(r)
  <2>1. /\ Normalizing(r) \/ status \in {"uploaded", "normalizing"}
        /\ \/ pc' = [pc EXCEPT ![r] = "swap"] /\ raw' = raw
           \/ pc' = [pc EXCEPT ![r] = "update"] /\ ~raw'
        /\ raw
        /\ UNCHANGED <<row, staged, cut, onDisk, stored, seen>>
    BY <1>2 DEF ParseWhole, SwapWhole, Goto, Normalizing, OnTheWay, OneWay, files
  <2>2. /\ \A q \in Request \ {r} : pc'[q] = pc[q]
        /\ DOMAIN pc' = Request /\ pc'[r] \in {"swap", "update"}
    BY <2>1 DEF OnTheWay, OneWay
  <2>3. ~Begun
    BY <2>1, NotBegun
  <2>4. ~Begun'
    BY <2>1, <2>2, <2>3 DEF Begun, Committing, row
  <2>5. \A q \in Request : InHand(q)' /\ Follows(q)'
    BY <2>1, <2>2 DEF OnTheWay, InHand, Follows, Committing, row
  <2>6. format = "whole"
    BY <1>2 DEF ParseWhole, SwapWhole, OnTheWay, OneWay
  <2>7. Unparsed'
    <3>1. staged = <<>> /\ cut = 0 /\ \A q \in Request : pc[q] # "update"
      BY <2>1, <2>6 DEF OnTheWay, Unparsed
    <3>2. \A q \in Request \ {r} : pc'[q] # "update"
      BY <2>2, <3>1
    <3> QED
      BY <2>1, <2>2, <3>1, <3>2 DEF Unparsed
  <2> QED
    BY <2>1, <2>2, <2>4, <2>5, <2>6, <2>7 DEF OnTheWay, OneWay, AllStaged, Apart, Prefix, row
<1>3. CASE UpdateWhole(r) /\ status # "gone"
  <2>1. /\ pc[r] = "update" /\ pc' = [pc EXCEPT ![r] = "idle"]
        /\ seen' = [seen EXCEPT ![r] = Unread]
        /\ status' = "mapped" /\ named' = TRUE /\ staged' = FromTo(0, Lines)
        /\ UNCHANGED <<format, normOffset, commitOffset, raw, cut, stored>>
    BY <1>3 DEF UpdateWhole, Done, Goto
  <2>2. /\ \A q \in Request \ {r} : pc'[q] = pc[q] /\ seen'[q] = seen[q]
        /\ DOMAIN pc' = Request /\ pc'[r] = "idle" /\ format = "whole"
    BY <2>1 DEF Typed, OnTheWay, OneWay
  <2>3. ~Begun /\ commitOffset = 0 /\ \A q \in Request : ~Committing(q)
    BY <2>1, NotBegun DEF Normalizing
  <2>8. cut = 0 /\ ~raw /\ \A q \in Request \ {r} : pc[q] # "update"
    BY <2>1 DEF OnTheWay, Unparsed
  <2>9. Unparsed'
    BY <2>1, <2>2, <2>8 DEF Unparsed
  <2>4. ~Begun' /\ \A q \in Request : ~Committing(q)'
    BY <2>1, <2>2, <2>3, <2>8 DEF Begun, Committing
  <2>5. Line \subseteq Range(staged')
    <3>1. ASSUME NEW l \in Line
          PROVE  l \in Range(FromTo(0, Lines))
      <4>1. l \in 1 .. Lines - 0 /\ 0 + l = l
        BY DEF Line, ImportBounds
      <4> QED
        BY <4>1 DEF Range, FromTo
    <3> QED
      BY <2>1, <3>1
  <2>6. Prefix'
    BY <2>1, <2>3, NothingStored DEF Prefix, Typed
  <2>7. \A q \in Request : InHand(q)' /\ Follows(q)'
    BY <2>2, <2>4 DEF OnTheWay, OneWay, InHand, Follows, Committing
  <2> QED
    BY <2>1, <2>2, <2>3, <2>4, <2>5, <2>6, <2>7, <2>8, <2>9
       DEF OnTheWay, OneWay, AllStaged, Apart
<1>4. CASE UpdateWhole(r) /\ status = "gone"
  BY <1>4, Frees DEF UpdateWhole, row
<1>5. CASE NormalizeUnlink(r)
  BY <1>5, Frees DEF NormalizeUnlink
<1> QED
  BY <1>1, <1>2, <1>3, <1>4, <1>5, StageWhole, AdvanceWhole DEF Normalize

LEMMA FetchWhole ==
  ASSUME ImportBounds, Typed, OnTheWay, NEW r \in Request, CommitFetch(r)
  PROVE  OnTheWay'
<1> DEFINE off == seen[r].off
           end(k) == IF Len(Staging) < off THEN off ELSE Least(off + k, Len(Staging))
<1>1. PICK k \in 1 .. MaxChunk :
        seen' = [seen EXCEPT ![r] = [seen[r] EXCEPT
                   !.lines = SubSeq(Staging, off + 1, end(k)),
                   !.end = end(k), !.eof = AtEnd(off, k, Len(Staging))]]
  BY DEF CommitFetch
<1>2. /\ pc[r] = "fetch" /\ pc' = [pc EXCEPT ![r] = "insert"] /\ onDisk
      /\ UNCHANGED <<row, files, stored>>
  BY DEF CommitFetch, Goto
<1>3. Staging = staged
  <2>1. cut = 0
    BY <1>2 DEF OnTheWay, Apart
  <2>2. SubSeq(staged, 1, Len(staged)) = staged
    BY SubSeqFull DEF Typed
  <2> QED
    BY <2>1, <2>2 DEF Staging
<1>4. off \in Nat /\ k \in Nat /\ Len(staged) \in Nat /\ off <= Len(staged)
  BY <1>2, HeldKinds, LenProperties DEF Typed, ImportBounds, OnTheWay, Follows, Committing
<1>5. /\ end(k) \in Nat /\ off <= end(k) /\ end(k) <= Len(staged)
      /\ off + k > Len(staged) => end(k) = Len(staged)
  BY <1>3, <1>4 DEF Least
<1> HIDE DEF end
<1>6. /\ seen'[r].off = off /\ seen'[r].end = end(k)
      /\ seen'[r].lines = SubSeq(staged, off + 1, end(k))
      /\ seen'[r].eof => off + k > Len(staged)
  <2>1. seen[r] \in Chunk
    BY DEF Typed
  <2> QED
    BY <1>1, <1>3, <2>1 DEF Typed, Chunk, AtEnd
<1>7. /\ \A q \in Request \ {r} : pc'[q] = pc[q] /\ seen'[q] = seen[q]
      /\ DOMAIN pc' = Request /\ pc'[r] = "insert"
  BY <1>1, <1>2 DEF Typed, OnTheWay, OneWay
<1>8. \A q \in Request : InHand(q)' /\ Follows(q)'
  <2>1. InHand(r)' /\ Follows(r)'
    BY <1>2, <1>4, <1>5, <1>6, <1>7 DEF InHand, Follows, Committing, files, off
  <2>2. ASSUME NEW q \in Request \ {r} PROVE InHand(q)' /\ Follows(q)'
    BY <1>2, <1>7 DEF OnTheWay, InHand, Follows, Committing, row, files
  <2> QED
    BY <2>1, <2>2
<1>9. Begun /\ \A q \in Request : ~Normalizing(q)
  BY <1>2 DEF Begun, Committing, OnTheWay, Apart
<1>10. \A q \in Request : ~Normalizing(q)'
  BY <1>7, <1>9 DEF Normalizing
<1> QED
  BY <1>2, <1>7, <1>8, <1>9, <1>10
     DEF OnTheWay, OneWay, AllStaged, Apart, Unparsed, Prefix, row, files

LEMMA InsertWhole ==
  ASSUME ImportBounds, Typed, OnTheWay, NEW r \in Request, CommitInsert(r), Current(r)
  PROVE  OnTheWay'
<1> DEFINE off == seen[r].off
           end == seen[r].end
<1>1. /\ pc[r] = "insert" /\ Done(r)
      /\ stored' = stored \o seen[r].lines /\ commitOffset' = end
      /\ status' = IF seen[r].eof THEN "complete" ELSE "importing"
      /\ IF seen[r].eof THEN ~onDisk' /\ cut' = Len(staged) ELSE UNCHANGED <<onDisk, cut>>
      /\ UNCHANGED <<format, named, normOffset, raw, staged>>
  BY DEF CommitInsert, Take
<1>2. /\ off = commitOffset /\ off \in Nat /\ end \in Nat /\ off <= end /\ end <= Len(staged)
      /\ seen[r].eof => end = Len(staged)
      /\ seen[r].lines = SubSeq(staged, off + 1, end)
      /\ Len(staged) \in Nat
  BY <1>1, HeldKinds, LenProperties
     DEF Typed, OnTheWay, Follows, Current
<1>3. stored' = SubSeq(staged, 1, end)
  <2>1. stored = SubSeq(staged, 1, off)
    BY <1>2 DEF OnTheWay, Prefix
  <2> HIDE DEF off, end
  <2>2. SubSeq(staged, 1, off) \o SubSeq(staged, off + 1, end) = SubSeq(staged, 1, end)
    BY <1>2, ConcatAdjacentSubSeq DEF Typed
  <2> QED
    BY <1>1, <1>2, <2>1, <2>2
<1>4. Begun /\ status \in {"mapped", "importing", "complete"}
      /\ \A q \in Request : ~Normalizing(q)
  BY <1>1 DEF Begun, Committing, OnTheWay, Apart
<1>5. /\ DOMAIN pc' = Request /\ pc'[r] = "idle"
      /\ \A q \in Request \ {r} : pc'[q] = pc[q] /\ seen'[q] = seen[q]
  BY <1>1 DEF Done, Goto, OnTheWay, OneWay, Typed
<1>6. \A q \in Request : ~Normalizing(q)'
  BY <1>4, <1>5 DEF Normalizing
<1>7. \A q \in Request : InHand(q)' /\ Follows(q)'
  BY <1>1, <1>5 DEF OnTheWay, InHand, Follows, Committing
<1>8. Prefix'
  BY <1>1, <1>2, <1>3 DEF Prefix
<1>9. Apart' /\ Unparsed'
  <2>1. Apart'
    BY <1>1, <1>6 DEF Apart, OnTheWay
  <2>2. \A q \in Request : pc'[q] # "update"
    BY <1>6 DEF Normalizing
  <2>3. staged = <<>> => Len(staged) = 0
    OBVIOUS
  <2>4. Unparsed'
    BY <1>1, <2>2, <2>3 DEF Unparsed, OnTheWay
  <2> QED
    BY <2>1, <2>4
<1> QED
  BY <1>1, <1>4, <1>5, <1>7, <1>8, <1>9 DEF OnTheWay, OneWay, AllStaged

LEMMA CommitWhole ==
  ASSUME ImportBounds, Orderly, Typed, OnTheWay, status # "gone", NEW r \in Request, Commit(r)
  PROVE  OnTheWay'
<1>1. CASE CommitRead(r)
  <2>1. /\ pc[r] = "idle" /\ named /\ status # "complete" /\ status # "normalizing"
        /\ \A q \in Request : ~Normalizing(q)
        /\ pc' = [pc EXCEPT ![r] = "fetch"]
        /\ seen' = [seen EXCEPT ![r] = [Unread EXCEPT !.off = commitOffset]]
        /\ UNCHANGED <<row, files, stored>>
    BY <1>1 DEF CommitRead, Goto
  <2>2. /\ \A q \in Request \ {r} : pc'[q] = pc[q] /\ seen'[q] = seen[q]
        /\ DOMAIN pc' = Request /\ pc'[r] = "fetch" /\ seen'[r].off = commitOffset
    BY <2>1 DEF Typed, OnTheWay, OneWay, Unread
  <2>3. status \in {"mapped", "importing"}
    BY <2>1 DEF OnTheWay, OneWay, Typed
  <2>4. \A q \in Request : InHand(q)' /\ Follows(q)'
    BY <2>1, <2>2 DEF OnTheWay, Prefix, InHand, Follows, Committing, row, files
  <2>5. \A q \in Request : ~Normalizing(q)'
    BY <2>1, <2>2 DEF Normalizing
  <2> QED
    BY <2>1, <2>2, <2>3, <2>4, <2>5
       DEF OnTheWay, OneWay, AllStaged, Apart, Unparsed, Prefix, row, files
<1>2. CASE CommitInsert(r) /\ ~Current(r)
  BY <1>2, Frees DEF CommitInsert, row
<1>3. CASE CommitTorn(r)
  <2>1. /\ pc[r] = "insert" /\ Done(r) /\ ~onDisk' /\ cut' = Len(staged)
        /\ UNCHANGED <<row, raw, staged, stored>>
    BY <1>3 DEF CommitTorn
  <2>2. Begun /\ status \in {"mapped", "importing", "complete"}
        /\ \A q \in Request : ~Normalizing(q)
    BY <2>1 DEF Begun, Committing, OnTheWay, Apart
  <2>3. /\ DOMAIN pc' = Request /\ pc'[r] = "idle"
        /\ \A q \in Request \ {r} : pc'[q] = pc[q] /\ seen'[q] = seen[q]
    BY <2>1 DEF Done, Goto, OnTheWay, OneWay, Typed
  <2>4. \A q \in Request : ~Normalizing(q)'
    BY <2>2, <2>3 DEF Normalizing
  <2>5. \A q \in Request : InHand(q)' /\ Follows(q)'
    BY <2>1, <2>3 DEF OnTheWay, InHand, Follows, Committing, row
  <2> QED
    <3>1. \A q \in Request : pc'[q] # "update"
      BY <2>4 DEF Normalizing
    <3>2. staged = <<>> => Len(staged) = 0
      OBVIOUS
    <3>3. Unparsed'
      BY <2>1, <3>1, <3>2 DEF Unparsed, OnTheWay, row
    <3> QED
      BY <2>1, <2>2, <2>3, <2>4, <2>5, <3>3 DEF OnTheWay, OneWay, AllStaged, Apart, Prefix, row
<1> QED
  BY <1>1, <1>2, <1>3, FetchWhole, InsertWhole DEF Commit

LEMMA StepWhole ==
  ASSUME ImportBounds, Orderly, Typed, Typed', WholeInv, [ImportNext]_importVars
  PROVE  WholeInv'
<1> SUFFICES ASSUME status' # "gone" PROVE OnTheWay'
  BY DEF WholeInv
<1>1. CASE Delete \/ ReapDelete
  BY <1>1 DEF Delete, ReapDelete, Discard
<1>2. CASE UNCHANGED <<format, status, named, normOffset, commitOffset, files, stored, pc, seen>>
  <2>1. OnTheWay
    BY <1>2 DEF WholeInv
  <2> QED
    BY <1>2, <2>1 DEF OnTheWay, OneWay, AllStaged, Apart, Unparsed, Begun, Prefix, InHand, Follows,
                      Committing, Normalizing, files
<1>3. ASSUME NEW r \in Request, Normalize(r)
      PROVE  OnTheWay'
  <2>1. status # "gone"
    BY <1>3, NormalizeMaps
  <2> QED
    BY <1>3, <2>1, NormalizeWhole DEF WholeInv
<1>4. ASSUME NEW r \in Request, Commit(r)
      PROVE  OnTheWay'
  <2>1. status # "gone"
    BY <1>4 DEF Commit, CommitRead, CommitFetch, CommitInsert, CommitTorn, Current, row
  <2> QED
    BY <1>4, <2>1, CommitWhole DEF WholeInv
<1>6. CASE ReapDies
  <2>1. /\ OnTheWay /\ UNCHANGED <<row, staged, stored, pc, seen>>
        /\ raw' = FALSE \/ UNCHANGED raw
        /\ UNCHANGED <<onDisk, cut>> \/ (~raw' /\ ~onDisk' /\ cut' = Len(staged))
    BY <1>6 DEF ReapDies, RemoveFiles, WholeInv, row
  <2>2. \A q \in Request : InHand(q)' /\ Follows(q)'
    BY <2>1 DEF OnTheWay, InHand, Follows, Committing, row
  <2>3. Begun' => Begun
    BY <2>1 DEF Begun, Committing, row
  <2>4. staged = <<>> => Len(staged) = 0
    OBVIOUS
  <2>5. Apart' /\ Unparsed'
    BY <2>1, <2>3, <2>4 DEF OnTheWay, Apart, Unparsed, Normalizing, row
  <2> QED
    BY <2>1, <2>2, <2>5 DEF OnTheWay, OneWay, AllStaged, Prefix, row
<1>5. ASSUME NEW r \in Request, Dies(r)
      PROVE  OnTheWay'
  <2>1. /\ Done(r) /\ status # "gone" /\ UNCHANGED <<row, raw, staged, cut, onDisk, stored>>
    BY <1>5 DEF Dies, row, files
  <2> QED
    BY <2>1, Frees DEF WholeInv
<1> QED
  BY <1>1, <1>2, <1>3, <1>4, <1>5, <1>6
     DEF ImportNext, Reap, ReapRead, Age, importVars, row

LEMMA WholeStored ==
  ASSUME ImportBounds, Typed, WholeInv, NothingLeft, Capped
  PROVE  CompleteMeansAll /\ StoredAsStaged
<1>1. CASE status = "gone"
  <2>1. \A l \in Line : Count(stored, l) = 0
    BY <1>1, FS_EmptySet DEF NothingLeft, Count
  <2>2. \A l \in Line : Count(staged, l) \in Nat
    <3>1. IsFiniteSet(DOMAIN staged)
      BY LenProperties, FS_Interval DEF Typed
    <3>2. \A l \in Line : IsFiniteSet({i \in DOMAIN staged : staged[i] = l})
      BY <3>1, FS_Subset
    <3> QED
      BY <3>2, FS_CardinalityType DEF Count
  <2> QED
    BY <1>1, <2>1, <2>2 DEF CompleteMeansAll, StoredAsStaged
<1>2. CASE status # "gone"
  <2>1. stored = SubSeq(staged, 1, commitOffset) /\ commitOffset <= Len(staged)
        /\ commitOffset \in Nat /\ staged \in Seq(Line) /\ Len(staged) \in Nat
    BY <1>2, LenProperties DEF WholeInv, OnTheWay, Prefix, Typed
  <2>2. Len(stored) = commitOffset /\ \A i \in 1 .. commitOffset : stored[i] = staged[i]
    <3>1. \A i \in 1 .. commitOffset : staged[i] \in Line
      BY <2>1, LenProperties
    <3>2. /\ Len(stored) = IF 1 <= commitOffset THEN commitOffset - 1 + 1 ELSE 0
          /\ \A i \in 1 .. commitOffset - 1 + 1 : stored[i] = staged[1 + i - 1]
      BY <2>1, <3>1, SubSeqProperties
    <3> QED
      BY <2>1, <3>2
  <2>3. DOMAIN stored = 1 .. commitOffset /\ DOMAIN staged = 1 .. Len(staged)
    BY <2>1, <2>2, LenProperties DEF Typed
  <2>4. ASSUME NEW l \in Line
        PROVE  Count(stored, l) <= Count(staged, l)
    <3>1. {i \in DOMAIN stored : stored[i] = l} \subseteq {i \in DOMAIN staged : staged[i] = l}
      BY <2>1, <2>2, <2>3
    <3>2. IsFiniteSet(DOMAIN staged)
      BY <2>1, <2>3, FS_Interval
    <3>3. IsFiniteSet({i \in DOMAIN staged : staged[i] = l})
      BY <3>2, FS_Subset
    <3> QED
      BY <3>1, <3>3, FS_Subset DEF Count
  <2>5. CompleteMeansAll
    <3> SUFFICES ASSUME status = "complete"
                 PROVE  Line \subseteq Range(stored) /\ (Line \subseteq Recorded \/ errors = MaxErrors)
      BY DEF CompleteMeansAll
    <3>1. Line \subseteq Range(staged) /\ commitOffset = Len(staged)
      BY <1>2 DEF WholeInv, OnTheWay, AllStaged, Prefix
    <3>2. Line \subseteq Range(stored)
      BY <2>2, <2>3, <3>1 DEF Range
    <3>3. uncited = {} => Recorded = Range(stored)
      BY DEF Recorded, Range
    <3> QED
      BY <3>2, <3>3 DEF Capped
  <2> QED
    BY <2>4, <2>5 DEF StoredAsStaged
<1> QED
  BY <1>1, <1>2

\* What an import leaves is all of the upload once it is shown as complete: each line has
\* its row or its error, or is counted when the errors kept are at their cap; and never a
\* line more often than it was staged, whichever requests raced or died.
THEOREM CompleteIsWhole ==
  ASSUME ImportBounds, Orderly
  PROVE  ImportSpec => []StoredWhole
<1>1. ImportInit => IInv /\ WholeInv
  BY Initially, AtOnce
<1>2. IInv /\ WholeInv /\ [ImportNext]_importVars => (IInv /\ WholeInv)'
  BY StepTyped, StepMaps, StepWhole DEF IInv
<1>3. IInv /\ WholeInv => StoredWhole
  BY WholeStored DEF IInv, StoredWhole
<1> QED
  BY <1>1, <1>2, <1>3, PTL DEF ImportSpec

-----------------------------------------------------------------------------
(* A replay that is shown as complete is whole.                                *)

\* As long as no rule is switched: up to the offset every rule has been run, and a
\* request's share is the rules that follow where it began.
Behind(n) == 1 .. n \subseteq evaluated
ShareFrom(q) ==
    /\ share[q] = startedAt[q] + 1 .. startedAt[q] + Cardinality(share[q])
    /\ listed[q] = Rules
ReplayTyped ==
    /\ switches \in Nat /\ offset \in Nat
    /\ enabled \subseteq Rule /\ evaluated \subseteq Rule
    /\ DOMAIN rpc = Tab /\ startedAt \in [Tab -> Nat]
    /\ DOMAIN share = Tab /\ DOMAIN listed = Tab
    /\ \A q \in Tab : share[q] \subseteq Rule
AllAlong ==
    /\ enabled = Rule
    /\ Behind(offset)
    /\ \A q \in Tab : rpc[q] # "idle" => Behind(startedAt[q]) /\ startedAt[q] <= Rules
    /\ \A q \in Tab : rpc[q] \in {"write", "advance"} => ShareFrom(q)
    /\ \A q \in Tab : rpc[q] = "advance" => share[q] \subseteq evaluated
    /\ replay = "complete" => evaluated = Rule
    /\ offset <= Rules
ReplayInv == ReplayTyped /\ (switches = 0 => AllAlong)

LEMMA ReplayStarts ==
  ASSUME ReplayBounds, ReplayInit
  PROVE  ReplayInv
BY DEF ReplayBounds, ReplayInit, ReplayInv, ReplayTyped, AllAlong, Behind, Rule

LEMMA Counted ==
  ASSUME NEW a \in Nat, NEW b \in Nat, a <= b
  PROVE  IsFiniteSet(a + 1 .. b) /\ Cardinality(a + 1 .. b) = b - a
<1>1. a + 1 \in Int /\ b \in Int
  OBVIOUS
<1>2. IsFiniteSet(a + 1 .. b)
      /\ Cardinality(a + 1 .. b) = IF a + 1 > b THEN 0 ELSE b - (a + 1) + 1
  BY <1>1, FS_Interval
<1> QED
  BY <1>2

LEMMA RulesCounted ==
  ASSUME NEW n \in Nat
  PROVE  IsFiniteSet(1 .. n) /\ Cardinality(1 .. n) = n
<1>1. IsFiniteSet(0 + 1 .. n) /\ Cardinality(0 + 1 .. n) = n - 0
  <2>1. 0 \in Nat /\ 0 <= n
    OBVIOUS
  <2> QED
    BY <2>1, Counted
<1>2. 0 + 1 .. n = 1 .. n /\ n - 0 = n
  OBVIOUS
<1> QED
  BY <1>1, <1>2

\* With every rule enabled a rule's position in the list is its id.
LEMMA ShareIs ==
  ASSUME ReplayBounds, enabled = Rule, NEW n \in Nat, n <= Rules, NEW k \in Nat
  PROVE  \E m \in n .. Rules : /\ Share(n, k) = n + 1 .. m /\ Cardinality(Share(n, k)) = m - n
<1>1. ASSUME NEW r \in Rule
      PROVE  Position(r) = r
  <2>1. {s \in enabled : s <= r} = 1 .. r /\ r \in Nat
    BY DEF Rule, ReplayBounds
  <2>2. Cardinality(1 .. r) = r
    BY <2>1, RulesCounted
  <2> QED
    BY <2>1, <2>2 DEF Position
<1> DEFINE m == IF n + k <= Rules THEN n + k ELSE Rules
<1>2. m \in n .. Rules
  BY DEF ReplayBounds
<1>3. Share(n, k) = n + 1 .. m
  BY <1>1, <1>2 DEF Share, Rule, ReplayBounds
<1>4. Cardinality(n + 1 .. m) = m - n
  <2>1. m \in Nat /\ n <= m
    BY <1>2 DEF ReplayBounds
  <2> HIDE DEF m
  <2> QED
    BY <2>1, Counted
<1> QED
  BY <1>2, <1>3, <1>4

LEMMA ReplayStep ==
  ASSUME ReplayBounds, ReplayInv, [ReplayNext]_replayVars
  PROVE  ReplayInv'
<1> USE DEF ReplayInv
<1>1. CASE UNCHANGED replayVars
  BY <1>1 DEF replayVars, replayBook, tabVars, ReplayTyped, AllAlong, Behind, ShareFrom
<1>2. CASE \E r \in Rule : Switch(r)
  <2>1. /\ switches' = switches + 1 /\ enabled' \subseteq enabled \cup Rule
        /\ UNCHANGED <<replay, offset, alerts, evaluated, tabVars>>
    BY <1>2 DEF Switch
  <2> QED
    BY <2>1 DEF ReplayTyped, tabVars
<1>3. ASSUME NEW q \in Tab, BeginReplay(q) \/ ContinueReplay(q)
      PROVE  ReplayInv'
  <2>1. /\ rpc' = [rpc EXCEPT ![q] = "list"] /\ startedAt' = [startedAt EXCEPT ![q] = offset']
        /\ offset' = offset \/ offset' = 0
        /\ replay' = "running"
        /\ UNCHANGED <<enabled, switches, evaluated, share, listed>>
    BY <1>3 DEF BeginReplay, ContinueReplay, ReplayAt, replayBook
  <2>2. ReplayTyped'
    BY <2>1 DEF ReplayTyped
  <2>3. switches = 0 => Behind(offset') /\ offset' <= Rules
    BY <2>1 DEF AllAlong, Behind, ReplayBounds
  <2> QED
    BY <2>1, <2>2, <2>3 DEF ReplayTyped, AllAlong, Behind, ShareFrom
<1>4. ASSUME NEW q \in Tab, ListRules(q)
      PROVE  ReplayInv'
  <2>1. PICK k \in 1 .. MaxShare : share' = [share EXCEPT ![q] = Share(startedAt[q], k)]
    BY <1>4 DEF ListRules
  <2>2. /\ rpc[q] = "list" /\ rpc' = [rpc EXCEPT ![q] = "write"]
        /\ listed' = [listed EXCEPT ![q] = Cardinality(enabled)]
        /\ UNCHANGED <<enabled, switches, replay, offset, evaluated, startedAt>>
    BY <1>4 DEF ListRules, ReplayAt, replayBook
  <2>3. Share(startedAt[q], k) \subseteq Rule
    BY DEF Share, ReplayTyped
  <2>4. ReplayTyped'
    BY <2>1, <2>2, <2>3 DEF ReplayTyped
  <2>5. switches = 0 => ShareFrom(q)'
    <3> SUFFICES ASSUME switches = 0 PROVE ShareFrom(q)'
      OBVIOUS
    <3>1. PICK m \in startedAt[q] .. Rules :
             /\ Share(startedAt[q], k) = startedAt[q] + 1 .. m
             /\ Cardinality(Share(startedAt[q], k)) = m - startedAt[q]
      <4>1. enabled = Rule /\ startedAt[q] <= Rules
        BY <2>2 DEF AllAlong
      <4>2. startedAt[q] \in Nat /\ k \in Nat
        BY DEF ReplayTyped, ReplayBounds
      <4> QED
        BY <4>1, <4>2, ShareIs
    <3>2. Cardinality(enabled) = Rules
      BY RulesCounted DEF AllAlong, Rule, ReplayBounds
    <3>3. share'[q] = Share(startedAt[q], k) /\ listed'[q] = Rules /\ startedAt'[q] = startedAt[q]
      BY <2>1, <2>2, <3>2 DEF ReplayTyped
    <3> QED
      BY <3>1, <3>3 DEF ShareFrom, ReplayTyped
  <2>6. \A p \in Tab \ {q} : rpc'[p] = rpc[p] /\ (ShareFrom(p) => ShareFrom(p)')
                            /\ share'[p] = share[p]
    BY <2>1, <2>2 DEF ReplayTyped, ShareFrom
  <2> QED
    BY <2>2, <2>4, <2>5, <2>6 DEF ReplayTyped, AllAlong, Behind
<1>5. ASSUME NEW q \in Tab, WriteAlerts(q)
      PROVE  ReplayInv'
  <2>1. /\ rpc[q] = "write" /\ rpc' = [rpc EXCEPT ![q] = "advance"]
        /\ evaluated' = evaluated \cup share[q]
        /\ UNCHANGED <<enabled, switches, replay, offset, startedAt, share, listed>>
    BY <1>5 DEF WriteAlerts, ReplayAt
  <2> QED
    BY <2>1 DEF ReplayTyped, AllAlong, Behind, ShareFrom
<1>6. ASSUME NEW q \in Tab, Forget(q),
             UNCHANGED <<enabled, switches, evaluated>>,
             offset' \in Nat, switches = 0 => Behind(offset') /\ offset' <= Rules,
             switches = 0 /\ replay' = "complete" => evaluated = Rule
      PROVE  ReplayInv'
  <2>1. /\ ReplayTyped' /\ rpc'[q] = "idle"
        /\ \A p \in Tab \ {q} : /\ rpc'[p] = rpc[p] /\ share'[p] = share[p]
                                /\ startedAt'[p] = startedAt[p] /\ listed'[p] = listed[p]
    BY <1>6 DEF Forget, ReplayAt, ReplayTyped
  <2> QED
    BY <1>6, <2>1 DEF AllAlong, Behind, ShareFrom
<1>7. ASSUME NEW q \in Tab, Advance(q)
      PROVE  ReplayInv'
  <2>1. /\ rpc[q] = "advance" /\ Forget(q) /\ UNCHANGED <<enabled, switches, evaluated>>
        /\ \/ UNCHANGED <<offset, replay>>
           \/ /\ offset' = startedAt[q] + Cardinality(share[q])
              /\ replay' = IF Ends(q) THEN "complete" ELSE "running"
    BY <1>7 DEF Advance
  <2>2. CASE UNCHANGED <<offset, replay>>
    BY <1>6, <2>1, <2>2 DEF ReplayTyped, AllAlong
  <2>3. CASE /\ offset' = startedAt[q] + Cardinality(share[q])
             /\ replay' = IF Ends(q) THEN "complete" ELSE "running"
    <3> DEFINE a == startedAt[q]
               c == Cardinality(share[q])
    <3>1. IsFiniteSet(share[q])
      <4>1. IsFiniteSet(Rule)
        BY RulesCounted DEF Rule, ReplayBounds
      <4> QED
        BY <4>1, FS_Subset DEF ReplayTyped
    <3>2. a \in Nat /\ c \in Nat
      BY <3>1, FS_CardinalityType DEF ReplayTyped
    <3>3. ASSUME switches = 0
          PROVE  Behind(a + c) /\ a + c <= Rules /\ (Ends(q) => evaluated = Rule)
      <4>1. /\ 1 .. a \subseteq evaluated /\ a <= Rules
            /\ share[q] = a + 1 .. a + c /\ listed[q] = Rules /\ share[q] \subseteq evaluated
            /\ evaluated \subseteq Rule
        BY <2>1, <3>3 DEF AllAlong, Behind, ShareFrom, ReplayTyped
      <4> HIDE DEF a, c
      <4>2. 1 .. a + c \subseteq evaluated
        BY <3>2, <4>1
      <4>3. a + c <= Rules
        BY <3>2, <4>1, <4>2 DEF Rule, ReplayBounds
      <4>4. Ends(q) => a + c >= Rules
        BY <4>1 DEF Ends, a, c
      <4>5. Ends(q) => evaluated = Rule
        <5>1. Ends(q) => 1 .. Rules \subseteq 1 .. a + c
          BY <3>2, <4>4 DEF ReplayBounds
        <5> QED
          BY <4>1, <4>2, <5>1 DEF Rule
      <4> QED
        BY <4>2, <4>3, <4>5 DEF Behind
    <3> QED
      BY <1>6, <2>1, <2>3, <3>2, <3>3
  <2> QED
    BY <2>1, <2>2, <2>3
<1>8. ASSUME NEW q \in Tab, ReplayDies(q)
      PROVE  ReplayInv'
  BY <1>6, <1>8 DEF ReplayDies, replayBook, ReplayTyped, AllAlong
<1> QED
  BY <1>1, <1>2, <1>3, <1>4, <1>5, <1>7, <1>8 DEF ReplayNext

\* A replay shown as complete has run every rule, whichever tabs drove it, as long as
\* nobody switched a rule meanwhile.
THEOREM ReplaysAreWhole ==
  ASSUME ReplayBounds
  PROVE  ReplaySpec => []ReplayedAll
<1>1. ReplayInit => ReplayInv
  BY ReplayStarts
<1>2. ReplayInv /\ [ReplayNext]_replayVars => ReplayInv'
  BY ReplayStep
<1>3. ReplayInv => ReplayedAll
  BY DEF ReplayInv, AllAlong, ReplayedAll
<1> QED
  BY <1>1, <1>2, <1>3, PTL DEF ReplaySpec
=============================================================================
