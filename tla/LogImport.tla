------------------------------ MODULE LogImport ------------------------------
(* One uploaded log file on its way into imported_logs.  Requests driven by a  *)
(* wizard in the browser first normalize it chunk by chunk into a staging file *)
(* and then commit the staging file chunk by chunk into the database.  Each    *)
(* request reads the import's row, works on the files, and only then updates   *)
(* the row, if the offset it started from is still the row's.  Requests        *)
(* overlap and die; an abandoned import is reaped after 48 hours.              *)
EXTENDS Integers, Sequences, FiniteSets, SequencesExt

CONSTANTS
    Request,     \* bound: requests about the import that may overlap
    Lines,       \* bound: lines of the uploaded file that are JSON objects
    MaxChunk,    \* bound: lines a request asks for
    MaxStaged,   \* bound: lines ever written to the staging file
    MaxErrors,   \* errors that an import keeps (1000)
    Formats,     \* what the upload may be: "ndjson", or "whole" (CSV, a JSON array)
    Orderly      \* TRUE: the wizard commits when all normalizing has ended

Line == 1 .. Lines
ImportBounds ==
    /\ Lines \in Nat \ {0} /\ MaxChunk \in Nat \ {0} /\ {MaxStaged, MaxErrors} \subseteq Nat
    /\ Orderly \in BOOLEAN
    /\ Formats \subseteq {"ndjson", "whole"} /\ Formats # {}

VARIABLES
    format,        \* imports.format
    status,        \* imports.status ("gone": the row is deleted)
    named,         \* imports.staging_path is set
    normOffset,    \* imports.normalize_offset, in lines
    commitOffset,  \* imports.commit_offset, in lines of the staging file
    raw,           \* the uploaded file is on disk
    staged,        \* every line ever written to the recorded staging file ...
    cut,           \* ... of which so many went when the file was removed
    onDisk,        \* the recorded staging file is on disk
    stored,        \* the lines that commits have taken: each left its row in imported_logs,
                   \* or its error in import_errors, ...
    uncited,       \* ... but for these places, which only rows_failed counts
    errors,        \* the rows of import_errors
    aged,          \* the import is older than 48 hours
    reaping,       \* a sweep has listed the import among the abandoned
    pc, seen       \* per request: where it is, and what it has read

row   == <<format, status, named, normOffset, commitOffset, aged>>
files == <<raw, staged, cut, onDisk>>
importVars  == <<row, files, stored, uncited, errors, reaping, pc, seen>>

Unread == [off |-> 0, own |-> FALSE, lines |-> <<>>, end |-> 0, eof |-> FALSE]
Chunk == [off : Nat, own : BOOLEAN, lines : Seq(Line), end : Nat, eof : BOOLEAN]

ImportTypeOK ==
    /\ format \in Formats
    /\ status \in {"uploaded", "normalizing", "mapped", "importing", "complete", "gone"}
    /\ named \in BOOLEAN /\ normOffset \in Nat /\ commitOffset \in Nat
    /\ raw \in BOOLEAN /\ staged \in Seq(Line) /\ cut \in Nat /\ onDisk \in BOOLEAN
    /\ stored \in Seq(Line) /\ uncited \subseteq DOMAIN stored /\ errors \in 0 .. MaxErrors
    /\ aged \in BOOLEAN /\ reaping \in BOOLEAN
    /\ pc \in [Request -> {"idle", "stage", "advance", "unlink", "load", "swap",
                           "update", "fetch", "insert"}]
    /\ seen \in [Request -> Chunk]

\* Just uploaded.
ImportInit ==
    /\ format \in Formats
    /\ status = "uploaded" /\ named = FALSE /\ normOffset = 0 /\ commitOffset = 0
    /\ raw = TRUE /\ staged = <<>> /\ cut = 0 /\ onDisk = FALSE
    /\ stored = <<>> /\ uncited = {} /\ errors = 0 /\ aged = FALSE /\ reaping = FALSE
    /\ pc = [r \in Request |-> "idle"]
    /\ seen = [r \in Request |-> Unread]

Goto(r, l) == pc' = [pc EXCEPT ![r] = l]
Done(r) == Goto(r, "idle") /\ seen' = [seen EXCEPT ![r] = Unread]

\* A request dies, or answers an error: what it has not written is forgotten.
Dies(r) ==
    /\ pc[r] # "idle"
    /\ Done(r)
    /\ UNCHANGED <<row, files, stored, uncited, errors, reaping>>

-----------------------------------------------------------------------------
(* POST .../normalize, for one JSON object per line.                          *)

\* The first call names a staging file of its own, the later ones append to it.
NormalizeRead(r) ==
    /\ pc[r] = "idle" /\ format = "ndjson"
    /\ status \in {"uploaded", "normalizing"}
    /\ seen' = [seen EXCEPT ![r] = [Unread EXCEPT !.off = normOffset, !.own = ~named]]
    /\ Goto(r, "stage")
    /\ UNCHANGED <<row, files, stored, uncited, errors, reaping>>

FromTo(m, n) == [i \in 1 .. n - m |-> m + i]
Least(m, n) == IF m < n THEN m ELSE n
\* Broken variant: one line too early.
AtEnd_Early(off, k, n) == off + k >= n - 1
AtEnd(off, k, n) == off + k > n

NormalizeStage(r) ==
    /\ pc[r] = "stage" /\ raw
    /\ \E k \in 1 .. MaxChunk :
         LET end  == Least(seen[r].off + k, Lines)
             rows == FromTo(seen[r].off, end)
         IN  /\ seen' = [seen EXCEPT ![r] =
                           [@ EXCEPT !.lines = rows, !.end = end,
                                     !.eof = AtEnd(seen[r].off, k, Lines)]]
             /\ IF seen[r].own
                THEN UNCHANGED <<staged, onDisk>>
                ELSE /\ Len(staged) + Len(rows) <= MaxStaged
                     /\ staged' = staged \o rows
                     /\ onDisk' = TRUE
    /\ Goto(r, "advance")
    /\ UNCHANGED <<row, raw, cut, stored, uncited, errors, reaping>>

\* The row moves on only from the offset the request started at.
NormalizeAdvance(r) ==
    /\ pc[r] = "advance"
    /\ IF status # "gone" /\ normOffset = seen[r].off
       THEN /\ status' = IF seen[r].eof THEN "mapped" ELSE "normalizing"
            /\ normOffset' = seen[r].end
            /\ named' = TRUE
            /\ IF seen[r].own
               THEN staged' = seen[r].lines /\ cut' = 0 /\ onDisk' = TRUE
               ELSE UNCHANGED <<staged, cut, onDisk>>
            /\ Goto(r, IF seen[r].eof THEN "unlink" ELSE "idle")
       ELSE /\ Goto(r, "idle")
            /\ UNCHANGED <<status, normOffset, named, staged, cut, onDisk>>
    /\ seen' = [seen EXCEPT ![r] = Unread]
    /\ UNCHANGED <<format, commitOffset, aged, raw, stored, uncited, errors, reaping>>

NormalizeUnlink(r) ==
    /\ pc[r] = "unlink"
    /\ raw' = FALSE
    /\ Done(r)
    /\ UNCHANGED <<row, staged, cut, onDisk, stored, uncited, errors, reaping>>

-----------------------------------------------------------------------------
(* The same for a file that is parsed in a single pass.                       *)

ParseWhole(r) ==
    /\ pc[r] = "idle" /\ format = "whole" /\ raw
    /\ status \in {"uploaded", "normalizing"}
    /\ Goto(r, "swap")
    /\ UNCHANGED <<row, files, stored, uncited, errors, reaping, seen>>

\* os.remove raises when another request has been faster: only one gets past it.
SwapWhole(r) ==
    /\ pc[r] = "swap" /\ raw
    /\ raw' = FALSE
    /\ Goto(r, "update")
    /\ UNCHANGED <<row, staged, cut, onDisk, stored, uncited, errors, reaping, seen>>

UpdateWhole(r) ==
    /\ pc[r] = "update"
    /\ IF status # "gone"
       THEN /\ status' = "mapped" /\ named' = TRUE
            /\ staged' = FromTo(0, Lines) /\ onDisk' = TRUE
       ELSE UNCHANGED <<status, named, staged, onDisk>>
    /\ Done(r)
    /\ UNCHANGED <<format, normOffset, commitOffset, aged, raw, cut, stored, uncited, errors,
                   reaping>>

-----------------------------------------------------------------------------
(* POST .../commit.                                                           *)

\* The code asks for a staging file only; the wizard has waited for 'mapped'.
Normalizing(q) == pc[q] \in {"stage", "advance", "unlink", "swap", "update"}

CommitRead(r) ==
    /\ pc[r] = "idle" /\ named
    /\ status \notin {"complete", "gone"}
    /\ Orderly => status # "normalizing" /\ \A q \in Request : ~Normalizing(q)
    /\ seen' = [seen EXCEPT ![r] = [Unread EXCEPT !.off = commitOffset]]
    /\ Goto(r, "fetch")
    /\ UNCHANGED <<row, files, stored, uncited, errors, reaping>>

Staging == SubSeq(staged, cut + 1, Len(staged))

CommitFetch(r) ==
    /\ pc[r] = "fetch" /\ onDisk
    /\ \E k \in 1 .. MaxChunk :
         LET off == seen[r].off
             end == IF Len(Staging) < off THEN off ELSE Least(off + k, Len(Staging))
         IN  seen' = [seen EXCEPT ![r] =
                        [@ EXCEPT !.lines = SubSeq(Staging, off + 1, end),
                                  !.end = end, !.eof = AtEnd(off, k, Len(Staging))]]
    /\ Goto(r, "insert")
    /\ UNCHANGED <<row, files, stored, uncited, errors, reaping>>

\* Broken variant: the UPDATE names only the id.
Current_ById(r) == status # "gone"
Current(r) == status # "gone" /\ commitOffset = seen[r].off

\* Of the lines of a chunk that cannot be mapped, the first keep an error: as many as the
\* table has room for.
Kept(failing, room) ==
    {k \in SUBSET failing :
        /\ Cardinality(k) = Least(room, Cardinality(failing))
        /\ \A i \in k, j \in failing \ k : i < j}

Take(lines) ==
    \E failing \in SUBSET DOMAIN lines :
        \E cited \in Kept(failing, MaxErrors - errors) :
            /\ stored' = stored \o lines
            /\ errors' = errors + Cardinality(cited)
            /\ uncited' = uncited \cup {Len(stored) + i : i \in failing \ cited}

\* One transaction: the rows and the errors, the offset if it is still the same, and before the
\* commit of the last chunk the removal of the staging file.
CommitInsert(r) ==
    /\ pc[r] = "insert"
    /\ IF Current(r)
       THEN /\ Take(seen[r].lines)
            /\ commitOffset' = seen[r].end
            /\ status' = IF seen[r].eof THEN "complete" ELSE "importing"
            /\ IF seen[r].eof THEN onDisk' = FALSE /\ cut' = Len(staged)
                              ELSE UNCHANGED <<onDisk, cut>>
       ELSE UNCHANGED <<stored, uncited, errors, commitOffset, status, onDisk, cut>>
    /\ Done(r)
    /\ UNCHANGED <<format, named, normOffset, aged, raw, staged, reaping>>

\* It dies between the two: rolled back, but the staging file is gone.
CommitTorn(r) ==
    /\ pc[r] = "insert" /\ Current(r) /\ seen[r].eof
    /\ onDisk' = FALSE /\ cut' = Len(staged)
    /\ Done(r)
    /\ UNCHANGED <<row, raw, staged, stored, uncited, errors, reaping>>

-----------------------------------------------------------------------------
(* DELETE, and the reaper of abandoned imports.                               *)

\* Broken variant: the rows of a deleted import stay.
Discarded_Kept == stored
Discarded == <<>>

RemoveFiles == raw' = FALSE /\ onDisk' = FALSE /\ cut' = Len(staged)

\* Rows, errors and the import go in one transaction.  A request to delete removes the
\* files after it, the reaper before.
Discard ==
    /\ status' = "gone"
    /\ stored' = Discarded /\ uncited' = {} /\ errors' = 0
    /\ RemoveFiles
    /\ UNCHANGED <<format, named, normOffset, commitOffset, aged, staged>>

Delete ==
    /\ status # "gone"
    /\ Discard
    /\ UNCHANGED <<reaping, pc, seen>>

Age ==
    /\ ~aged
    /\ aged' = TRUE
    /\ UNCHANGED <<format, status, named, normOffset, commitOffset, files, stored,
                   uncited, errors, reaping, pc, seen>>

\* Broken variant: only imports nobody has started to commit are abandoned.
Abandoned_Unstarted == aged /\ status \in {"uploaded", "normalizing", "mapped"}
Abandoned == aged /\ status \notin {"complete", "gone"}

\* The sweep lists what is abandoned, and then deletes what it has listed.
ReapRead ==
    /\ ~reaping /\ Abandoned
    /\ reaping' = TRUE
    /\ UNCHANGED <<row, files, stored, uncited, errors, pc, seen>>

ReapDelete ==
    /\ reaping
    /\ reaping' = FALSE
    /\ Discard
    /\ UNCHANGED <<pc, seen>>

\* A sweep that dies is rolled back, but what it has removed is gone, the raw file first:
\* the import stays without it until the next sweep.
ReapDies ==
    /\ reaping
    /\ reaping' = FALSE
    /\ \/ RemoveFiles
       \/ raw' \in {raw, FALSE} /\ UNCHANGED <<onDisk, cut>>
    /\ UNCHANGED <<row, staged, stored, uncited, errors, pc, seen>>

-----------------------------------------------------------------------------
Normalize(r) ==
    \/ NormalizeRead(r) \/ NormalizeStage(r) \/ NormalizeAdvance(r) \/ NormalizeUnlink(r)
    \/ ParseWhole(r) \/ SwapWhole(r) \/ UpdateWhole(r)

Commit(r) == CommitRead(r) \/ CommitFetch(r) \/ CommitInsert(r) \/ CommitTorn(r)
Reap == ReapRead \/ ReapDelete \/ ReapDies

ImportNext ==
    \/ \E r \in Request : Normalize(r) \/ Commit(r) \/ Dies(r)
    \/ Delete \/ Age \/ Reap

ImportSpec == ImportInit /\ [][ImportNext]_importVars

\* Time passes; a sweep comes every thirty seconds, and not every one dies.
ImportFairSpec ==
    ImportSpec /\ WF_importVars(Age) /\ WF_importVars(ReapRead) /\ SF_importVars(ReapDelete)

-----------------------------------------------------------------------------
(* Properties.                                                               *)

\* What is shown as complete is complete: every line of the upload has its row, or
\* its error, or is counted among the failed ones of an import whose errors are as many
\* as it keeps, whichever requests raced or died on the way.
Recorded == {stored[i] : i \in DOMAIN stored \ uncited}
CompleteMeansAll ==
    status = "complete" =>
        /\ Line \subseteq Range(stored)
        /\ Line \subseteq Recorded \/ errors = MaxErrors

\* A row is stored once for every time its line was staged: racing commits of one
\* chunk never both keep theirs.
Count(s, l) == Cardinality({i \in DOMAIN s : s[i] = l})
StoredAsStaged == \A l \in Line : Count(stored, l) <= Count(staged, l)

\* What an import leaves is what was uploaded: all of it once it is shown
\* as complete, but for errors over the cap, and never a line more often than it was staged.
StoredWhole == CompleteMeansAll /\ StoredAsStaged

\* An import implements a transfer.
T == INSTANCE Transfer WITH there <- Recorded, gone <- (status = "gone")
TransferSpec == T!Spec

\* No import stays half done for ever: it completes, or the reaper takes it.
EventuallySettled == (status # "complete") ~> (status \in {"complete", "gone"})

\* "Two tabs racing the same import would otherwise ... double-process the same
\* byte range": no line is staged twice.
StagedOnce == \A l \in Line : Count(staged, l) <= 1

\* "This import has not finished the normalize step yet": nothing is committed
\* before the whole upload is staged.
CommitAfterNormalize == status = "importing" => normOffset = Lines \/ format = "whole"
=============================================================================
