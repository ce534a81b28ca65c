---------------------------- MODULE CaseEvidence ----------------------------
(* The files attached to a case: a row in the database, a file on the disk and *)
(* the case's timeline are changed by requests that overlap and that may stop  *)
(* between two steps.  A request that changes something reads first, outside   *)
(* of any transaction, whether the case is open; its writes are one.           *)
EXTENDS Naturals, FiniteSets

CONSTANTS
    Call,       \* bound: the requests; each is made at most once
    Exhibit,    \* bound: the attachments, by their random names
    MaxMishap   \* bound: files altered, unlinks refused, requests that stop

EvidenceBounds == IsFiniteSet(Call) /\ IsFiniteSet(Exhibit) /\ MaxMishap \in Nat

VARIABLES
    caseState,    \* "open", "closed" or "gone"
    attachments,  \* case_attachments
    disk,         \* CASE_ATTACHMENTS_DIR: file -> "none", "saved" or "altered"
    timeline,     \* case_events about attachments: <<event, call, file>>
    audit,        \* the deletions in the audit log: call -> files left on disk
    call,         \* where each request is
    sent,         \* history: <<call, file>> of the downloads that were answered
    mishaps

evidenceVars == <<caseState, attachments, disk, timeline, audit, call, sent, mishaps>>

Op == {"none", "upload", "download", "remove", "destroy"}
At == {"start", "save", "record", "hash", "log", "send", "unlink", "erase",
       "audit", "done", "stopped"}
Event == {"added", "removed", "downloaded", "mismatch"}

EvidenceTypeOK ==
    /\ caseState \in {"open", "closed", "gone"}
    /\ attachments \subseteq Exhibit /\ disk \in [Exhibit -> {"none", "saved", "altered"}]
    /\ timeline \subseteq Event \X Call \X Exhibit
    /\ audit \subseteq Call \X SUBSET Exhibit
    /\ call \in [Call -> [op : Op, at : At, on : SUBSET Exhibit, todo : SUBSET Exhibit,
                          left : SUBSET Exhibit, altered : BOOLEAN, differs : BOOLEAN]]
    /\ sent \subseteq Call \X Exhibit /\ mishaps \in 0 .. MaxMishap

Idle == [op |-> "none", at |-> "start", on |-> {}, todo |-> {}, left |-> {},
         altered |-> FALSE, differs |-> FALSE]
EvidenceInit ==
    /\ caseState = "open" /\ attachments = {} /\ disk = [f \in Exhibit |-> "none"]
    /\ timeline = {} /\ audit = {} /\ call = [c \in Call |-> Idle]
    /\ sent = {} /\ mishaps = 0

Begins(c, op, at, files) ==
    /\ call[c] = Idle
    /\ call' = [call EXCEPT ![c] =
                  [Idle EXCEPT !.op = op, !.at = at, !.on = files, !.todo = files,
                               !.altered = \E f \in files : disk[f] = "altered"]]
Goes(c, at) == call' = [call EXCEPT ![c].at = at]
IsAt(c, op, at) == call[c].op = op /\ call[c].at = at
Of(c) == CHOOSE f \in call[c].on : TRUE

-----------------------------------------------------------------------------
(* POST attachments: the file is saved before its row is written.             *)

UploadFile(c, f) ==
    /\ caseState = "open"
    /\ \A d \in Call : f \notin call[d].on
    /\ Begins(c, "upload", "save", {f})
    /\ UNCHANGED <<caseState, attachments, disk, timeline, audit, sent, mishaps>>

SaveFile(c) ==
    /\ IsAt(c, "upload", "save")
    /\ disk' = [disk EXCEPT ![Of(c)] = "saved"]
    /\ Goes(c, "record")
    /\ UNCHANGED <<caseState, attachments, timeline, audit, sent, mishaps>>

Record(c) ==
    /\ IsAt(c, "upload", "record")
    /\ attachments' = attachments \cup {Of(c)}
    /\ timeline' = timeline \cup {<<"added", c, Of(c)>>}
    /\ Goes(c, "done")
    /\ UNCHANGED <<caseState, disk, audit, sent, mishaps>>

-----------------------------------------------------------------------------
(* GET download, of an open or a closed case: the file is hashed again.       *)

Download(c, f) ==
    /\ caseState # "gone" /\ f \in attachments /\ disk[f] # "none"
    /\ Begins(c, "download", "hash", {f})
    /\ UNCHANGED <<caseState, attachments, disk, timeline, audit, sent, mishaps>>

HashFile(c) ==
    /\ IsAt(c, "download", "hash")
    /\ call' = [call EXCEPT ![c] =
                  [@ EXCEPT !.at = IF disk[Of(c)] = "none" THEN "done" ELSE "log",
                            !.differs = disk[Of(c)] = "altered"]]
    /\ UNCHANGED <<caseState, attachments, disk, timeline, audit, sent, mishaps>>

\* Broken variant: only the first access is noted.
Accessed_First(c, f) ==
    IF \E d \in Call : <<"downloaded", d, f>> \in timeline
    THEN {} ELSE {<<"downloaded", c, f>>}
Accessed(c, f) == {<<"downloaded", c, f>>}
LogAccess(c) ==
    /\ IsAt(c, "download", "log")
    /\ timeline' = timeline \cup Accessed(c, Of(c))
            \cup IF call[c].differs THEN {<<"mismatch", c, Of(c)>>} ELSE {}
    /\ Goes(c, "send")
    /\ UNCHANGED <<caseState, attachments, disk, audit, sent, mishaps>>

SendFile(c) ==
    /\ IsAt(c, "download", "send")
    /\ sent' = IF disk[Of(c)] = "none" THEN sent ELSE sent \cup {<<c, Of(c)>>}
    /\ Goes(c, "done")
    /\ UNCHANGED <<caseState, attachments, disk, timeline, audit, mishaps>>

-----------------------------------------------------------------------------
(* DELETE of one attachment: the file goes first, and an unlink that fails is  *)
(* taken for a file that is gone.                                             *)

RemoveFile(c, f) ==
    /\ caseState = "open" /\ f \in attachments
    /\ Begins(c, "remove", "unlink", {f})
    /\ UNCHANGED <<caseState, attachments, disk, timeline, audit, sent, mishaps>>

UnlinkFile(c) ==
    /\ IsAt(c, "remove", "unlink")
    /\ \/ disk' = [disk EXCEPT ![Of(c)] = "none"] /\ UNCHANGED mishaps
       \/ mishaps < MaxMishap /\ mishaps' = mishaps + 1 /\ UNCHANGED disk
    /\ Goes(c, "erase")
    /\ UNCHANGED <<caseState, attachments, timeline, audit, sent>>

Erase(c) ==
    /\ IsAt(c, "remove", "erase")
    /\ attachments' = attachments \ call[c].on
    /\ timeline' = timeline \cup {<<"removed", c, Of(c)>>}
    /\ Goes(c, "done")
    /\ UNCHANGED <<caseState, disk, audit, sent, mishaps>>

-----------------------------------------------------------------------------
(* DELETE of the case: the files of the rows it read, then every row that the  *)
(* case has by then, then the entry in the audit log.                         *)

Destroy(c) ==
    /\ caseState # "gone"
    /\ Begins(c, "destroy", "unlink", attachments)
    /\ UNCHANGED <<caseState, attachments, disk, timeline, audit, sent, mishaps>>

\* One file after the other; one that is refused is reported, and the rest goes on.
UnlinkNext(c, f) ==
    /\ IsAt(c, "destroy", "unlink") /\ f \in call[c].todo
    /\ \/ /\ disk' = [disk EXCEPT ![f] = "none"]
          /\ call' = [call EXCEPT ![c].todo = @ \ {f}]
          /\ UNCHANGED mishaps
       \/ /\ disk[f] # "none" /\ mishaps < MaxMishap /\ mishaps' = mishaps + 1
          /\ call' = [call EXCEPT ![c].todo = @ \ {f}, ![c].left = @ \cup {f}]
          /\ UNCHANGED disk
    /\ UNCHANGED <<caseState, attachments, timeline, audit, sent>>

EraseAll(c) ==
    /\ IsAt(c, "destroy", "unlink") /\ call[c].todo = {}
    /\ attachments' = {} /\ timeline' = {} /\ caseState' = "gone"
    /\ Goes(c, "audit")
    /\ UNCHANGED <<disk, audit, sent, mishaps>>

Audit(c) ==
    /\ IsAt(c, "destroy", "audit")
    /\ audit' = audit \cup {<<c, call[c].left>>}
    /\ Goes(c, "done")
    /\ UNCHANGED <<caseState, attachments, disk, timeline, sent, mishaps>>

-----------------------------------------------------------------------------
(* The rest: the case is closed and reopened, a file is altered on the disk, a *)
(* request ends in an error or with its process.                              *)

CloseOrReopen ==
    /\ caseState # "gone" /\ caseState' = IF caseState = "open" THEN "closed" ELSE "open"
    /\ UNCHANGED <<attachments, disk, timeline, audit, call, sent, mishaps>>

Alter(f) ==
    /\ mishaps < MaxMishap /\ mishaps' = mishaps + 1
    /\ disk[f] = "saved" /\ disk' = [disk EXCEPT ![f] = "altered"]
    /\ UNCHANGED <<caseState, attachments, timeline, audit, call, sent>>

Stops(c) ==
    /\ mishaps < MaxMishap /\ mishaps' = mishaps + 1
    /\ call[c].at \notin {"start", "done", "stopped"} /\ Goes(c, "stopped")
    /\ UNCHANGED <<caseState, attachments, disk, timeline, audit, sent>>

EvidenceNext ==
    \/ \E c \in Call, f \in Exhibit :
          UploadFile(c, f) \/ Download(c, f) \/ RemoveFile(c, f) \/ UnlinkNext(c, f)
    \/ \E c \in Call :
          \/ SaveFile(c) \/ Record(c) \/ HashFile(c) \/ LogAccess(c) \/ SendFile(c)
          \/ UnlinkFile(c) \/ Erase(c) \/ Stops(c)
          \/ Destroy(c) \/ EraseAll(c) \/ Audit(c)
    \/ CloseOrReopen
    \/ \E f \in Exhibit : Alter(f)

EvidenceSpec == EvidenceInit /\ [][EvidenceNext]_evidenceVars

-----------------------------------------------------------------------------
(* Properties.                                                                *)

\* A request of the kind op about the file f that has reached one of the steps.
Reached(op, f, steps) ==
    \E c \in Call : call[c].op = op /\ f \in call[c].on /\ call[c].at \in steps

\* Every access is on the timeline as long as the case exists, and so is the
\* mismatch of a file that had been altered when the download began: "a real
\* custody log is an access trail, not a one-time note".
Accessible ==
    caseState # "gone" =>
        \A access \in sent :
            LET c == access[1] f == access[2] IN
            /\ <<"downloaded", c, f>> \in timeline
            /\ call[c].altered => <<"mismatch", c, f>> \in timeline

\* A row whose file is gone is left by a request that removes it, and a row that
\* was written and is gone has been told of.
Present ==
    caseState # "gone" =>
        /\ \A f \in attachments : disk[f] = "none" =>
              \/ Reached("remove", f, {"erase", "done", "stopped"})
              \/ Reached("destroy", f, {"unlink", "stopped"})
        /\ \A c \in Call, f \in Exhibit :
              <<"added", c, f>> \in timeline /\ f \notin attachments =>
                  \E d \in Call : <<"removed", d, f>> \in timeline

\* A file that no row names belongs to an upload that has not written its row or
\* never will, was said to be removed, or lies in the way of a case's deletion.
Accounted ==
    \A f \in Exhibit : disk[f] # "none" /\ f \notin attachments =>
        \/ Reached("upload", f, {"record", "stopped"})
        \/ Reached("remove", f, {"done"})
        \/ \E c \in Call : call[c].op = "destroy" /\ (caseState = "gone" \/ f \in call[c].left)

\* What the timeline, the table and the disk say of the evidence agrees, whatever
\* overlaps and wherever a request stops.
EvidenceHeld == Accessible /\ Present /\ Accounted

\* Not so: a case that is deleted while a file is attached leaves the file, or the
\* row of a case that does not exist, and the audit does not name it.
NothingLeftBehind ==
    caseState = "gone" /\ (\A c \in Call : call[c].at \in {"start", "done"}) =>
        \A f \in Exhibit : disk[f] # "none" => \E entry \in audit : f \in entry[2]
=============================================================================
