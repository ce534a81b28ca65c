------------------------------- MODULE CaseFile -------------------------------
(* A case and what is attached to it: the row that analysts save over each     *)
(* other, and its hosts, tasks, indicators and links with their timeline.      *)

CONSTANTS
    Analyst, MaxCases, MaxHour, MaxReopen, Sla, StaleAfter,
    PartCall, Thing, Kinds

VARIABLES
    cases, last, opened, children, hour, deskPc, readRow, breaching, silent, since,
    announced, nudged, everClosed, clashed,
    detail, caseOpen, details, detailEvents, confirmedFired, detailCall

Desk == INSTANCE Cases WITH MaxNow <- MaxHour, now <- hour, apc <- deskPc
Detailing == INSTANCE CaseParts WITH
    Call <- PartCall, kind <- detail, open <- caseOpen, table <- details,
    timeline <- detailEvents, fired <- confirmedFired, call <- detailCall

CaseFileBounds == Desk!CaseBounds /\ Detailing!PartsBounds
CaseFileTypeOK == Desk!TypeOK /\ Detailing!TypeOK
CaseFileSpec == Desk!Spec /\ Detailing!Spec

\* A case tells its story: one that was closed has a closing time, unless a save was written
\* over a close or a reopen that it had not read; and every coming and going of what is
\* attached to it, and every confirmed host, is in its timeline.
CaseTold == Desk!CloseRemembered /\ Detailing!PartsTold
===============================================================================
