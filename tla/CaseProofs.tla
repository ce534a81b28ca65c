------------------------------- MODULE CaseProofs -------------------------------
(* The evidence of a case, for any files and any requests: the timeline, the   *)
(* table and the disk agree, whatever overlaps, fails or stops.  A file that is *)
(* being uploaded is known to nobody else (Alone), every file and every row     *)
(* comes from an upload (Rooted), and a download carries what it has seen to    *)
(* the timeline before it answers (Watched).  Then the parts of a case, and its  *)
(* closing times.                                                              *)
EXTENDS CaseEvidence, CaseFile, Integers, FiniteSetTheorems, TLAPS

Calls ==
    [Call -> [op : Op, at : At, on : SUBSET Exhibit, todo : SUBSET Exhibit,
              left : SUBSET Exhibit,
              altered : BOOLEAN, differs : BOOLEAN]]
Typed ==
    /\ caseState \in {"open", "closed", "gone"}
    /\ attachments \subseteq Exhibit /\ disk \in [Exhibit -> {"none", "saved", "altered"}]
    /\ call \in Calls
    /\ sent \subseteq Call \X Exhibit

\* What a request of each kind may be at, and on how many files.
Single(c) == \E f \in Exhibit : call[c].on = {f}
Shaped(c) ==
    /\ \/ call[c].op = "none" /\ call[c].at = "start" /\ call[c].on = {}
       \/ /\ call[c].op = "upload" /\ Single(c)
          /\ call[c].at \in {"save", "record", "done", "stopped"}
       \/ /\ call[c].op = "download" /\ Single(c)
          /\ call[c].at \in {"hash", "log", "send", "done", "stopped"}
       \/ /\ call[c].op = "remove" /\ Single(c)
          /\ call[c].at \in {"unlink", "erase", "done", "stopped"}
       \/ /\ call[c].op = "destroy"
          /\ call[c].at \in {"unlink", "audit", "done", "stopped"}
          /\ call[c].at \in {"audit", "done"} => caseState = "gone"
    /\ call[c].todo \subseteq call[c].on

\* Nobody else knows the name of a file that is being uploaded.
Alone(c) ==
    call[c].op = "upload" /\ call[c].at \in {"save", "record"} =>
        \A f \in call[c].on :
            /\ f \notin attachments /\ \A d \in Call \ {c} : f \notin call[d].on
            /\ disk[f] = "none" <=> call[c].at = "save"

\* A file, or its row, comes from an upload.
Rooted(f) ==
    disk[f] # "none" \/ f \in attachments =>
        \E c \in Call : call[c].op = "upload" /\ f \in call[c].on

\* What a download has seen so far of the file that it is to send.
Watched(c) ==
    \A f \in call[c].on : call[c].op = "download" =>
        /\ call[c].at = "hash" /\ call[c].altered => disk[f] # "saved"
        /\ call[c].at = "log" /\ call[c].altered => call[c].differs
        /\ call[c].at = "send" /\ caseState # "gone" =>
              /\ <<"downloaded", c, f>> \in timeline
              /\ call[c].altered => <<"mismatch", c, f>> \in timeline

SentWhole == \A c \in Call, f \in Exhibit : <<c, f>> \in sent => call[c].at = "done"

\* The parts of what is to be shown, file by file.
Trail ==
    caseState # "gone" => \A c \in Call, f \in Exhibit : <<c, f>> \in sent =>
        /\ <<"downloaded", c, f>> \in timeline
        /\ call[c].altered => <<"mismatch", c, f>> \in timeline
Told ==
    caseState # "gone" => \A c \in Call, f \in Exhibit :
        <<"added", c, f>> \in timeline /\ f \notin attachments =>
            \E d \in Call : <<"removed", d, f>> \in timeline
Taken(f) == \/ Reached("remove", f, {"erase", "done", "stopped"})
            \/ Reached("destroy", f, {"unlink", "stopped"})
Missing == caseState # "gone" => \A f \in attachments : disk[f] = "none" => Taken(f)
Loose(f) ==
    \/ Reached("upload", f, {"record", "stopped"})
    \/ Reached("remove", f, {"done"})
    \/ \E c \in Call : call[c].op = "destroy" /\ (caseState = "gone" \/ f \in call[c].left)
Spare == \A f \in Exhibit : disk[f] # "none" /\ f \notin attachments => Loose(f)

Kept == /\ \A c \in Call : Shaped(c) /\ Alone(c) /\ Watched(c)
        /\ \A f \in Exhibit : Rooted(f)
        /\ SentWhole /\ Trail /\ Told /\ Missing /\ Spare

\* A request that takes a step stays the one that it was.
Same(c) == /\ call'[c].op = call[c].op /\ call'[c].on = call[c].on
           /\ call'[c].altered = call[c].altered /\ call'[c].left = call[c].left
           /\ call'[c].todo = call[c].todo
OnlyMoves(c) == \A d \in Call \ {c} : call'[d] = call[d]

\* A request goes on from what counts as a reason for a missing or a spare file only
\* to what counts as one.
Onward(c) ==
    /\ call'[c].op = call[c].op /\ call'[c].on = call[c].on
    /\ call[c].left \subseteq call'[c].left
    /\ call[c].op = "remove" /\ call[c].at \in {"erase", "done", "stopped"} =>
          call'[c].at \in {"erase", "done", "stopped"}
    /\ call[c].op = "remove" /\ call[c].at = "done" => call'[c].at = "done"
    /\ call[c].op = "destroy" /\ call[c].at \in {"unlink", "stopped"} =>
          call'[c].at \in {"unlink", "stopped"} \/ caseState' = "gone"
    /\ call[c].op = "upload" /\ call[c].at \in {"record", "stopped"} =>
          call'[c].at \in {"record", "stopped"} \/ call[c].on \subseteq attachments'

LEMMA StillTaken ==
  ASSUME NEW c \in Call, OnlyMoves(c), call[c].op = "none" \/ Onward(c), NEW f, Taken(f),
         caseState' # "gone"
  PROVE  Taken(f)'
BY DEF OnlyMoves, Onward, Taken, Reached

LEMMA StillLoose ==
  ASSUME NEW c \in Call, OnlyMoves(c), call[c].op = "none" \/ Onward(c), NEW f, Loose(f),
         f \notin attachments', caseState = "gone" => caseState' = "gone"
  PROVE  Loose(f)'
BY DEF OnlyMoves, Onward, Loose, Reached

LEMMA StillRooted ==
  ASSUME Kept, NEW c \in Call, OnlyMoves(c),
         call[c].op = "none" \/ (call'[c].op = call[c].op /\ call'[c].on = call[c].on),
         \A g \in Exhibit : disk'[g] # "none" \/ g \in attachments' =>
            \/ disk[g] # "none" \/ g \in attachments
            \/ call'[c].op = "upload" /\ g \in call'[c].on
  PROVE  \A g \in Exhibit : Rooted(g)'
BY DEF Kept, Rooted, OnlyMoves

LEMMA StillShaped ==
  ASSUME Kept, NEW c \in Call, OnlyMoves(c), Shaped(c)',
         caseState = "gone" => caseState' = "gone"
  PROVE  \A d \in Call : Shaped(d)'
BY DEF Kept, OnlyMoves, Shaped, Single

LEMMA Agrees ==
  ASSUME Typed, Kept
  PROVE  EvidenceHeld
<1>1. Accessible
  BY DEF Typed, Kept, Trail, Accessible
<1>2. Present
  BY DEF Typed, Kept, Told, Missing, Taken, Present
<1>3. Accounted
  BY DEF Kept, Spare, Loose, Accounted
<1> QED
  BY <1>1, <1>2, <1>3 DEF EvidenceHeld

LEMMA OfOne ==
  ASSUME NEW c \in Call, NEW f, call[c].on = {f}
  PROVE  Of(c) = f
BY DEF Of

LEMMA MovesOn ==
  ASSUME Typed, NEW c \in Call, NEW at \in At, Goes(c, at)
  PROVE  /\ OnlyMoves(c) /\ Same(c) /\ call'[c].at = at
         /\ call'[c].differs = call[c].differs
         /\ call' \in Calls
BY DEF Typed, Calls, Goes, OnlyMoves, Same

LEMMA Started ==
  ASSUME Typed, NEW c \in Call, NEW op \in Op, NEW at \in At, NEW S \in SUBSET Exhibit,
         Begins(c, op, at, S)
  PROVE  /\ OnlyMoves(c) /\ call[c] = Idle
         /\ call'[c].op = op /\ call'[c].at = at /\ call'[c].on = S /\ call'[c].todo = S
         /\ call'[c].altered <=> \E f \in S : disk[f] = "altered"
         /\ call' \in Calls
BY DEF Typed, Calls, Begins, OnlyMoves, Idle

-----------------------------------------------------------------------------
(* One request takes a step.                                                   *)

LEMMA UploadFileKeeps ==
  ASSUME Typed, Kept, NEW c \in Call, NEW f \in Exhibit, UploadFile(c, f)
  PROVE  (Typed /\ Kept)'
<1> USE DEF Kept
<1>1. /\ Begins(c, "upload", "save", {f})
      /\ "upload" \in Op /\ "save" \in At /\ {f} \in SUBSET Exhibit
  BY DEF UploadFile, Op, At, Typed
<1>2. /\ OnlyMoves(c) /\ call[c] = Idle
      /\ call'[c].op = "upload" /\ call'[c].at = "save" /\ call'[c].on = {f}
      /\ call'[c].todo = {f}
      /\ call'[c].altered <=> \E g \in {f} : disk[g] = "altered"
      /\ call' \in Calls
  BY <1>1, Started
<1>3. Typed'
  BY <1>2 DEF Typed, UploadFile, IsAt
<1>4. \A d \in Call : Shaped(d)'
  <2>1. Shaped(c)'
    BY <1>2, <1>3 DEF Typed, Calls, Shaped, Single, UploadFile, IsAt, Idle
  <2> QED
    BY <1>2, <2>1, StillShaped DEF UploadFile
<1>5. \A d \in Call : Alone(d)'
  <2>1. /\ f \notin attachments /\ disk[f] = "none" /\ \A d \in Call : f \notin call[d].on
        /\ UNCHANGED <<attachments, disk>>
    BY DEF UploadFile, Rooted, Typed
  <2>2. Alone(c)'
    BY <1>2, <2>1 DEF Alone, OnlyMoves
  <2>3. ASSUME NEW d \in Call \ {c} PROVE Alone(d)'
    BY <1>2, <2>1, <2>3 DEF Alone, OnlyMoves
  <2> QED
    BY <2>2, <2>3
<1>6. \A d \in Call : Watched(d)'
  BY <1>2, <1>3
     DEF Typed, Calls, Watched, Alone, Shaped, Single, UploadFile, IsAt, Idle, OnlyMoves
<1>7. \A g \in Exhibit : Rooted(g)'
  BY <1>2, StillRooted DEF Typed, UploadFile, IsAt, Idle
<1>8. SentWhole'
  BY <1>2, <1>3
     DEF Typed, Calls, SentWhole, Shaped, Single, UploadFile, IsAt, Idle, OnlyMoves
<1>9. Trail'
  BY <1>2, <1>3
     DEF Typed, Calls, Trail, SentWhole, Watched, Shaped, Single, UploadFile, IsAt, Idle,
         OnlyMoves
<1>10. Told'
  BY <1>2, <1>3
     DEF Typed, Calls, Told, Alone, UploadFile, IsAt, Idle, OnlyMoves
<1>11. call[c].op = "none" \/ Onward(c)
  BY <1>2 DEF Onward, UploadFile, IsAt, Idle, Shaped
<1>12. Missing'
  BY <1>2, <1>3, <1>11, StillTaken
     DEF Typed, Calls, Missing, Taken, Reached, OnlyMoves, UploadFile, IsAt, Idle
<1>13. Spare'
  BY <1>2, <1>3, <1>11, StillLoose
     DEF Typed, Calls, Spare, Loose, Reached, OnlyMoves, UploadFile, IsAt, Idle
<1> QED
  BY <1>3, <1>4, <1>5, <1>6, <1>7, <1>8, <1>9, <1>10, <1>12, <1>13

LEMMA DownloadKeeps ==
  ASSUME Typed, Kept, NEW c \in Call, NEW f \in Exhibit, Download(c, f)
  PROVE  (Typed /\ Kept)'
<1> USE DEF Kept
<1>1. /\ Begins(c, "download", "hash", {f})
      /\ "download" \in Op /\ "hash" \in At /\ {f} \in SUBSET Exhibit
  BY DEF Download, Op, At, Typed
<1>2. /\ OnlyMoves(c) /\ call[c] = Idle
      /\ call'[c].op = "download" /\ call'[c].at = "hash" /\ call'[c].on = {f}
      /\ call'[c].todo = {f}
      /\ call'[c].altered <=> \E g \in {f} : disk[g] = "altered"
      /\ call' \in Calls
  BY <1>1, Started
<1>3. Typed'
  BY <1>2 DEF Typed, Download, IsAt
<1>4. \A d \in Call : Shaped(d)'
  <2>1. Shaped(c)'
    BY <1>2, <1>3 DEF Typed, Calls, Shaped, Single, Download, IsAt, Idle
  <2> QED
    BY <1>2, <2>1, StillShaped DEF Download
<1>5. \A d \in Call : Alone(d)'
  <2>1. f \in attachments /\ UNCHANGED <<attachments, disk>>
    BY DEF Download
  <2>2. Alone(c)'
    BY <1>2 DEF Alone
  <2>3. ASSUME NEW d \in Call \ {c} PROVE Alone(d)'
    BY <1>2, <2>1, <2>3 DEF Alone, OnlyMoves
  <2> QED
    BY <2>2, <2>3
<1>6. \A d \in Call : Watched(d)'
  BY <1>2, <1>3
     DEF Typed, Calls, Watched, Alone, Shaped, Single, Download, IsAt, Idle, OnlyMoves
<1>7. \A g \in Exhibit : Rooted(g)'
  BY <1>2, StillRooted DEF Typed, Download, IsAt, Idle
<1>8. SentWhole'
  BY <1>2, <1>3
     DEF Typed, Calls, SentWhole, Shaped, Single, Download, IsAt, Idle, OnlyMoves
<1>9. Trail'
  BY <1>2, <1>3
     DEF Typed, Calls, Trail, SentWhole, Watched, Shaped, Single, Download, IsAt, Idle,
         OnlyMoves
<1>10. Told'
  BY <1>2, <1>3
     DEF Typed, Calls, Told, Alone, Download, IsAt, Idle, OnlyMoves
<1>11. call[c].op = "none" \/ Onward(c)
  BY <1>2 DEF Onward, Download, IsAt, Idle, Shaped
<1>12. Missing'
  BY <1>2, <1>3, <1>11, StillTaken
     DEF Typed, Calls, Missing, Taken, Reached, OnlyMoves, Download, IsAt, Idle
<1>13. Spare'
  BY <1>2, <1>3, <1>11, StillLoose
     DEF Typed, Calls, Spare, Loose, Reached, OnlyMoves, Download, IsAt, Idle
<1> QED
  BY <1>3, <1>4, <1>5, <1>6, <1>7, <1>8, <1>9, <1>10, <1>12, <1>13

LEMMA RemoveFileKeeps ==
  ASSUME Typed, Kept, NEW c \in Call, NEW f \in Exhibit, RemoveFile(c, f)
  PROVE  (Typed /\ Kept)'
<1> USE DEF Kept
<1>1. /\ Begins(c, "remove", "unlink", {f})
      /\ "remove" \in Op /\ "unlink" \in At /\ {f} \in SUBSET Exhibit
  BY DEF RemoveFile, Op, At, Typed
<1>2. /\ OnlyMoves(c) /\ call[c] = Idle
      /\ call'[c].op = "remove" /\ call'[c].at = "unlink" /\ call'[c].on = {f}
      /\ call'[c].todo = {f}
      /\ call'[c].altered <=> \E g \in {f} : disk[g] = "altered"
      /\ call' \in Calls
  BY <1>1, Started
<1>3. Typed'
  BY <1>2 DEF Typed, RemoveFile, IsAt
<1>4. \A d \in Call : Shaped(d)'
  <2>1. Shaped(c)'
    BY <1>2, <1>3 DEF Typed, Calls, Shaped, Single, RemoveFile, IsAt, Idle
  <2> QED
    BY <1>2, <2>1, StillShaped DEF RemoveFile
<1>5. \A d \in Call : Alone(d)'
  <2>1. f \in attachments /\ UNCHANGED <<attachments, disk>>
    BY DEF RemoveFile
  <2>2. Alone(c)'
    BY <1>2 DEF Alone
  <2>3. ASSUME NEW d \in Call \ {c} PROVE Alone(d)'
    BY <1>2, <2>1, <2>3 DEF Alone, OnlyMoves
  <2> QED
    BY <2>2, <2>3
<1>6. \A d \in Call : Watched(d)'
  BY <1>2, <1>3
     DEF Typed, Calls, Watched, Alone, Shaped, Single, RemoveFile, IsAt, Idle, OnlyMoves
<1>7. \A g \in Exhibit : Rooted(g)'
  BY <1>2, StillRooted DEF Typed, RemoveFile, IsAt, Idle
<1>8. SentWhole'
  BY <1>2, <1>3
     DEF Typed, Calls, SentWhole, Shaped, Single, RemoveFile, IsAt, Idle, OnlyMoves
<1>9. Trail'
  BY <1>2, <1>3
     DEF Typed, Calls, Trail, SentWhole, Watched, Shaped, Single, RemoveFile, IsAt, Idle,
         OnlyMoves
<1>10. Told'
  BY <1>2, <1>3
     DEF Typed, Calls, Told, Alone, RemoveFile, IsAt, Idle, OnlyMoves
<1>11. call[c].op = "none" \/ Onward(c)
  BY <1>2 DEF Onward, RemoveFile, IsAt, Idle, Shaped
<1>12. Missing'
  BY <1>2, <1>3, <1>11, StillTaken
     DEF Typed, Calls, Missing, Taken, Reached, OnlyMoves, RemoveFile, IsAt, Idle
<1>13. Spare'
  BY <1>2, <1>3, <1>11, StillLoose
     DEF Typed, Calls, Spare, Loose, Reached, OnlyMoves, RemoveFile, IsAt, Idle
<1> QED
  BY <1>3, <1>4, <1>5, <1>6, <1>7, <1>8, <1>9, <1>10, <1>12, <1>13

LEMMA DestroyKeeps ==
  ASSUME Typed, Kept, NEW c \in Call, Destroy(c)
  PROVE  (Typed /\ Kept)'
<1> USE DEF Kept
<1>1. /\ Begins(c, "destroy", "unlink", attachments)
      /\ "destroy" \in Op /\ "unlink" \in At /\ attachments \in SUBSET Exhibit
  BY DEF Destroy, Op, At, Typed
<1>2. /\ OnlyMoves(c) /\ call[c] = Idle
      /\ call'[c].op = "destroy" /\ call'[c].at = "unlink" /\ call'[c].on = attachments
      /\ call'[c].todo = attachments
      /\ call'[c].altered <=> \E g \in attachments : disk[g] = "altered"
      /\ call' \in Calls
  BY <1>1, Started
<1>3. Typed'
  BY <1>2 DEF Typed, Destroy, IsAt
<1>4. \A d \in Call : Shaped(d)'
  <2>1. Shaped(c)'
    BY <1>2, <1>3 DEF Typed, Calls, Shaped, Single, Destroy, IsAt, Idle
  <2> QED
    BY <1>2, <2>1, StillShaped DEF Destroy
<1>5. \A d \in Call : Alone(d)'
  BY <1>2, <1>3
     DEF Typed, Calls, Alone, Shaped, Single, Destroy, IsAt, Idle, OnlyMoves
<1>6. \A d \in Call : Watched(d)'
  BY <1>2, <1>3
     DEF Typed, Calls, Watched, Alone, Shaped, Single, Destroy, IsAt, Idle, OnlyMoves
<1>7. \A g \in Exhibit : Rooted(g)'
  BY <1>2, StillRooted DEF Typed, Destroy, IsAt, Idle
<1>8. SentWhole'
  BY <1>2, <1>3
     DEF Typed, Calls, SentWhole, Shaped, Single, Destroy, IsAt, Idle, OnlyMoves
<1>9. Trail'
  BY <1>2, <1>3
     DEF Typed, Calls, Trail, SentWhole, Watched, Shaped, Single, Destroy, IsAt, Idle,
         OnlyMoves
<1>10. Told'
  BY <1>2, <1>3
     DEF Typed, Calls, Told, Alone, Destroy, IsAt, Idle, OnlyMoves
<1>11. call[c].op = "none" \/ Onward(c)
  BY <1>2 DEF Onward, Destroy, IsAt, Idle, Shaped
<1>12. Missing'
  BY <1>2, <1>3, <1>11, StillTaken
     DEF Typed, Calls, Missing, Taken, Reached, OnlyMoves, Destroy, IsAt, Idle
<1>13. Spare'
  BY <1>2, <1>3, <1>11, StillLoose
     DEF Typed, Calls, Spare, Loose, Reached, OnlyMoves, Destroy, IsAt, Idle
<1> QED
  BY <1>3, <1>4, <1>5, <1>6, <1>7, <1>8, <1>9, <1>10, <1>12, <1>13

LEMMA SaveFileKeeps ==
  ASSUME Typed, Kept, NEW c \in Call, SaveFile(c)
  PROVE  (Typed /\ Kept)'
<1> USE DEF Kept
<1>1. Goes(c, "record") /\ "record" \in At
  BY DEF SaveFile, At
<1>2. /\ OnlyMoves(c) /\ Same(c) /\ call'[c].at = "record"
      /\ call'[c].differs = call[c].differs
      /\ call' \in Calls
  BY <1>1, MovesOn
<1>3. PICK f \in Exhibit : call[c].on = {f}
  BY DEF SaveFile, IsAt, Shaped, Single
<1>4. Of(c) = f /\ call[c].op = "upload"
  BY <1>3, OfOne DEF SaveFile, IsAt
<1>5. Typed'
  BY <1>2, <1>3, <1>4 DEF Typed, SaveFile, IsAt
<1>6. \A d \in Call : Shaped(d)'
  <2>1. Shaped(c)'
    BY <1>2, <1>3, <1>4, <1>5 DEF Typed, Calls, Shaped, Single, SaveFile, IsAt, Idle, Same
  <2> QED
    BY <1>2, <2>1, StillShaped DEF SaveFile
<1>7. \A d \in Call : Alone(d)'
  BY <1>2, <1>3, <1>4, <1>5
     DEF Typed, Calls, Alone, Shaped, Single, SaveFile, IsAt, Idle, OnlyMoves, Same
<1>8. \A d \in Call : Watched(d)'
  <2>1. call'[c].op # "download" /\ UNCHANGED <<caseState, timeline>>
    BY <1>2, <1>4 DEF SaveFile, Same
  <2>2. ASSUME NEW d \in Call \ {c} PROVE Watched(d)'
    <3>1. f \notin call[d].on /\ call'[d] = call[d]
      BY <1>2, <1>3, <1>4, <2>2 DEF SaveFile, IsAt, Alone, OnlyMoves
    <3>2. \A g \in call[d].on : disk'[g] = disk[g]
      BY <1>4, <3>1 DEF SaveFile, Typed, Calls
    <3> QED
      BY <2>1, <3>1, <3>2 DEF Watched
  <2> QED
    BY <2>1, <2>2 DEF Watched
<1>9. \A g \in Exhibit : Rooted(g)'
  BY <1>2, <1>3, <1>4, StillRooted DEF Typed, Same, SaveFile, IsAt, Idle
<1>10. SentWhole'
  BY <1>2, <1>3, <1>4, <1>5
     DEF Typed, Calls, SentWhole, Shaped, Single, SaveFile, IsAt, Idle, OnlyMoves, Same
<1>11. Trail'
  BY <1>2, <1>3, <1>4, <1>5
     DEF Typed, Calls, Trail, SentWhole, Watched, Shaped, Single, SaveFile, IsAt, Idle,
         OnlyMoves, Same
<1>12. Told'
  BY <1>2, <1>3, <1>4, <1>5
     DEF Typed, Calls, Told, Alone, SaveFile, IsAt, Idle, OnlyMoves, Same
<1>13. call[c].op = "none" \/ Onward(c)
  BY <1>2, <1>3, <1>4 DEF Onward, Same, SaveFile, IsAt, Idle, Shaped
<1>14. Missing'
  BY <1>2, <1>3, <1>4, <1>5, <1>13, StillTaken
     DEF Typed, Calls, Missing, Taken, Reached, OnlyMoves, Same, SaveFile, IsAt, Idle
<1>15. Spare'
  BY <1>2, <1>3, <1>4, <1>5, <1>13, StillLoose
     DEF Typed, Calls, Spare, Loose, Reached, OnlyMoves, Same, SaveFile, IsAt, Idle
<1> QED
  BY <1>5, <1>6, <1>7, <1>8, <1>9, <1>10, <1>11, <1>12, <1>14, <1>15

LEMMA RecordKeeps ==
  ASSUME Typed, Kept, NEW c \in Call, Record(c)
  PROVE  (Typed /\ Kept)'
<1> USE DEF Kept
<1>1. Goes(c, "done") /\ "done" \in At
  BY DEF Record, At
<1>2. /\ OnlyMoves(c) /\ Same(c) /\ call'[c].at = "done"
      /\ call'[c].differs = call[c].differs
      /\ call' \in Calls
  BY <1>1, MovesOn
<1>3. PICK f \in Exhibit : call[c].on = {f}
  BY DEF Record, IsAt, Shaped, Single
<1>4. Of(c) = f /\ call[c].op = "upload"
  BY <1>3, OfOne DEF Record, IsAt
<1>5. Typed'
  BY <1>2, <1>3, <1>4 DEF Typed, Record, IsAt
<1>6. \A d \in Call : Shaped(d)'
  <2>1. Shaped(c)'
    BY <1>2, <1>3, <1>4, <1>5 DEF Typed, Calls, Shaped, Single, Record, IsAt, Idle, Same
  <2> QED
    BY <1>2, <2>1, StillShaped DEF Record
<1>7. \A d \in Call : Alone(d)'
  BY <1>2, <1>3, <1>4, <1>5
     DEF Typed, Calls, Alone, Shaped, Single, Record, IsAt, Idle, OnlyMoves, Same
<1>8. \A d \in Call : Watched(d)'
  BY <1>2, <1>3, <1>4, <1>5
     DEF Typed, Calls, Watched, Alone, Shaped, Single, Record, IsAt, Idle, OnlyMoves, Same
<1>9. \A g \in Exhibit : Rooted(g)'
  BY <1>2, <1>3, <1>4, StillRooted DEF Typed, Same, Record, IsAt, Idle
<1>10. SentWhole'
  BY <1>2, <1>3, <1>4, <1>5
     DEF Typed, Calls, SentWhole, Shaped, Single, Record, IsAt, Idle, OnlyMoves, Same
<1>11. Trail'
  BY <1>2, <1>3, <1>4, <1>5
     DEF Typed, Calls, Trail, SentWhole, Watched, Shaped, Single, Record, IsAt, Idle,
         OnlyMoves, Same
<1>12. Told'
  BY <1>2, <1>3, <1>4, <1>5
     DEF Typed, Calls, Told, Alone, Record, IsAt, Idle, OnlyMoves, Same
<1>13. call[c].op = "none" \/ Onward(c)
  BY <1>2, <1>3, <1>4 DEF Onward, Same, Record, IsAt, Idle, Shaped
<1>14. Missing'
  <2>1. disk[f] # "none"
    BY <1>3, <1>4 DEF Record, IsAt, Alone
  <2> QED
    BY <1>2, <1>4, <1>13, <2>1, StillTaken DEF Missing, Record
<1>15. Spare'
  BY <1>2, <1>3, <1>4, <1>5, <1>13, StillLoose
     DEF Typed, Calls, Spare, Loose, Reached, OnlyMoves, Same, Record, IsAt, Idle
<1> QED
  BY <1>5, <1>6, <1>7, <1>8, <1>9, <1>10, <1>11, <1>12, <1>14, <1>15

LEMMA HashFileKeeps ==
  ASSUME Typed, Kept, NEW c \in Call, HashFile(c)
  PROVE  (Typed /\ Kept)'
<1> USE DEF Kept
<1>1. call' = [call EXCEPT ![c] =
                  [call[c] EXCEPT !.at = IF disk[Of(c)] = "none" THEN "done" ELSE "log",
                                  !.differs = disk[Of(c)] = "altered"]]
  BY DEF HashFile
<1>2. /\ OnlyMoves(c) /\ Same(c) /\ call'[c].at \in {"done", "log"}
      /\ call'[c].at = "log" => disk[Of(c)] # "none"
      /\ call'[c].differs <=> disk[Of(c)] = "altered"
      /\ call' \in Calls
  <2> DEFINE at == IF disk[Of(c)] = "none" THEN "done" ELSE "log"
             b == disk[Of(c)] = "altered"
  <2>1. at \in At /\ at \in {"done", "log"} /\ (at = "log" => disk[Of(c)] # "none")
    BY DEF At
  <2>2. b \in BOOLEAN
    OBVIOUS
  <2>3. call' = [call EXCEPT ![c] = [call[c] EXCEPT !.at = at, !.differs = b]]
    BY <1>1
  <2> HIDE DEF at
  <2>4. b <=> disk[Of(c)] = "altered"
    OBVIOUS
  <2> HIDE DEF b
  <2>5. /\ call'[c] = [call[c] EXCEPT !.at = at, !.differs = b] /\ OnlyMoves(c)
        /\ call' \in Calls
    BY <2>1, <2>2, <2>3 DEF Typed, Calls, OnlyMoves
  <2>6. /\ call'[c].at = at /\ call'[c].differs = b /\ Same(c)
    BY <2>5 DEF Typed, Calls, Same
  <2> QED
    BY <2>1, <2>2, <2>4, <2>5, <2>6
<1>3. PICK f \in Exhibit : call[c].on = {f}
  BY DEF HashFile, IsAt, Shaped, Single
<1>4. Of(c) = f /\ call[c].op = "download"
  BY <1>3, OfOne DEF HashFile, IsAt
<1>5. Typed'
  BY <1>2, <1>3, <1>4 DEF Typed, HashFile, IsAt
<1>6. \A d \in Call : Shaped(d)'
  <2>1. Shaped(c)'
    BY <1>2, <1>3, <1>4, <1>5 DEF Typed, Calls, Shaped, Single, HashFile, IsAt, Idle, Same
  <2> QED
    BY <1>2, <2>1, StillShaped DEF HashFile
<1>7. \A d \in Call : Alone(d)'
  BY <1>2, <1>3, <1>4, <1>5
     DEF Typed, Calls, Alone, Shaped, Single, HashFile, IsAt, Idle, OnlyMoves, Same
<1>8. \A d \in Call : Watched(d)'
  BY <1>2, <1>3, <1>4, <1>5
     DEF Typed, Calls, Watched, Alone, Shaped, Single, HashFile, IsAt, Idle, OnlyMoves, Same
<1>9. \A g \in Exhibit : Rooted(g)'
  BY <1>2, <1>3, <1>4, StillRooted DEF Typed, Same, HashFile, IsAt, Idle
<1>10. SentWhole'
  BY <1>2, <1>3, <1>4, <1>5
     DEF Typed, Calls, SentWhole, Shaped, Single, HashFile, IsAt, Idle, OnlyMoves, Same
<1>11. Trail'
  BY <1>2, <1>3, <1>4, <1>5
     DEF Typed, Calls, Trail, SentWhole, Watched, Shaped, Single, HashFile, IsAt, Idle,
         OnlyMoves, Same
<1>12. Told'
  BY <1>2, <1>3, <1>4, <1>5
     DEF Typed, Calls, Told, Alone, HashFile, IsAt, Idle, OnlyMoves, Same
<1>13. call[c].op = "none" \/ Onward(c)
  BY <1>2, <1>3, <1>4 DEF Onward, Same, HashFile, IsAt, Idle, Shaped
<1>14. Missing'
  BY <1>2, <1>3, <1>4, <1>5, <1>13, StillTaken
     DEF Typed, Calls, Missing, Taken, Reached, OnlyMoves, Same, HashFile, IsAt, Idle
<1>15. Spare'
  BY <1>2, <1>3, <1>4, <1>5, <1>13, StillLoose
     DEF Typed, Calls, Spare, Loose, Reached, OnlyMoves, Same, HashFile, IsAt, Idle
<1> QED
  BY <1>5, <1>6, <1>7, <1>8, <1>9, <1>10, <1>11, <1>12, <1>14, <1>15

LEMMA LogAccessKeeps ==
  ASSUME Typed, Kept, NEW c \in Call, LogAccess(c)
  PROVE  (Typed /\ Kept)'
<1> USE DEF Kept
<1>1. Goes(c, "send") /\ "send" \in At
  BY DEF LogAccess, At
<1>2. /\ OnlyMoves(c) /\ Same(c) /\ call'[c].at = "send"
      /\ call'[c].differs = call[c].differs
      /\ call' \in Calls
  BY <1>1, MovesOn
<1>3. PICK f \in Exhibit : call[c].on = {f}
  BY DEF LogAccess, IsAt, Shaped, Single
<1>4. Of(c) = f /\ call[c].op = "download"
  BY <1>3, OfOne DEF LogAccess, IsAt
<1>5. Typed'
  BY <1>2, <1>3, <1>4 DEF Typed, LogAccess, IsAt
<1>6. \A d \in Call : Shaped(d)'
  <2>1. Shaped(c)'
    BY <1>2, <1>3, <1>4, <1>5 DEF Typed, Calls, Shaped, Single, LogAccess, IsAt, Idle, Same
  <2> QED
    BY <1>2, <2>1, StillShaped DEF LogAccess
<1>7. \A d \in Call : Alone(d)'
  BY <1>2, <1>3, <1>4, <1>5
     DEF Typed, Calls, Alone, Shaped, Single, LogAccess, IsAt, Idle, Accessed, OnlyMoves,
         Same
<1>8. \A d \in Call : Watched(d)'
  BY <1>2, <1>3, <1>4, <1>5
     DEF Typed, Calls, Watched, Alone, Shaped, Single, LogAccess, IsAt, Idle, Accessed,
         OnlyMoves, Same
<1>9. \A g \in Exhibit : Rooted(g)'
  BY <1>2, <1>3, <1>4, StillRooted DEF Typed, Same, LogAccess, IsAt, Idle
<1>10. SentWhole'
  BY <1>2, <1>3, <1>4, <1>5
     DEF Typed, Calls, SentWhole, Shaped, Single, LogAccess, IsAt, Idle, Accessed,
         OnlyMoves, Same
<1>11. Trail'
  BY <1>2, <1>3, <1>4, <1>5
     DEF Typed, Calls, Trail, SentWhole, Watched, Shaped, Single, LogAccess, IsAt, Idle,
         Accessed, OnlyMoves, Same
<1>12. Told'
  BY <1>2, <1>3, <1>4, <1>5
     DEF Typed, Calls, Told, Alone, LogAccess, IsAt, Idle, Accessed, OnlyMoves, Same
<1>13. call[c].op = "none" \/ Onward(c)
  BY <1>2, <1>3, <1>4 DEF Onward, Same, LogAccess, IsAt, Idle, Shaped
<1>14. Missing'
  BY <1>2, <1>3, <1>4, <1>5, <1>13, StillTaken
     DEF Typed, Calls, Missing, Taken, Reached, OnlyMoves, Same, LogAccess, IsAt, Idle
<1>15. Spare'
  BY <1>2, <1>3, <1>4, <1>5, <1>13, StillLoose
     DEF Typed, Calls, Spare, Loose, Reached, OnlyMoves, Same, LogAccess, IsAt, Idle
<1> QED
  BY <1>5, <1>6, <1>7, <1>8, <1>9, <1>10, <1>11, <1>12, <1>14, <1>15

LEMMA SendFileKeeps ==
  ASSUME Typed, Kept, NEW c \in Call, SendFile(c)
  PROVE  (Typed /\ Kept)'
<1> USE DEF Kept
<1>1. Goes(c, "done") /\ "done" \in At
  BY DEF SendFile, At
<1>2. /\ OnlyMoves(c) /\ Same(c) /\ call'[c].at = "done"
      /\ call'[c].differs = call[c].differs
      /\ call' \in Calls
  BY <1>1, MovesOn
<1>3. PICK f \in Exhibit : call[c].on = {f}
  BY DEF SendFile, IsAt, Shaped, Single
<1>4. Of(c) = f /\ call[c].op = "download"
  BY <1>3, OfOne DEF SendFile, IsAt
<1>5. Typed'
  BY <1>2, <1>3, <1>4 DEF Typed, SendFile, IsAt
<1>6. \A d \in Call : Shaped(d)'
  <2>1. Shaped(c)'
    BY <1>2, <1>3, <1>4, <1>5 DEF Typed, Calls, Shaped, Single, SendFile, IsAt, Idle, Same
  <2> QED
    BY <1>2, <2>1, StillShaped DEF SendFile
<1>7. \A d \in Call : Alone(d)'
  BY <1>2, <1>3, <1>4, <1>5
     DEF Typed, Calls, Alone, Shaped, Single, SendFile, IsAt, Idle, OnlyMoves, Same
<1>8. \A d \in Call : Watched(d)'
  BY <1>2, <1>3, <1>4, <1>5
     DEF Typed, Calls, Watched, Alone, Shaped, Single, SendFile, IsAt, Idle, OnlyMoves, Same
<1>9. \A g \in Exhibit : Rooted(g)'
  BY <1>2, <1>3, <1>4, StillRooted DEF Typed, Same, SendFile, IsAt, Idle
<1>10. SentWhole'
  BY <1>2, <1>3, <1>4, <1>5
     DEF Typed, Calls, SentWhole, Shaped, Single, SendFile, IsAt, Idle, OnlyMoves, Same
<1>11. Trail'
  BY <1>2, <1>3, <1>4, <1>5
     DEF Typed, Calls, Trail, SentWhole, Watched, Shaped, Single, SendFile, IsAt, Idle,
         OnlyMoves, Same
<1>12. Told'
  BY <1>2, <1>3, <1>4, <1>5
     DEF Typed, Calls, Told, Alone, SendFile, IsAt, Idle, OnlyMoves, Same
<1>13. call[c].op = "none" \/ Onward(c)
  BY <1>2, <1>3, <1>4 DEF Onward, Same, SendFile, IsAt, Idle, Shaped
<1>14. Missing'
  BY <1>2, <1>3, <1>4, <1>5, <1>13, StillTaken
     DEF Typed, Calls, Missing, Taken, Reached, OnlyMoves, Same, SendFile, IsAt, Idle
<1>15. Spare'
  BY <1>2, <1>3, <1>4, <1>5, <1>13, StillLoose
     DEF Typed, Calls, Spare, Loose, Reached, OnlyMoves, Same, SendFile, IsAt, Idle
<1> QED
  BY <1>5, <1>6, <1>7, <1>8, <1>9, <1>10, <1>11, <1>12, <1>14, <1>15

LEMMA UnlinkFileKeeps ==
  ASSUME Typed, Kept, NEW c \in Call, UnlinkFile(c)
  PROVE  (Typed /\ Kept)'
<1> USE DEF Kept
<1>1. Goes(c, "erase") /\ "erase" \in At
  BY DEF UnlinkFile, At
<1>2. /\ OnlyMoves(c) /\ Same(c) /\ call'[c].at = "erase"
      /\ call'[c].differs = call[c].differs
      /\ call' \in Calls
  BY <1>1, MovesOn
<1>3. PICK f \in Exhibit : call[c].on = {f}
  BY DEF UnlinkFile, IsAt, Shaped, Single
<1>4. Of(c) = f /\ call[c].op = "remove"
  BY <1>3, OfOne DEF UnlinkFile, IsAt
<1>5. Typed'
  BY <1>2, <1>3, <1>4 DEF Typed, UnlinkFile, IsAt
<1>6. \A d \in Call : Shaped(d)'
  <2>1. Shaped(c)'
    BY <1>2, <1>3, <1>4, <1>5 DEF Typed, Calls, Shaped, Single, UnlinkFile, IsAt, Idle, Same
  <2> QED
    BY <1>2, <2>1, StillShaped DEF UnlinkFile
<1>7. \A d \in Call : Alone(d)'
  BY <1>2, <1>3, <1>4, <1>5
     DEF Typed, Calls, Alone, Shaped, Single, UnlinkFile, IsAt, Idle, OnlyMoves, Same
<1>8. \A d \in Call : Watched(d)'
  BY <1>2, <1>3, <1>4, <1>5
     DEF Typed, Calls, Watched, Alone, Shaped, Single, UnlinkFile, IsAt, Idle, OnlyMoves,
         Same
<1>9. \A g \in Exhibit : Rooted(g)'
  BY <1>2, <1>3, <1>4, StillRooted DEF Typed, Same, UnlinkFile, IsAt, Idle
<1>10. SentWhole'
  BY <1>2, <1>3, <1>4, <1>5
     DEF Typed, Calls, SentWhole, Shaped, Single, UnlinkFile, IsAt, Idle, OnlyMoves, Same
<1>11. Trail'
  BY <1>2, <1>3, <1>4, <1>5
     DEF Typed, Calls, Trail, SentWhole, Watched, Shaped, Single, UnlinkFile, IsAt, Idle,
         OnlyMoves, Same
<1>12. Told'
  BY <1>2, <1>3, <1>4, <1>5
     DEF Typed, Calls, Told, Alone, UnlinkFile, IsAt, Idle, OnlyMoves, Same
<1>13. call[c].op = "none" \/ Onward(c)
  BY <1>2, <1>3, <1>4 DEF Onward, Same, UnlinkFile, IsAt, Idle, Shaped
<1>14. Missing'
  BY <1>2, <1>3, <1>4, <1>5, <1>13, StillTaken
     DEF Typed, Calls, Missing, Taken, Reached, OnlyMoves, Same, UnlinkFile, IsAt, Idle
<1>15. Spare'
  BY <1>2, <1>3, <1>4, <1>5, <1>13, StillLoose
     DEF Typed, Calls, Spare, Loose, Reached, OnlyMoves, Same, UnlinkFile, IsAt, Idle
<1> QED
  BY <1>5, <1>6, <1>7, <1>8, <1>9, <1>10, <1>11, <1>12, <1>14, <1>15

LEMMA EraseKeeps ==
  ASSUME Typed, Kept, NEW c \in Call, Erase(c)
  PROVE  (Typed /\ Kept)'
<1> USE DEF Kept
<1>1. Goes(c, "done") /\ "done" \in At
  BY DEF Erase, At
<1>2. /\ OnlyMoves(c) /\ Same(c) /\ call'[c].at = "done"
      /\ call'[c].differs = call[c].differs
      /\ call' \in Calls
  BY <1>1, MovesOn
<1>3. PICK f \in Exhibit : call[c].on = {f}
  BY DEF Erase, IsAt, Shaped, Single
<1>4. Of(c) = f /\ call[c].op = "remove"
  BY <1>3, OfOne DEF Erase, IsAt
<1>5. Typed'
  BY <1>2, <1>3, <1>4 DEF Typed, Erase, IsAt
<1>6. \A d \in Call : Shaped(d)'
  <2>1. Shaped(c)'
    BY <1>2, <1>3, <1>4, <1>5 DEF Typed, Calls, Shaped, Single, Erase, IsAt, Idle, Same
  <2> QED
    BY <1>2, <2>1, StillShaped DEF Erase
<1>7. \A d \in Call : Alone(d)'
  BY <1>2, <1>3, <1>4, <1>5
     DEF Typed, Calls, Alone, Shaped, Single, Erase, IsAt, Idle, OnlyMoves, Same
<1>8. \A d \in Call : Watched(d)'
  BY <1>2, <1>3, <1>4, <1>5
     DEF Typed, Calls, Watched, Alone, Shaped, Single, Erase, IsAt, Idle, OnlyMoves, Same
<1>9. \A g \in Exhibit : Rooted(g)'
  BY <1>2, <1>3, <1>4, StillRooted DEF Typed, Same, Erase, IsAt, Idle
<1>10. SentWhole'
  BY <1>2, <1>3, <1>4, <1>5
     DEF Typed, Calls, SentWhole, Shaped, Single, Erase, IsAt, Idle, OnlyMoves, Same
<1>11. Trail'
  BY <1>2, <1>3, <1>4, <1>5
     DEF Typed, Calls, Trail, SentWhole, Watched, Shaped, Single, Erase, IsAt, Idle,
         OnlyMoves, Same
<1>12. Told'
  BY <1>2, <1>3, <1>4, <1>5
     DEF Typed, Calls, Told, Alone, Erase, IsAt, Idle, OnlyMoves, Same
<1>13. call[c].op = "none" \/ Onward(c)
  BY <1>2, <1>3, <1>4 DEF Onward, Same, Erase, IsAt, Idle, Shaped
<1>14. Missing'
  BY <1>2, <1>3, <1>4, <1>5, <1>13, StillTaken
     DEF Typed, Calls, Missing, Taken, Reached, OnlyMoves, Same, Erase, IsAt, Idle
<1>15. Spare'
  BY <1>2, <1>3, <1>4, <1>5, <1>13, StillLoose
     DEF Typed, Calls, Spare, Loose, Reached, OnlyMoves, Same, Erase, IsAt, Idle
<1> QED
  BY <1>5, <1>6, <1>7, <1>8, <1>9, <1>10, <1>11, <1>12, <1>14, <1>15

LEMMA UnlinkNextKeeps ==
  ASSUME Typed, Kept, NEW c \in Call, NEW f \in Exhibit, UnlinkNext(c, f)
  PROVE  (Typed /\ Kept)'
<1> USE DEF Kept
<1>1. \/ call' = [call EXCEPT ![c].todo = @ \ {f}]
      \/ call' = [call EXCEPT ![c].todo = @ \ {f}, ![c].left = @ \cup {f}]
  BY DEF UnlinkNext
<1>2. /\ OnlyMoves(c) /\ call'[c].op = call[c].op /\ call'[c].on = call[c].on
      /\ call'[c].at = call[c].at /\ call'[c].altered = call[c].altered
      /\ call'[c].differs = call[c].differs
      /\ call'[c].todo \subseteq call[c].todo /\ call[c].left \subseteq call'[c].left
      /\ call' \in Calls
  BY <1>1 DEF Typed, Calls, OnlyMoves
<1>3. Typed'
  BY <1>2 DEF Typed, UnlinkNext, IsAt
<1>4. \A d \in Call : Shaped(d)'
  <2>1. Shaped(c)'
    BY <1>2, <1>3 DEF Typed, Calls, Shaped, Single, UnlinkNext, IsAt, Idle, Same
  <2> QED
    BY <1>2, <2>1, StillShaped DEF UnlinkNext
<1>5. \A d \in Call : Alone(d)'
  BY <1>2, <1>3
     DEF Typed, Calls, Alone, Shaped, Single, UnlinkNext, IsAt, Idle, OnlyMoves, Same
<1>6. \A d \in Call : Watched(d)'
  BY <1>2, <1>3
     DEF Typed, Calls, Watched, Alone, Shaped, Single, UnlinkNext, IsAt, Idle, OnlyMoves,
         Same
<1>7. \A g \in Exhibit : Rooted(g)'
  BY <1>2, StillRooted DEF Typed, Same, UnlinkNext, IsAt, Idle
<1>8. SentWhole'
  BY <1>2, <1>3
     DEF Typed, Calls, SentWhole, Shaped, Single, UnlinkNext, IsAt, Idle, OnlyMoves, Same
<1>9. Trail'
  BY <1>2, <1>3
     DEF Typed, Calls, Trail, SentWhole, Watched, Shaped, Single, UnlinkNext, IsAt, Idle,
         OnlyMoves, Same
<1>10. Told'
  BY <1>2, <1>3
     DEF Typed, Calls, Told, Alone, UnlinkNext, IsAt, Idle, OnlyMoves, Same
<1>11. call[c].op = "none" \/ Onward(c)
  BY <1>2 DEF Onward, Same, UnlinkNext, IsAt, Idle, Shaped
<1>12. Missing'
  <2>1. \A g \in Exhibit \ {f} : disk'[g] = disk[g]
    BY DEF UnlinkNext, Typed
  <2>2. Taken(f)'
    BY <1>2 DEF UnlinkNext, IsAt, Typed, Taken, Reached, Shaped
  <2> QED
    BY <1>2, <1>3, <1>11, <2>1, <2>2, StillTaken DEF Missing, UnlinkNext, Typed
<1>13. Spare'
  <2>1. \A g \in Exhibit : disk'[g] # "none" => disk[g] # "none"
    BY DEF UnlinkNext, Typed
  <2> QED
    BY <1>2, <1>11, <2>1, StillLoose DEF Spare, UnlinkNext
<1> QED
  BY <1>3, <1>4, <1>5, <1>6, <1>7, <1>8, <1>9, <1>10, <1>12, <1>13

LEMMA EraseAllKeeps ==
  ASSUME Typed, Kept, NEW c \in Call, EraseAll(c)
  PROVE  (Typed /\ Kept)'
<1> USE DEF Kept
<1>1. Goes(c, "audit") /\ "audit" \in At
  BY DEF EraseAll, At
<1>2. /\ OnlyMoves(c) /\ Same(c) /\ call'[c].at = "audit"
      /\ call'[c].differs = call[c].differs
      /\ call' \in Calls
  BY <1>1, MovesOn
<1>3. Typed'
  BY <1>2 DEF Typed, EraseAll, IsAt
<1>4. \A d \in Call : Shaped(d)'
  <2>1. Shaped(c)'
    BY <1>2, <1>3 DEF Typed, Calls, Shaped, Single, EraseAll, IsAt, Idle, Same
  <2> QED
    BY <1>2, <2>1, StillShaped DEF EraseAll
<1>5. \A d \in Call : Alone(d)'
  BY <1>2, <1>3
     DEF Typed, Calls, Alone, Shaped, Single, EraseAll, IsAt, Idle, OnlyMoves, Same
<1>6. \A d \in Call : Watched(d)'
  <2>1. caseState' = "gone" /\ call'[c].op = "destroy" /\ UNCHANGED disk
    BY <1>2 DEF EraseAll, IsAt, Same
  <2> QED
    BY <1>2, <2>1 DEF Watched, OnlyMoves
<1>7. \A g \in Exhibit : Rooted(g)'
  BY <1>2, StillRooted DEF Typed, Same, EraseAll, IsAt, Idle
<1>8. SentWhole'
  BY <1>2, <1>3
     DEF Typed, Calls, SentWhole, Shaped, Single, EraseAll, IsAt, Idle, OnlyMoves, Same
<1>9. Trail'
  BY <1>2, <1>3
     DEF Typed, Calls, Trail, SentWhole, Watched, Shaped, Single, EraseAll, IsAt, Idle,
         OnlyMoves, Same
<1>10. Told'
  BY <1>2, <1>3
     DEF Typed, Calls, Told, Alone, EraseAll, IsAt, Idle, OnlyMoves, Same
<1>11. call[c].op = "none" \/ Onward(c)
  BY <1>2 DEF Onward, Same, EraseAll, IsAt, Idle, Shaped
<1>12. Missing'
  BY <1>2, <1>3, <1>11, StillTaken
     DEF Typed, Calls, Missing, Taken, Reached, OnlyMoves, Same, EraseAll, IsAt, Idle
<1>13. Spare'
  BY <1>2, <1>3, <1>11, StillLoose
     DEF Typed, Calls, Spare, Loose, Reached, OnlyMoves, Same, EraseAll, IsAt, Idle
<1> QED
  BY <1>3, <1>4, <1>5, <1>6, <1>7, <1>8, <1>9, <1>10, <1>12, <1>13

LEMMA AuditKeeps ==
  ASSUME Typed, Kept, NEW c \in Call, Audit(c)
  PROVE  (Typed /\ Kept)'
<1> USE DEF Kept
<1>1. Goes(c, "done") /\ "done" \in At
  BY DEF Audit, At
<1>2. /\ OnlyMoves(c) /\ Same(c) /\ call'[c].at = "done"
      /\ call'[c].differs = call[c].differs
      /\ call' \in Calls
  BY <1>1, MovesOn
<1>3. Typed'
  BY <1>2 DEF Typed, Audit, IsAt
<1>4. \A d \in Call : Shaped(d)'
  <2>1. Shaped(c)'
    BY <1>2, <1>3 DEF Typed, Calls, Shaped, Single, Audit, IsAt, Idle, Same
  <2> QED
    BY <1>2, <2>1, StillShaped DEF Audit
<1>5. \A d \in Call : Alone(d)'
  BY <1>2, <1>3
     DEF Typed, Calls, Alone, Shaped, Single, Audit, IsAt, Idle, OnlyMoves, Same
<1>6. \A d \in Call : Watched(d)'
  BY <1>2, <1>3
     DEF Typed, Calls, Watched, Alone, Shaped, Single, Audit, IsAt, Idle, OnlyMoves, Same
<1>7. \A g \in Exhibit : Rooted(g)'
  BY <1>2, StillRooted DEF Typed, Same, Audit, IsAt, Idle
<1>8. SentWhole'
  BY <1>2, <1>3
     DEF Typed, Calls, SentWhole, Shaped, Single, Audit, IsAt, Idle, OnlyMoves, Same
<1>9. Trail'
  BY <1>2, <1>3
     DEF Typed, Calls, Trail, SentWhole, Watched, Shaped, Single, Audit, IsAt, Idle,
         OnlyMoves, Same
<1>10. Told'
  BY <1>2, <1>3
     DEF Typed, Calls, Told, Alone, Audit, IsAt, Idle, OnlyMoves, Same
<1>11. call[c].op = "none" \/ Onward(c)
  BY <1>2 DEF Onward, Same, Audit, IsAt, Idle, Shaped
<1>12. Missing'
  BY <1>2, <1>3, <1>11, StillTaken
     DEF Typed, Calls, Missing, Taken, Reached, OnlyMoves, Same, Audit, IsAt, Idle
<1>13. Spare'
  BY <1>2, <1>3, <1>11, StillLoose
     DEF Typed, Calls, Spare, Loose, Reached, OnlyMoves, Same, Audit, IsAt, Idle
<1> QED
  BY <1>3, <1>4, <1>5, <1>6, <1>7, <1>8, <1>9, <1>10, <1>12, <1>13

LEMMA StopsKeeps ==
  ASSUME Typed, Kept, NEW c \in Call, Stops(c)
  PROVE  (Typed /\ Kept)'
<1> USE DEF Kept
<1>1. Goes(c, "stopped") /\ "stopped" \in At
  BY DEF Stops, At
<1>2. /\ OnlyMoves(c) /\ Same(c) /\ call'[c].at = "stopped"
      /\ call'[c].differs = call[c].differs
      /\ call' \in Calls
  BY <1>1, MovesOn
<1>3. Typed'
  BY <1>2 DEF Typed, Stops, IsAt
<1>4. \A d \in Call : Shaped(d)'
  <2>1. Shaped(c)'
    BY <1>2, <1>3 DEF Typed, Calls, Shaped, Single, Stops, IsAt, Idle, Same
  <2> QED
    BY <1>2, <2>1, StillShaped DEF Stops
<1>5. \A d \in Call : Alone(d)'
  BY <1>2, <1>3
     DEF Typed, Calls, Alone, Shaped, Single, Stops, IsAt, Idle, OnlyMoves, Same
<1>6. \A d \in Call : Watched(d)'
  BY <1>2, <1>3
     DEF Typed, Calls, Watched, Alone, Shaped, Single, Stops, IsAt, Idle, OnlyMoves, Same
<1>7. \A g \in Exhibit : Rooted(g)'
  BY <1>2, StillRooted DEF Typed, Same, Stops, IsAt, Idle
<1>8. SentWhole'
  BY <1>2, <1>3
     DEF Typed, Calls, SentWhole, Shaped, Single, Stops, IsAt, Idle, OnlyMoves, Same
<1>9. Trail'
  BY <1>2, <1>3
     DEF Typed, Calls, Trail, SentWhole, Watched, Shaped, Single, Stops, IsAt, Idle,
         OnlyMoves, Same
<1>10. Told'
  BY <1>2, <1>3
     DEF Typed, Calls, Told, Alone, Stops, IsAt, Idle, OnlyMoves, Same
<1>11. call[c].op = "none" \/ Onward(c)
  BY <1>2 DEF Onward, Same, Stops, IsAt, Idle, Shaped
<1>12. Missing'
  BY <1>2, <1>3, <1>11, StillTaken
     DEF Typed, Calls, Missing, Taken, Reached, OnlyMoves, Same, Stops, IsAt, Idle
<1>13. Spare'
  BY <1>2, <1>3, <1>11, StillLoose
     DEF Typed, Calls, Spare, Loose, Reached, OnlyMoves, Same, Stops, IsAt, Idle
<1> QED
  BY <1>3, <1>4, <1>5, <1>6, <1>7, <1>8, <1>9, <1>10, <1>12, <1>13

-----------------------------------------------------------------------------
LEMMA EvidenceStep ==
  ASSUME Typed, Kept, [EvidenceNext]_evidenceVars
  PROVE  (Typed /\ Kept)'
<1>1. CASE UNCHANGED evidenceVars
  BY <1>1 DEF evidenceVars, Typed, Kept, Shaped, Single, Alone, Watched, Rooted, SentWhole,
              Trail, Told, Missing, Taken, Spare, Loose, Reached
<1>2. CASE CloseOrReopen
  <2>1. /\ caseState # "gone" /\ caseState' \in {"open", "closed"}
        /\ UNCHANGED <<attachments, disk, timeline, audit, call, sent>>
    BY <1>2 DEF CloseOrReopen
  <2>2. Typed' /\ \A c \in Call : (Shaped(c) /\ Alone(c) /\ Watched(c))'
    BY <2>1 DEF Typed, Kept, Shaped, Single, Alone, Watched
  <2>3. (SentWhole /\ Trail /\ Told)' /\ \A g \in Exhibit : Rooted(g)'
    BY <2>1 DEF Kept, Rooted, SentWhole, Trail, Told
  <2>4. (Missing /\ Spare)'
    BY <2>1 DEF Kept, Missing, Taken, Spare, Loose, Reached
  <2> QED
    BY <2>2, <2>3, <2>4 DEF Kept
<1>3. ASSUME NEW f \in Exhibit, Alter(f)
      PROVE  (Typed /\ Kept)'
  <2>1. /\ \A g \in Exhibit : (disk'[g] = "none" <=> disk[g] = "none")
                           /\ (disk'[g] = "saved" => disk[g] = "saved")
        /\ disk' \in [Exhibit -> {"none", "saved", "altered"}]
        /\ UNCHANGED <<caseState, attachments, timeline, audit, call, sent>>
    BY <1>3 DEF Alter, Typed
  <2>2. Typed'
    BY <2>1 DEF Typed
  <2>3. \A c \in Call : (Shaped(c) /\ Alone(c) /\ Watched(c))'
    <3>1. \A c \in Call : call[c].on \subseteq Exhibit
      BY DEF Typed, Calls
    <3> QED
      BY <2>1, <3>1 DEF Kept, Shaped, Single, Alone, Watched
  <2>4. (SentWhole /\ Trail /\ Told)' /\ \A g \in Exhibit : Rooted(g)'
    BY <2>1 DEF Kept, Rooted, SentWhole, Trail, Told
  <2>5. (Missing /\ Spare)'
    BY <2>1 DEF Kept, Missing, Taken, Spare, Loose, Reached, Typed
  <2> QED
    BY <2>2, <2>3, <2>4, <2>5 DEF Kept
<1> QED
  BY <1>1, <1>2, <1>3, UploadFileKeeps, DownloadKeeps, RemoveFileKeeps, DestroyKeeps,
     SaveFileKeeps, RecordKeeps, HashFileKeeps, LogAccessKeeps, SendFileKeeps,
     UnlinkFileKeeps, EraseKeeps, UnlinkNextKeeps, EraseAllKeeps, AuditKeeps,
     StopsKeeps DEF EvidenceNext

LEMMA EvidenceStarts ==
  ASSUME EvidenceInit
  PROVE  Typed /\ Kept
BY DEF EvidenceInit, Typed, Calls, Op, At, Kept, Shaped, Alone, Watched, Rooted, SentWhole,
       Trail, Told, Missing, Spare, Idle

\* The timeline, the table and the disk agree on the evidence of a case: no download
\* without its entry, no row without a file and no file without a row that nothing
\* explains.
THEOREM EvidenceAgrees == EvidenceSpec => []EvidenceHeld
<1>1. EvidenceInit => Typed /\ Kept
  BY EvidenceStarts
<1>2. Typed /\ Kept /\ [EvidenceNext]_evidenceVars => (Typed /\ Kept)'
  BY EvidenceStep
<1>3. Typed /\ Kept => EvidenceHeld
  BY Agrees
<1> QED
  BY <1>1, <1>2, <1>3, PTL DEF EvidenceSpec

-----------------------------------------------------------------------------
(* The parts of a case.  A row, and what a request has read of one, is what one *)
(* request added; what was confirmed has its stamp, entry and playbooks.      *)

Underway(c) == detailCall[c].at = "write"
ReadRow(c) == Detailing!Read(c)

\* The request b has added a row about x, or is about to.
Begot(b, x) ==
    /\ b \in PartCall /\ detailCall[b].op = "add"
    /\ \E q \in detailCall[b].read : detailCall[b].read = {q} /\ q.by = b /\ q.on = x

PartsShaped ==
    /\ detail \in Kinds /\ DOMAIN detailCall = PartCall /\ IsFiniteSet(details)
    /\ \A c \in PartCall : Underway(c) \/ detailCall[c].at = "done" =>
           \E q \in detailCall[c].read : detailCall[c].read = {q}

\* Every row, and every row that a request has read, is what a request added.
PartsBegotten ==
    /\ \A r, q \in details : r.by = q.by => r = q
    /\ \A r \in details : Begot(r.by, r.on) /\ ~Underway(r.by)
    /\ \A c \in PartCall : Underway(c) /\ detailCall[c].op # "add" =>
           Begot(ReadRow(c).by, ReadRow(c).on) /\ ~Underway(ReadRow(c).by)
    /\ \A c \in PartCall : Underway(c) /\ detailCall[c].op = "add" =>
           ReadRow(c).by = c /\ Begot(c, ReadRow(c).on)

\* A confirmed row has its stamp, its entry and its playbooks.
Counted(r) ==
    r.status = "confirmed" =>
        /\ r.stamp # {}
        /\ \E c \in confirmedFired : <<"confirmed", c, r.on>> \in detailEvents

\* So has a row that a request has read, and a stamp that was read is there still.
PartsCounted ==
    detail = "asset" =>
        /\ \A r \in details : Counted(r)
        /\ \A c \in PartCall : Underway(c) /\ detailCall[c].op = "change" =>
               /\ Counted(ReadRow(c))
               /\ \A r \in details : r.by = ReadRow(c).by /\ ReadRow(c).stamp # {} =>
                                         r.stamp # {}
        /\ \A c \in PartCall : Underway(c) /\ detailCall[c].op = "add" =>
               (ReadRow(c).status = "confirmed" => ReadRow(c).stamp # {})

PartsOnce ==
    detail \in {"asset", "indicator"} => \A r, q \in details : r.on = q.on => r = q

\* Who came is there, or went.
PartsCame ==
    /\ \A r \in details : <<"added", r.by, r.on>> \in detailEvents
    /\ \A event \in detailEvents : event[1] = "added" =>
          /\ Begot(event[2], event[3])
          /\ (\A r \in details : r.by # event[2]) =>
                \E c \in PartCall : <<"removed", c, event[3]>> \in detailEvents

PartsInv == PartsShaped /\ PartsBegotten /\ PartsCounted /\ PartsOnce /\ PartsCame

LEMMA PartsInitially == Detailing!PartsBounds /\ Detailing!Init => PartsInv
<1> SUFFICES ASSUME Detailing!Init  PROVE PartsInv
  OBVIOUS
<1>1. DOMAIN detailCall = PartCall /\ \A c \in PartCall : detailCall[c].at = "start"
  BY DEF Detailing!Init, Detailing!Idle
<1>2. PartsShaped  BY <1>1, FS_EmptySet DEF Detailing!Init, PartsShaped, Underway
<1>3. PartsBegotten /\ PartsCounted /\ PartsOnce /\ PartsCame
  BY <1>1 DEF Detailing!Init, PartsBegotten, PartsCounted, PartsOnce, PartsCame, Underway
<1> QED  BY <1>2, <1>3 DEF PartsInv

\* A request reads: a row it is to add, or one that is there.
LEMMA AsksKeep ==
    ASSUME PartsInv, NEW c \in PartCall, NEW op \in {"add", "change", "remove"}, NEW row,
           Detailing!Asks(c, op, row),
           op = "add" => row.by = c /\ (row.status = "confirmed" => row.stamp # {}),
           op # "add" => row \in details
    PROVE  PartsInv'
<1>1. /\ UNCHANGED <<detail, details, detailEvents, confirmedFired>>
      /\ detailCall[c] = Detailing!Idle
      /\ detailCall' = [detailCall EXCEPT ![c] = [op |-> op, at |-> "write", read |-> {row}]]
  BY DEF Detailing!Asks
<1>2. /\ detailCall'[c].op = op /\ detailCall'[c].at = "write" /\ detailCall'[c].read = {row}
      /\ detailCall[c].op = "none" /\ detailCall[c].at = "start"
      /\ \A b \in PartCall : b # c => detailCall'[b] = detailCall[b]
      /\ DOMAIN detailCall' = PartCall
  BY <1>1 DEF PartsInv, PartsShaped, Detailing!Idle
<1>3. /\ ReadRow(c)' = row
      /\ \A b \in PartCall : b # c => ReadRow(b)' = ReadRow(b) /\ Underway(b)' = Underway(b)
  BY <1>2 DEF ReadRow, Detailing!Read, Underway
<1>4. \A b, x : Begot(b, x) => Begot(b, x)' /\ b # c /\ (Underway(b)' = Underway(b))
  BY <1>2 DEF Begot, Underway
<1>5. PartsShaped'
  BY <1>1, <1>2 DEF PartsInv, PartsShaped, Underway
<1>6. PartsBegotten'
  <2>1. \A r \in details : Begot(r.by, r.on)' /\ ~Underway(r.by)'
    BY <1>4 DEF PartsInv, PartsBegotten
  <2>2. ASSUME op = "add"  PROVE ReadRow(c)'.by = c /\ Begot(c, ReadRow(c).on)'
    BY <1>2, <1>3, <2>2 DEF Begot
  <2>3. ASSUME op # "add"
        PROVE  Begot(ReadRow(c).by, ReadRow(c).on)' /\ ~Underway(ReadRow(c).by)'
    BY <1>3, <2>1, <2>3
  <2>4. ASSUME NEW b \in PartCall, b # c, Underway(b)'
        PROVE  /\ detailCall'[b].op # "add" =>
                      Begot(ReadRow(b).by, ReadRow(b).on)' /\ ~Underway(ReadRow(b).by)'
               /\ detailCall'[b].op = "add" => ReadRow(b)'.by = b /\ Begot(b, ReadRow(b).on)'
    BY <1>2, <1>3, <1>4, <2>4 DEF PartsInv, PartsBegotten
  <2>5. \A r, q \in details' : r.by = q.by => r = q
    BY <1>1 DEF PartsInv, PartsBegotten
  <2> QED  BY <1>1, <1>2, <2>1, <2>2, <2>3, <2>4, <2>5 DEF PartsBegotten
<1>7. PartsCounted'
  <2>1. \A r : Counted(r)' = Counted(r)  BY <1>1 DEF Counted
  <2>2. SUFFICES ASSUME detail = "asset"  PROVE PartsCounted'
    BY <1>1 DEF PartsCounted
  <2>3. \A r \in details' : Counted(r)'
    BY <1>1, <2>1, <2>2 DEF PartsInv, PartsCounted
  <2>4. ASSUME NEW b \in PartCall, Underway(b)', detailCall'[b].op = "change"
        PROVE  /\ Counted(ReadRow(b))'
               /\ \A r \in details' : r.by = ReadRow(b)'.by /\ ReadRow(b)'.stamp # {} =>
                                         r.stamp # {}
    <3>1. CASE b = c
      <4>1. row \in details /\ \A r \in details : r.by = row.by => r = row
        BY <1>2, <2>4, <3>1 DEF PartsInv, PartsBegotten
      <4>2. Counted(row)'  BY <1>1, <2>3, <4>1
      <4>3. Counted(ReadRow(c))'  BY <1>3, <4>2 DEF Counted
      <4> QED  BY <1>1, <1>3, <3>1, <4>1, <4>3
    <3>2. CASE b # c
      <4>1. Counted(ReadRow(b))  BY <1>2, <1>3, <2>2, <2>4, <3>2 DEF PartsInv, PartsCounted
      <4>2. Counted(ReadRow(b))'  BY <1>1, <1>3, <3>2, <4>1 DEF Counted
      <4> QED  BY <1>1, <1>2, <1>3, <2>2, <2>4, <3>2, <4>2 DEF PartsInv, PartsCounted
    <3> QED  BY <3>1, <3>2
  <2>5. \A b \in PartCall : Underway(b)' /\ detailCall'[b].op = "add" =>
            (ReadRow(b)'.status = "confirmed" => ReadRow(b)'.stamp # {})
    BY <1>1, <1>2, <1>3, <2>2 DEF PartsInv, PartsCounted
  <2> QED  BY <2>3, <2>4, <2>5 DEF PartsCounted
<1>8. PartsOnce'  BY <1>1 DEF PartsInv, PartsOnce
<1>9. PartsCame'  BY <1>1, <1>4 DEF PartsInv, PartsCame
<1> QED  BY <1>5, <1>6, <1>7, <1>8, <1>9 DEF PartsInv

\* A request ends: its row, and what it has added, are known as before.
LEMMA Ended ==
    ASSUME PartsInv, NEW c \in PartCall, Underway(c), Detailing!Ends(c)
    PROVE  /\ DOMAIN detailCall' = PartCall /\ ~Underway(c)'
           /\ detailCall[c].read = {ReadRow(c)} /\ detailCall'[c].read = {ReadRow(c)}
           /\ \A b \in PartCall : b # c =>
                 /\ detailCall'[b] = detailCall[b] /\ ReadRow(b)' = ReadRow(b)
                 /\ Underway(b)' = Underway(b)
           /\ \A b \in PartCall : Underway(b)' \/ detailCall'[b].at = "done" =>
                 \E q \in detailCall'[b].read : detailCall'[b].read = {q}
           /\ \A b, x : Begot(b, x)' <=> Begot(b, x)
           /\ \A b : b \in PartCall /\ ~Underway(b) => ~Underway(b)'
<1>1. /\ detailCall'[c] = [op |-> detailCall[c].op, at |-> "done", read |-> detailCall[c].read]
      /\ DOMAIN detailCall' = PartCall
      /\ \A b \in PartCall : b # c => detailCall'[b] = detailCall[b]
  BY DEF Detailing!Ends, PartsInv, PartsShaped
<1>2. PICK q : detailCall[c].read = {q}  BY DEF PartsInv, PartsShaped
<1>3. ReadRow(c) = q  BY <1>2 DEF ReadRow, Detailing!Read
<1>4. \A b, x : Begot(b, x)' <=> Begot(b, x)
  BY <1>1 DEF Begot
<1>5. ~Underway(c)' /\ \A b \in PartCall : b # c =>
          ReadRow(b)' = ReadRow(b) /\ Underway(b)' = Underway(b)
  BY <1>1 DEF Underway, ReadRow, Detailing!Read
<1>6. \A b \in PartCall : Underway(b)' \/ detailCall'[b].at = "done" =>
          \E r \in detailCall'[b].read : detailCall'[b].read = {r}
  BY <1>1, <1>2, <1>5 DEF PartsInv, PartsShaped
<1>7. \A b : b \in PartCall /\ ~Underway(b) => ~Underway(b)'
  BY <1>5
<1> QED  BY <1>1, <1>2, <1>3, <1>4, <1>5, <1>6, <1>7

LEMMA AddKeeps ==
    ASSUME PartsInv, NEW c \in PartCall, Detailing!Add(c)  PROVE PartsInv'
<1> SUFFICES ASSUME NEW row, row = ReadRow(c)  PROVE PartsInv'
  OBVIOUS
<1> DEFINE noted == IF row.status = "confirmed"
                    THEN Detailing!Noted(c, row.on, row.status) ELSE {}
<1>1. /\ Underway(c) /\ Detailing!Ends(c) /\ detailCall[c].op = "add" /\ detail' = detail
      /\ IF Detailing!Unique(row.on)
         THEN /\ details' = details \cup {row}
              /\ detailEvents' = detailEvents \cup {<<"added", c, row.on>>} \cup noted
              /\ confirmedFired' = confirmedFired \cup Detailing!Fires(c, row.status)
         ELSE UNCHANGED <<details, detailEvents, confirmedFired>>
  BY DEF Detailing!Add, Detailing!Ready, Underway, ReadRow
<1>2. row.by = c /\ Begot(c, row.on)
  BY <1>1 DEF PartsInv, PartsBegotten
<1>3. /\ DOMAIN detailCall' = PartCall /\ ~Underway(c)'
      /\ \A b \in PartCall : b # c =>
            /\ detailCall'[b] = detailCall[b] /\ ReadRow(b)' = ReadRow(b)
            /\ Underway(b)' = Underway(b)
      /\ \A b \in PartCall : Underway(b)' \/ detailCall'[b].at = "done" =>
            \E q \in detailCall'[b].read : detailCall'[b].read = {q}
      /\ \A b, x : Begot(b, x)' <=> Begot(b, x)
      /\ \A b : b \in PartCall /\ ~Underway(b) => ~Underway(b)'
  BY <1>1, Ended
<1>4. details \subseteq details' /\ details' \subseteq details \cup {row}
      /\ confirmedFired \subseteq confirmedFired' /\ detailEvents \subseteq detailEvents'
  BY <1>1
<1>5. PartsShaped'
  BY <1>1, <1>3, FS_AddElement DEF PartsInv, PartsShaped
<1>6. PartsBegotten'
  <2>1. \A r \in details' : Begot(r.by, r.on)' /\ ~Underway(r.by)'
    <3>1. \A b, x : Begot(b, x) => b \in PartCall  BY DEF Begot
    <3>2. \A r \in details : Begot(r.by, r.on)' /\ ~Underway(r.by)'
      BY <1>3, <3>1 DEF PartsInv, PartsBegotten
    <3>3. Begot(row.by, row.on)' /\ ~Underway(row.by)'
      BY <1>2, <1>3
    <3> QED  BY <1>4, <3>2, <3>3
  <2>2. \A r, q \in details' : r.by = q.by => r = q
    BY <1>1, <1>2, <1>4 DEF PartsInv, PartsBegotten
  <2>3. ASSUME NEW b \in PartCall, Underway(b)'
        PROVE  /\ detailCall'[b].op # "add" =>
                      Begot(ReadRow(b).by, ReadRow(b).on)' /\ ~Underway(ReadRow(b).by)'
               /\ detailCall'[b].op = "add" => ReadRow(b)'.by = b /\ Begot(b, ReadRow(b).on)'
    <3>1. b # c /\ Underway(b) /\ detailCall'[b] = detailCall[b] /\ ReadRow(b)' = ReadRow(b)
      BY <1>3, <2>3
    <3>2. ASSUME NEW r, r = ReadRow(b), detailCall[b].op # "add"
          PROVE  Begot(r.by, r.on)' /\ ~Underway(r.by)'
      BY <1>3, <3>1, <3>2 DEF PartsInv, PartsBegotten, Begot
    <3>3. ASSUME NEW r, r = ReadRow(b), detailCall[b].op = "add"
          PROVE  r.by = b /\ Begot(b, r.on)'
      BY <1>3, <3>1, <3>3 DEF PartsInv, PartsBegotten
    <3> QED  BY <3>1, <3>2, <3>3 DEF Begot, Underway
  <2> QED  BY <2>1, <2>2, <2>3 DEF PartsBegotten
<1>7. PartsCounted'
  <2> SUFFICES ASSUME detail = "asset"  PROVE PartsCounted'
    BY <1>1 DEF PartsCounted
  <2>1. \A r : Counted(r) => Counted(r)'  BY <1>4 DEF Counted
  <2>2. row \in details' => Counted(row)'
    BY <1>1, <2>1 DEF PartsInv, PartsCounted, Counted, Detailing!Fires, Detailing!Noted
  <2>3. \A r \in details' : Counted(r)'
    BY <1>4, <2>1, <2>2 DEF PartsInv, PartsCounted
  <2>4. ASSUME NEW b \in PartCall, Underway(b)', detailCall'[b].op = "change"
        PROVE  /\ Counted(ReadRow(b))'
               /\ \A r \in details' : r.by = ReadRow(b)'.by /\ ReadRow(b)'.stamp # {} =>
                                         r.stamp # {}
    <3>1. b # c /\ Underway(b) /\ detailCall[b].op = "change" /\ ReadRow(b)' = ReadRow(b)
      BY <1>3, <2>4
    <3>2. ReadRow(b).by # c  BY <1>1, <3>1 DEF PartsInv, PartsBegotten
    <3>3. Counted(ReadRow(b))  BY <3>1 DEF PartsInv, PartsCounted
    <3>4. Counted(ReadRow(b))'  BY <2>1, <3>1, <3>3 DEF Counted
    <3> QED  BY <1>2, <1>4, <3>1, <3>2, <3>4 DEF PartsInv, PartsCounted
  <2>5. \A b \in PartCall : Underway(b)' /\ detailCall'[b].op = "add" =>
            (ReadRow(b)'.status = "confirmed" => ReadRow(b)'.stamp # {})
    BY <1>3 DEF PartsInv, PartsCounted
  <2> QED  BY <2>3, <2>4, <2>5 DEF PartsCounted
<1>8. PartsOnce'
  BY <1>1 DEF PartsInv, PartsOnce, Detailing!Unique
<1>9. PartsCame'
  <2>1. \A event \in detailEvents' : event[1] = "added" =>
            event \in detailEvents \/ (event = <<"added", c, row.on>> /\ row \in details')
    BY <1>1 DEF Detailing!Noted
  <2>2. \A r \in details' : <<"added", r.by, r.on>> \in detailEvents'
    <3>1. \A r \in details : <<"added", r.by, r.on>> \in detailEvents'
      BY <1>4 DEF PartsInv, PartsCame
    <3> QED  BY <1>1, <1>2, <3>1
  <2>3. \A event \in detailEvents' : event[1] = "added" =>
            /\ Begot(event[2], event[3])'
            /\ (\A r \in details' : r.by # event[2]) =>
                  \E b \in PartCall : <<"removed", b, event[3]>> \in detailEvents'
    BY <1>2, <1>3, <1>4, <2>1 DEF PartsInv, PartsCame
  <2> QED  BY <2>2, <2>3 DEF PartsCame
<1> QED  BY <1>5, <1>6, <1>7, <1>8, <1>9 DEF PartsInv

LEMMA BegotOne ==
    ASSUME NEW b, NEW x, NEW y, Begot(b, x), Begot(b, y)  PROVE x = y /\ b \in PartCall
BY DEF Begot

\* A request writes anew, or takes away, the row that it has read.
LEMMA OthersKept ==
    ASSUME PartsInv, NEW c \in PartCall, Underway(c), detailCall[c].op # "add",
           Detailing!Ends(c), detail' = detail,
           \A q \in details' : \E r \in details : q.by = r.by,
           \A r, q \in details' : r.by = q.by => r = q,
           \A q \in details', r \in details : r.by = q.by => r.on = q.on
    PROVE  PartsBegotten'
<1>1. \A b, x : Begot(b, x)' <=> Begot(b, x)  BY Ended
<1>2. \A b : b \in PartCall /\ ~Underway(b) => ~Underway(b)'  BY Ended
<1>3. ASSUME NEW q \in details'  PROVE Begot(q.by, q.on)' /\ ~Underway(q.by)'
  <2>1. PICK r \in details : q.by = r.by  OBVIOUS
  <2>2. r.on = q.on  BY <2>1
  <2>3. Begot(q.by, q.on) /\ ~Underway(q.by)  BY <2>1, <2>2 DEF PartsInv, PartsBegotten
  <2> QED  BY <1>1, <1>2, <2>3, BegotOne
<1>4. ASSUME NEW b \in PartCall, Underway(b)'
      PROVE  /\ detailCall'[b].op # "add" =>
                    Begot(ReadRow(b).by, ReadRow(b).on)' /\ ~Underway(ReadRow(b).by)'
             /\ detailCall'[b].op = "add" => ReadRow(b)'.by = b /\ Begot(b, ReadRow(b).on)'
  <2>1. b # c /\ Underway(b) /\ detailCall'[b] = detailCall[b] /\ ReadRow(b)' = ReadRow(b)
    BY <1>4, Ended
  <2>2. ASSUME NEW r, r = ReadRow(b), detailCall[b].op # "add"
        PROVE  Begot(r.by, r.on)' /\ ~Underway(r.by)'
    <3>1. Begot(r.by, r.on) /\ ~Underway(r.by)  BY <2>1, <2>2 DEF PartsInv, PartsBegotten
    <3> QED  BY <1>1, <1>2, <3>1, BegotOne
  <2>3. ASSUME NEW r, r = ReadRow(b), detailCall[b].op = "add"
        PROVE  r.by = b /\ Begot(b, r.on)'
    BY <1>1, <2>1, <2>3 DEF PartsInv, PartsBegotten
  <2> QED  BY <2>1, <2>2, <2>3 DEF Begot, Underway
<1> QED  BY <1>3, <1>4 DEF PartsBegotten

LEMMA RemoveKeeps ==
    ASSUME PartsInv, NEW c \in PartCall, Detailing!Remove(c)  PROVE PartsInv'
<1> SUFFICES ASSUME NEW row, row = ReadRow(c)  PROVE PartsInv'
  OBVIOUS
<1>1. /\ Underway(c) /\ Detailing!Ends(c) /\ detailCall[c].op = "remove" /\ detail' = detail
      /\ details' = {r \in details : r.by # row.by} /\ confirmedFired' = confirmedFired
      /\ detailEvents' = detailEvents \cup {<<"removed", c, row.on>>}
  BY DEF Detailing!Remove, Detailing!Ready, Underway, ReadRow
<1>2. Begot(row.by, row.on)  BY <1>1 DEF PartsInv, PartsBegotten
<1>3. /\ DOMAIN detailCall' = PartCall /\ ~Underway(c)'
      /\ \A b \in PartCall : b # c =>
            /\ detailCall'[b] = detailCall[b] /\ ReadRow(b)' = ReadRow(b)
            /\ Underway(b)' = Underway(b)
      /\ \A b \in PartCall : Underway(b)' \/ detailCall'[b].at = "done" =>
            \E q \in detailCall'[b].read : detailCall'[b].read = {q}
      /\ \A b, x : Begot(b, x)' <=> Begot(b, x)
  BY <1>1, Ended
<1>4. details' \subseteq details /\ detailEvents \subseteq detailEvents'
  BY <1>1
<1>5. PartsShaped'
  BY <1>1, <1>3, <1>4, FS_Subset DEF PartsInv, PartsShaped
<1>6. PartsBegotten'
  <2>1. \A r, q \in details : r.by = q.by => r = q  BY DEF PartsInv, PartsBegotten
  <2> QED  BY <1>1, <1>4, <2>1, OthersKept
<1>7. PartsCounted'
  <2> SUFFICES ASSUME detail = "asset"  PROVE PartsCounted'
    BY <1>1 DEF PartsCounted
  <2>1. \A r : Counted(r) => Counted(r)'  BY <1>1, <1>4 DEF Counted
  <2>2. \A r \in details' : Counted(r)'  BY <1>4, <2>1 DEF PartsInv, PartsCounted
  <2>3. ASSUME NEW b \in PartCall, Underway(b)', detailCall'[b].op = "change"
        PROVE  /\ Counted(ReadRow(b))'
               /\ \A r \in details' : r.by = ReadRow(b)'.by /\ ReadRow(b)'.stamp # {} =>
                                         r.stamp # {}
    <3>1. b # c /\ Underway(b) /\ detailCall[b].op = "change" /\ ReadRow(b)' = ReadRow(b)
      BY <1>3, <2>3
    <3>2. Counted(ReadRow(b))  BY <3>1 DEF PartsInv, PartsCounted
    <3>3. Counted(ReadRow(b))'  BY <2>1, <3>1, <3>2 DEF Counted
    <3> QED  BY <1>4, <3>1, <3>3 DEF PartsInv, PartsCounted
  <2>4. \A b \in PartCall : Underway(b)' /\ detailCall'[b].op = "add" =>
            (ReadRow(b)'.status = "confirmed" => ReadRow(b)'.stamp # {})
    BY <1>3 DEF PartsInv, PartsCounted
  <2> QED  BY <2>2, <2>3, <2>4 DEF PartsCounted
<1>8. PartsOnce'
  BY <1>1, <1>4 DEF PartsInv, PartsOnce
<1>9. PartsCame'
  <2>1. \A r \in details' : <<"added", r.by, r.on>> \in detailEvents'
    BY <1>4 DEF PartsInv, PartsCame
  <2>2. ASSUME NEW event \in detailEvents', event[1] = "added"
        PROVE  /\ Begot(event[2], event[3])'
               /\ (\A r \in details' : r.by # event[2]) =>
                     \E b \in PartCall : <<"removed", b, event[3]>> \in detailEvents'
    <3>1. event \in detailEvents /\ Begot(event[2], event[3])
      BY <1>1, <2>2 DEF PartsInv, PartsCame
    <3>2. ASSUME NEW r \in details, r.by = event[2], r \notin details'
          PROVE  <<"removed", c, event[3]>> \in detailEvents'
      <4>1. event[2] = row.by  BY <1>1, <3>2
      <4>2. event[3] = row.on  BY <1>2, <3>1, <4>1, BegotOne
      <4> QED  BY <1>1, <4>2
    <3>3. CASE \A r \in details : r.by # event[2]
      BY <1>3, <1>4, <2>2, <3>1, <3>3 DEF PartsInv, PartsCame
    <3> QED  BY <1>3, <3>1, <3>2, <3>3
  <2> QED  BY <2>1, <2>2 DEF PartsCame
<1> QED  BY <1>5, <1>6, <1>7, <1>8, <1>9 DEF PartsInv

\* What a write makes of a row: the one that was read has the new status, and keeps its
\* stamp or gets one.
Became(q, r, c, status, row) ==
    /\ q.by = r.by /\ q.on = r.on
    /\ r.by # row.by => q = r
    /\ r.by = row.by =>
          /\ q.status = status
          /\ q.stamp = {c} \/ q.stamp = r.stamp
          /\ status = "confirmed" /\ status # row.status /\ row.stamp = {} => q.stamp = {c}

After(c, status, by) ==
    {IF r.by = by THEN Detailing!Rewritten(c, r, status) ELSE r : r \in details}

LEMMA RowsRewritten ==
    ASSUME PartsInv, NEW c \in PartCall, NEW status, NEW row, row = ReadRow(c), NEW after,
           after = After(c, status, row.by)
    PROVE  /\ IsFiniteSet(after)
           /\ \A q \in after : \E r \in details : Became(q, r, c, status, row)
           /\ \A r \in details : \E q \in after : q.by = r.by
           /\ \A r, q \in after : r.by = q.by => r = q
<1> DEFINE New(r) == IF r.by = row.by THEN Detailing!Rewritten(c, r, status) ELSE r
<1>1. \A r : Became(New(r), r, c, status, row)
  BY DEF Detailing!Rewritten, Detailing!Stamp, ReadRow, Became
<1>2. \A r : New(r).by = r.by  BY <1>1 DEF Became
<1>3. after = {New(r) : r \in details}  BY DEF After
<1> HIDE DEF New
<1>4. \A r, q \in after : r.by = q.by => r = q
  <2>1. \A r, q \in details : r.by = q.by => r = q  BY DEF PartsInv, PartsBegotten
  <2> QED  BY <1>2, <1>3, <2>1
<1>5. IsFiniteSet(after)
  <2> DEFINE f == [r \in details |-> New(r)]
  <2>1. f \in Surjection(details, after)  BY <1>3 DEF Surjection
  <2> QED  BY <2>1, FS_Surjection DEF PartsInv, PartsShaped
<1>6. \A q \in after : \E r \in details : Became(q, r, c, status, row)  BY <1>1, <1>3
<1>7. \A r \in details : \E q \in after : q.by = r.by  BY <1>2, <1>3
<1> QED  BY <1>4, <1>5, <1>6, <1>7

LEMMA ChangeKeeps ==
    ASSUME PartsInv, NEW c \in PartCall, NEW status, Detailing!Change(c, status)
    PROVE  PartsInv'
<1> SUFFICES ASSUME NEW row, row = ReadRow(c)  PROVE PartsInv'
  OBVIOUS
<1>1. /\ Underway(c) /\ Detailing!Ends(c) /\ detailCall[c].op = "change" /\ detail' = detail
      /\ details' = After(c, status, row.by)
      /\ IF status # row.status
         THEN /\ detailEvents' = detailEvents \cup Detailing!Noted(c, row.on, status)
              /\ confirmedFired' = confirmedFired \cup Detailing!Fires(c, status)
         ELSE UNCHANGED <<detailEvents, confirmedFired>>
  BY DEF Detailing!Change, Detailing!Ready, Underway, ReadRow, After
<1>2. /\ Begot(row.by, row.on)
      /\ \A r \in details : Begot(r.by, r.on)
  BY <1>1 DEF PartsInv, PartsBegotten
<1>3. /\ DOMAIN detailCall' = PartCall /\ ~Underway(c)'
      /\ \A b \in PartCall : b # c =>
            /\ detailCall'[b] = detailCall[b] /\ ReadRow(b)' = ReadRow(b)
            /\ Underway(b)' = Underway(b)
      /\ \A b \in PartCall : Underway(b)' \/ detailCall'[b].at = "done" =>
            \E q \in detailCall'[b].read : detailCall'[b].read = {q}
      /\ \A b, x : Begot(b, x)' <=> Begot(b, x)
  BY <1>1, Ended
<1>4. /\ IsFiniteSet(details')
      /\ \A q \in details' : \E r \in details : Became(q, r, c, status, row)
      /\ \A r \in details : \E q \in details' : q.by = r.by
      /\ \A r, q \in details' : r.by = q.by => r = q
  BY <1>1, RowsRewritten
<1>5. \A r, q \in details : r.by = q.by => r = q  BY DEF PartsInv, PartsBegotten
<1>12. \A q \in details' : \E r \in details : q.by = r.by /\ q.on = r.on
  BY <1>4 DEF Became
<1>6. /\ detailEvents \subseteq detailEvents' /\ confirmedFired \subseteq confirmedFired'
      /\ \A event \in detailEvents' : event[1] = "added" => event \in detailEvents
  BY <1>1 DEF Detailing!Noted
<1>7. PartsShaped'  BY <1>1, <1>3, <1>4 DEF PartsInv, PartsShaped
<1>8. PartsBegotten'
  <2>1. \A q \in details', r \in details : r.by = q.by => r.on = q.on  BY <1>5, <1>12
  <2>2. \A q \in details' : \E r \in details : q.by = r.by  BY <1>12
  <2> QED  BY <1>1, <1>4, <2>1, <2>2, OthersKept
<1>9. PartsCounted'
  <2> SUFFICES ASSUME detail = "asset"  PROVE PartsCounted'
    BY <1>1 DEF PartsCounted
  <2>1. \A r : Counted(r) => Counted(r)'  BY <1>6 DEF Counted
  <2>2. /\ Counted(row)
        /\ \A r \in details : r.by = row.by /\ row.stamp # {} => r.stamp # {}
    BY <1>1 DEF PartsInv, PartsCounted
  <2>3. ASSUME NEW q \in details'  PROVE Counted(q)'
    <3>1. PICK r \in details : Became(q, r, c, status, row)
      BY <1>4
    <3>2. CASE r.by # row.by
      <4>1. q = r  BY <3>1, <3>2 DEF Became
      <4>2. Counted(r)  BY DEF PartsInv, PartsCounted
      <4> QED  BY <2>1, <4>1, <4>2
    <3>3. CASE r.by = row.by /\ status = "confirmed"
      <4>1. q.on = row.on
        <5>1. Begot(r.by, r.on) /\ q.on = r.on  BY <1>2, <3>1 DEF Became
        <5> QED  BY <1>2, <3>3, <5>1, BegotOne
      <4>2. q.stamp # {}
        BY <2>2, <3>1, <3>3 DEF Became, Counted
      <4>3. \E b \in confirmedFired' : <<"confirmed", b, row.on>> \in detailEvents'
        <5>1. CASE status = row.status  BY <1>6, <2>2, <3>3, <5>1 DEF Counted
        <5>2. CASE status # row.status
          BY <1>1, <3>3, <5>2 DEF Detailing!Noted, Detailing!Fires
        <5> QED  BY <5>1, <5>2
      <4> QED  BY <4>1, <4>2, <4>3 DEF Counted
    <3>4. CASE r.by = row.by /\ status # "confirmed"
      BY <3>1, <3>4 DEF Became, Counted
    <3> QED  BY <3>2, <3>3, <3>4
  <2>4. ASSUME NEW b \in PartCall, Underway(b)', detailCall'[b].op = "change"
        PROVE  /\ Counted(ReadRow(b))'
               /\ \A q \in details' : q.by = ReadRow(b)'.by /\ ReadRow(b)'.stamp # {} =>
                                         q.stamp # {}
    <3>1. b # c /\ Underway(b) /\ detailCall[b].op = "change" /\ ReadRow(b)' = ReadRow(b)
      BY <1>3, <2>4
    <3>2. /\ Counted(ReadRow(b))
          /\ \A r \in details : r.by = ReadRow(b).by /\ ReadRow(b).stamp # {} => r.stamp # {}
      BY <3>1 DEF PartsInv, PartsCounted
    <3>3. Counted(ReadRow(b))'  BY <2>1, <3>1, <3>2 DEF Counted
    <3>4. ASSUME NEW q \in details', q.by = ReadRow(b).by, ReadRow(b).stamp # {}
          PROVE  q.stamp # {}
      <4>1. PICK r \in details : Became(q, r, c, status, row)
        BY <1>4
      <4>2. q.stamp = {c} \/ q.stamp = r.stamp  BY <4>1 DEF Became
      <4>3. q.by = r.by  BY <4>1 DEF Became
      <4> QED  BY <3>2, <3>4, <4>2, <4>3
    <3> QED  BY <3>1, <3>3, <3>4
  <2>5. \A b \in PartCall : Underway(b)' /\ detailCall'[b].op = "add" =>
            (ReadRow(b)'.status = "confirmed" => ReadRow(b)'.stamp # {})
    BY <1>3 DEF PartsInv, PartsCounted
  <2> QED  BY <2>3, <2>4, <2>5 DEF PartsCounted
<1>10. PartsOnce'
  <2> SUFFICES ASSUME detail \in {"asset", "indicator"}, NEW p \in details', NEW q \in details',
                      p.on = q.on
               PROVE  p = q
    BY <1>1 DEF PartsOnce
  <2>1. PICK r \in details : p.by = r.by /\ p.on = r.on  BY <1>12
  <2>2. PICK s \in details : q.by = s.by /\ q.on = s.on  BY <1>12
  <2>3. r = s  BY <2>1, <2>2 DEF PartsInv, PartsOnce
  <2> QED  BY <1>4, <2>1, <2>2, <2>3
<1>11. PartsCame'
  <2>1. ASSUME NEW q \in details'  PROVE <<"added", q.by, q.on>> \in detailEvents'
    <3>1. PICK r \in details : q.by = r.by /\ q.on = r.on  BY <1>12
    <3> QED  BY <1>6, <3>1 DEF PartsInv, PartsCame
  <2>2. \A event \in detailEvents' : event[1] = "added" =>
            /\ Begot(event[2], event[3])'
            /\ (\A r \in details' : r.by # event[2]) =>
                  \E b \in PartCall : <<"removed", b, event[3]>> \in detailEvents'
    BY <1>3, <1>4, <1>6 DEF PartsInv, PartsCame
  <2> QED  BY <2>1, <2>2 DEF PartsCame
<1> QED  BY <1>7, <1>8, <1>9, <1>10, <1>11 DEF PartsInv

LEMMA PartsStepKeeps ==
    ASSUME PartsInv, [Detailing!Next]_(Detailing!vars)  PROVE PartsInv'
<1>1. ASSUME UNCHANGED <<detail, details, detailEvents, confirmedFired, detailCall>>
      PROVE  PartsInv'
  <2>1. \A c : Underway(c)' = Underway(c) /\ ReadRow(c)' = ReadRow(c)
    BY <1>1 DEF Underway, ReadRow, Detailing!Read
  <2>2. \A r : Counted(r)' = Counted(r)  BY <1>1 DEF Counted
  <2>3. \A b, x : Begot(b, x)' = Begot(b, x)  BY <1>1 DEF Begot
  <2>4. PartsShaped'  BY <1>1, <2>1 DEF PartsInv, PartsShaped
  <2>5. PartsBegotten'
    <3>1. \A c \in PartCall : Underway(c) /\ detailCall[c].op # "add" =>
              Begot(ReadRow(c).by, ReadRow(c).on)' /\ ~Underway(ReadRow(c).by)'
      BY <1>1, <2>1, <2>3 DEF PartsInv, PartsBegotten, Begot, Underway
    <3>2. \A c \in PartCall : Underway(c) /\ detailCall[c].op = "add" =>
              ReadRow(c)'.by = c /\ Begot(c, ReadRow(c).on)'
      BY <1>1, <2>1, <2>3 DEF PartsInv, PartsBegotten, Begot
    <3> QED  BY <1>1, <2>1, <2>3, <3>1, <3>2 DEF PartsInv, PartsBegotten
  <2>6. PartsCounted'
    <3>1. \A c : Counted(ReadRow(c))' = Counted(ReadRow(c))  BY <1>1, <2>1 DEF Counted
    <3> QED  BY <1>1, <2>1, <2>2, <3>1 DEF PartsInv, PartsCounted
  <2>7. PartsOnce' /\ PartsCame'  BY <1>1, <2>3 DEF PartsInv, PartsOnce, PartsCame
  <2> QED  BY <2>4, <2>5, <2>6, <2>7 DEF PartsInv
<1>2. CASE \/ UNCHANGED Detailing!vars \/ Detailing!CloseOrReopen
  BY <1>1, <1>2 DEF Detailing!vars, Detailing!CloseOrReopen
<1>3. ASSUME NEW c \in PartCall, NEW x, NEW s, Detailing!AskAdd(c, x, s)  PROVE PartsInv'
  <2> DEFINE row == [by |-> c, on |-> x, status |-> s, place |-> Detailing!NextPlace,
                     stamp |-> Detailing!Stamp(c, s, {}, TRUE)]
  <2>1. Detailing!Asks(c, "add", row)  BY <1>3 DEF Detailing!AskAdd
  <2>2. row.by = c /\ (row.status = "confirmed" => row.stamp # {})
    BY DEF Detailing!Stamp
  <2> HIDE DEF row
  <2> QED  BY <2>1, <2>2, AsksKeep
<1>4. ASSUME NEW c \in PartCall, NEW r \in details,
             Detailing!AskChange(c, r) \/ Detailing!AskRemove(c, r)
      PROVE  PartsInv'
  <2>1. PICK op \in {"change", "remove"} : Detailing!Asks(c, op, r)
    BY <1>4 DEF Detailing!AskChange, Detailing!AskRemove
  <2> QED  BY <2>1, AsksKeep
<1>5. CASE \E c \in PartCall : Detailing!Add(c) \/ Detailing!Remove(c)
  BY <1>5, AddKeeps, RemoveKeeps
<1>6. CASE \E c \in PartCall, s \in Detailing!Statuses(detail) : Detailing!Change(c, s)
  BY <1>6, ChangeKeeps
<1> QED  BY <1>2, <1>3, <1>4, <1>5, <1>6 DEF Detailing!Next

LEMMA PartsTell == ASSUME PartsInv  PROVE Detailing!PartsTold
<1>1. Detailing!ConfirmedCounts
  BY DEF PartsInv, PartsCounted, Counted, Detailing!ConfirmedCounts
<1>2. Detailing!ComingsAndGoings
  BY DEF PartsInv, PartsCame, Detailing!ComingsAndGoings
<1>3. Detailing!TrackedOnce
  BY DEF PartsInv, PartsOnce, Detailing!TrackedOnce
<1> QED  BY <1>1, <1>2, <1>3 DEF Detailing!PartsTold

\* However the requests on the parts of a case overlap: a confirmed host has its stamp,
\* its entry and its playbooks; every coming and going is in the timeline; a host or an
\* indicator is in a case once.
THEOREM PartsAreTold ==
    ASSUME Detailing!PartsBounds  PROVE Detailing!Spec => []Detailing!PartsTold
<1>1. Detailing!Init => PartsInv  BY PartsInitially
<1>2. PartsInv /\ [Detailing!Next]_(Detailing!vars) => PartsInv'  BY PartsStepKeeps
<1>3. PartsInv => Detailing!PartsTold  BY PartsTell
<1> QED  BY <1>1, <1>2, <1>3, PTL DEF Detailing!Spec

-----------------------------------------------------------------------------
(* Saving a case.  An open case has no closing time and a closed one has, and   *)
(* a save that clashes with nothing has read the closing times that are there.  *)

CaseRow ==
    [status : {"open", "closed"}, workflow : {"new", "investigating", "resolved"},
     created : Int, closedAt : Int, lastClosedAt : Int, reopened : Int, acked : Int,
     sla : Int, stale : Int]
DeskTyped ==
    /\ hour \in Nat /\ DOMAIN last = Desk!Id
    /\ DOMAIN deskPc = Analyst /\ DOMAIN readRow = Analyst
    /\ \A c \in DOMAIN cases : cases[c] \in CaseRow

\* A case that is open has no closing time, one that is closed has.
Timed(row) == row.status = "open" <=> row.closedAt = Desk!Never
Remembers(row) == row.closedAt # Desk!Never \/ row.lastClosedAt # Desk!Never

\* Ids are never used again.
KnownCases == \A c \in DOMAIN cases \cup everClosed : c \in Desk!Id /\ last[c] # Desk!Never

\* A save has read a row of a case that was there.
ReadOnce ==
    \A a \in Analyst : deskPc[a] = "save" =>
        /\ readRow[a].row \in CaseRow
        /\ readRow[a].id \in Desk!Id /\ last[readRow[a].id] # Desk!Never

CloseInv ==
    /\ DeskTyped /\ KnownCases /\ ReadOnce
    /\ \A c \in DOMAIN cases : Timed(cases[c])
    /\ \A c \in (everClosed \cap DOMAIN cases) \ clashed : Remembers(cases[c])

LEMMA DeskInitially == Desk!Init => CloseInv
BY DEF Desk!Init, CloseInv, DeskTyped, KnownCases, ReadOnce

\* A log entry stamps an id, and forgets none.
LEMMA LogKeeps ==
    ASSUME CloseInv, NEW c, Desk!Logs(c)
    PROVE  /\ DOMAIN last' = Desk!Id
           /\ \A d \in Desk!Id : last[d] # Desk!Never \/ d = c => last'[d] # Desk!Never
BY DEF CloseInv, DeskTyped, Desk!Logs, Desk!Never

\* What keeps the rows apart from the columns that nothing here is about.
LEMMA RowsKeep ==
    ASSUME CloseInv, hour' \in Nat, everClosed' = everClosed, clashed' = clashed,
           DOMAIN cases' \subseteq DOMAIN cases,
           \A c \in DOMAIN cases' :
               /\ cases'[c] \in CaseRow
               /\ cases'[c].status = cases[c].status
               /\ cases'[c].closedAt = cases[c].closedAt
               /\ cases'[c].lastClosedAt = cases[c].lastClosedAt,
           DOMAIN last' = Desk!Id,
           \A c \in Desk!Id : last[c] # Desk!Never => last'[c] # Desk!Never,
           DOMAIN deskPc' = Analyst, DOMAIN readRow' = Analyst,
           \A a \in Analyst : deskPc'[a] = "save" =>
               \/ deskPc[a] = "save" /\ readRow'[a] = readRow[a]
               \/ /\ readRow'[a].id \in DOMAIN cases
                  /\ readRow'[a].row = cases[readRow'[a].id]
    PROVE  CloseInv'
<1>1. DeskTyped'  BY DEF DeskTyped
<1>2. KnownCases'  BY DEF CloseInv, KnownCases, Desk!Id, Desk!Never
<1>3. ReadOnce'
  <2> SUFFICES ASSUME NEW a \in Analyst, deskPc'[a] = "save"
               PROVE  /\ readRow'[a].row \in CaseRow
                      /\ readRow'[a].id \in Desk!Id /\ last'[readRow'[a].id] # Desk!Never
    BY DEF ReadOnce, Desk!Id, Desk!Never
  <2>1. CASE deskPc[a] = "save" /\ readRow'[a] = readRow[a]
    BY <2>1 DEF CloseInv, ReadOnce
  <2>2. CASE readRow'[a].id \in DOMAIN cases /\ readRow'[a].row = cases[readRow'[a].id]
    BY <2>2 DEF CloseInv, DeskTyped, KnownCases
  <2> QED  BY <2>1, <2>2
<1>4. /\ \A c \in DOMAIN cases' : Timed(cases[c])
      /\ \A c \in (everClosed \cap DOMAIN cases') \ clashed : Remembers(cases[c])
  BY DEF CloseInv
<1>5. /\ \A c \in DOMAIN cases' : Timed(cases'[c])
      /\ \A c \in (everClosed \cap DOMAIN cases') \ clashed : Remembers(cases'[c])
  BY <1>4 DEF Timed, Remembers, Desk!Never
<1> QED  BY <1>1, <1>2, <1>3, <1>5 DEF CloseInv, Timed, Remembers, Desk!Never

LEMMA CreateKeeps ==
    ASSUME CloseInv, NEW new \in Desk!Id, Desk!Create(new)  PROVE CloseInv'
<1> DEFINE row == [status |-> "open", workflow |-> "new", created |-> hour,
                   closedAt |-> Desk!Never, lastClosedAt |-> Desk!Never, reopened |-> 0,
                   acked |-> Desk!Never, sla |-> Desk!Never, stale |-> Desk!Never]
<1>1. /\ cases' = [c \in DOMAIN cases \cup {new} |-> IF c \in DOMAIN cases THEN cases[c] ELSE row]
      /\ Desk!Logs(new) /\ UNCHANGED <<hour, deskPc, readRow, everClosed, clashed>>
  BY DEF Desk!Create, Desk!Existing, Desk!desk
<1>2. row \in CaseRow  BY DEF CloseInv, DeskTyped, CaseRow, Desk!Never
<1>3. row.status = "open" /\ row.closedAt = Desk!Never  OBVIOUS
<1> HIDE DEF row
<1>4. last[new] = Desk!Never  BY DEF Desk!Create, Desk!NewId, Desk!Id
<1>5. new \notin DOMAIN cases \cup everClosed  BY <1>4 DEF CloseInv, KnownCases
<1>6. \A d \in Desk!Id : last[d] # Desk!Never \/ d = new => last'[d] # Desk!Never
  BY <1>1, LogKeeps
<1>7. DeskTyped'  BY <1>1, <1>2, LogKeeps DEF CloseInv, DeskTyped, Desk!Id
<1>8. KnownCases'  BY <1>1, <1>6 DEF CloseInv, KnownCases, Desk!Id, Desk!Never
<1>9. ReadOnce'  BY <1>1, <1>6 DEF CloseInv, ReadOnce, Desk!Id, Desk!Never
<1>10. /\ \A c \in DOMAIN cases' : Timed(cases'[c])
       /\ \A c \in (everClosed' \cap DOMAIN cases') \ clashed' : Remembers(cases'[c])
  BY <1>1, <1>3, <1>5 DEF CloseInv, Timed
<1> QED  BY <1>7, <1>8, <1>9, <1>10 DEF CloseInv, Timed, Remembers, Desk!Never

\* What a save writes follows from the row that it has read.
LEMMA SavedRemembers ==
    ASSUME hour \in Nat, NEW row \in CaseRow, NEW s \in {"open", "closed"},
           ~(row.status = "closed" /\ s = "closed"),
           NEW w \in {"new", "investigating", "resolved"}, NEW c, NEW was \in CaseRow,
           cases[c] = was
    PROVE  /\ Desk!Written(c, row, s, w) \in CaseRow
           /\ Timed(Desk!Written(c, row, s, w))
           /\ s = "closed" \/ (Timed(row) /\ Remembers(row)) =>
                 Remembers(Desk!Written(c, row, s, w))
<1> DEFINE new == Desk!Written(c, row, s, w)
<1>1. /\ new = [status |-> s, workflow |-> w, created |-> row.created,
               closedAt |-> IF Desk!Closes(row, s) THEN hour ELSE Desk!Never,
               lastClosedAt |-> Desk!LastClosed(row, s),
               reopened |-> IF Desk!Reopens(row, s) THEN row.reopened + 1 ELSE row.reopened,
               acked |-> Desk!Acknowledged(row, w), sla |-> Desk!SlaStamp(row, s),
               stale |-> was.stale]
  BY DEF Desk!Written, Desk!Saved
<1> HIDE DEF new
<1>2. /\ Desk!LastClosed(row, s) \in Int /\ Desk!Acknowledged(row, w) \in Int
      /\ Desk!SlaStamp(row, s) \in Int /\ row.reopened + 1 \in Int
      /\ hour \in Int /\ Desk!Never \in Int /\ hour # Desk!Never
  BY DEF CaseRow, Desk!LastClosed, Desk!Acknowledged, Desk!SlaStamp, Desk!Never
<1>3. new \in CaseRow  BY <1>1, <1>2 DEF CaseRow
<1>4. Timed(new)  BY <1>1, <1>2 DEF CaseRow, Timed, Desk!Closes
<1>5. s = "closed" \/ (Timed(row) /\ Remembers(row)) => Remembers(new)
  BY <1>1, <1>2 DEF CaseRow, Timed, Remembers, Desk!Closes, Desk!Reopens, Desk!LastClosed
<1> QED  BY <1>3, <1>4, <1>5 DEF new

LEMMA SaveKeeps ==
    ASSUME CloseInv, NEW a \in Analyst, Desk!SaveWrite(a)
    PROVE  CloseInv'
<1> SUFFICES ASSUME NEW c, c = readRow[a].id, NEW row, row = readRow[a].row  PROVE CloseInv'
  OBVIOUS
<1>1. PICK s \in {"open", "closed"}, w \in {row.workflow, "investigating"} :
          LET workflow == IF Desk!Closes(row, s) /\ w = row.workflow THEN "resolved" ELSE w IN
          /\ ~(row.status = "closed" /\ s = "closed")
          /\ cases' = IF c \in DOMAIN cases
                      THEN [cases EXCEPT ![c] = Desk!Written(c, row, s, workflow)] ELSE cases
          /\ Desk!Logs(c) \/ last' = last
          /\ everClosed' = IF s = "closed" THEN everClosed \cup ({c} \cap DOMAIN cases)
                                           ELSE everClosed
          /\ clashed' = IF Desk!Clashes(c, row) THEN clashed \cup {c} ELSE clashed
  BY DEF Desk!SaveWrite, Desk!Existing
<1> DEFINE workflow == IF Desk!Closes(row, s) /\ w = row.workflow THEN "resolved" ELSE w
           new == Desk!Written(c, row, s, workflow)
<1>2. /\ deskPc[a] = "save" /\ hour' = hour
      /\ deskPc' = [deskPc EXCEPT ![a] = "idle"]
      /\ readRow' = [readRow EXCEPT ![a] = Desk!NoRow]
  BY DEF Desk!SaveWrite, Desk!Finish
<1>3. row \in CaseRow /\ c \in Desk!Id  BY <1>2 DEF CloseInv, ReadOnce
<1>4. \A b \in Analyst : deskPc'[b] = "save" => deskPc[b] = "save" /\ readRow'[b] = readRow[b]
  BY <1>2 DEF CloseInv, DeskTyped
<1>5. /\ DOMAIN last' = Desk!Id
      /\ \A d \in Desk!Id : last[d] # Desk!Never => last'[d] # Desk!Never
  BY <1>1, LogKeeps DEF CloseInv, DeskTyped
<1>6. ReadOnce'  BY <1>4, <1>5 DEF CloseInv, ReadOnce, Desk!Id, Desk!Never
<1>7. CASE c \notin DOMAIN cases
  <2>1. cases' = cases /\ everClosed' = everClosed /\ clashed' = clashed
    BY <1>1, <1>7 DEF Desk!Clashes, Desk!Existing
  <2>2. DeskTyped' /\ KnownCases'
    BY <1>2, <1>5, <2>1 DEF CloseInv, DeskTyped, KnownCases, Desk!Id, Desk!Never
  <2> QED  BY <1>6, <2>1, <2>2 DEF CloseInv, Timed, Remembers, Desk!Never
<1>8. CASE c \in DOMAIN cases
  <2>1. workflow \in {"new", "investigating", "resolved"}  BY <1>3 DEF CaseRow
  <2>2. cases[c] \in CaseRow /\ hour \in Nat  BY <1>8 DEF CloseInv, DeskTyped
  <2>a. c \notin clashed' => c \notin clashed /\ Desk!Phase(cases[c]) = Desk!Phase(row)
    BY <1>1, <1>8 DEF Desk!Clashes, Desk!Existing
  <2>b. c \notin clashed' => Timed(row) /\ (c \in everClosed => Remembers(row))
    BY <1>8, <2>a DEF CloseInv, Timed, Remembers, Desk!Phase
  <2>3. /\ new \in CaseRow /\ Timed(new)
        /\ s = "closed" \/ (Timed(row) /\ Remembers(row)) => Remembers(new)
    BY <1>1, <1>3, <2>1, <2>2, SavedRemembers
  <2>4. cases' = [cases EXCEPT ![c] = new]  BY <1>1, <1>8
  <2> HIDE DEF new, workflow
  <2>5. /\ DOMAIN cases' = DOMAIN cases /\ cases'[c] = new
        /\ \A d \in DOMAIN cases : d # c => cases'[d] = cases[d]
    BY <1>8, <2>4
  <2>6. DeskTyped'  BY <1>2, <1>5, <2>3, <2>5 DEF CloseInv, DeskTyped, Desk!Id
  <2>7. KnownCases'
    BY <1>1, <1>3, <1>5, <1>8, <2>5 DEF CloseInv, KnownCases, Desk!Id, Desk!Never
  <2>8. \A d \in DOMAIN cases' : Timed(cases'[d])
    BY <2>3, <2>5 DEF CloseInv
  <2>9. \A d \in (everClosed' \cap DOMAIN cases') \ clashed' : Remembers(cases'[d])
    BY <1>1, <2>b, <2>3, <2>5 DEF CloseInv
  <2> QED  BY <1>6, <2>6, <2>7, <2>8, <2>9 DEF CloseInv, Timed, Remembers, Desk!Never
<1> QED  BY <1>7, <1>8

LEMMA DeskStepKeeps ==
    ASSUME CloseInv, [Desk!Next]_(Desk!vars)  PROVE CloseInv'
<1>1. ASSUME UNCHANGED <<cases, everClosed, clashed, deskPc, readRow, last>>, hour' \in Nat
      PROVE  CloseInv'
  BY <1>1, RowsKeep DEF CloseInv, DeskTyped
<1>2. CASE UNCHANGED Desk!vars \/ Desk!Tick \/ Desk!SlaSelect \/ Desk!StaleSelect \/ Desk!SweepDies
  BY <1>1, <1>2 DEF CloseInv, DeskTyped, Desk!vars, Desk!Tick, Desk!SlaSelect,
     Desk!StaleSelect, Desk!SweepDies, Desk!table, Desk!desk, Desk!past
<1>3. CASE Desk!SlaStampAll \/ Desk!StaleStampAll
  <2>1. /\ DOMAIN cases' = DOMAIN cases
        /\ \A c \in DOMAIN cases : \/ cases'[c] = cases[c]
                                    \/ cases'[c] = [cases[c] EXCEPT !.sla = hour]
                                    \/ cases'[c] = [cases[c] EXCEPT !.stale = hour]
        /\ UNCHANGED <<hour, last, deskPc, readRow, everClosed, clashed>>
    BY <1>3 DEF Desk!SlaStampAll, Desk!StaleStampAll, Desk!Existing
  <2>2. \A c \in DOMAIN cases : cases[c] \in CaseRow  BY DEF CloseInv, DeskTyped
  <2>3. ASSUME NEW c \in DOMAIN cases
        PROVE  /\ cases'[c] \in CaseRow /\ cases'[c].status = cases[c].status
               /\ cases'[c].closedAt = cases[c].closedAt
               /\ cases'[c].lastClosedAt = cases[c].lastClosedAt
    BY <2>1, <2>2 DEF CloseInv, DeskTyped, CaseRow
  <2> QED  BY <2>1, <2>3, RowsKeep DEF CloseInv, DeskTyped
<1>4. ASSUME NEW a \in Analyst, Desk!SaveRead(a)  PROVE CloseInv'
  <2>1. PICK c \in DOMAIN cases : readRow' = [readRow EXCEPT ![a] = [id |-> c, row |-> cases[c]]]
    BY <1>4 DEF Desk!SaveRead, Desk!Existing
  <2>2. /\ deskPc' = [deskPc EXCEPT ![a] = "save"]
        /\ UNCHANGED <<cases, last, hour, everClosed, clashed>>
    BY <1>4 DEF Desk!SaveRead, Desk!table, Desk!past
  <2>3. \A b \in Analyst : b # a => deskPc'[b] = deskPc[b] /\ readRow'[b] = readRow[b]
    BY <2>1, <2>2 DEF CloseInv, DeskTyped
  <2>4. readRow'[a].id = c /\ readRow'[a].row = cases[c]
    BY <2>1 DEF CloseInv, DeskTyped
  <2>5. DOMAIN deskPc' = Analyst /\ DOMAIN readRow' = Analyst
    BY <2>1, <2>2 DEF CloseInv, DeskTyped
  <2> QED  BY <2>2, <2>3, <2>4, <2>5, RowsKeep DEF CloseInv, DeskTyped
<1>5. ASSUME NEW a \in Analyst, Desk!AddLook(a) \/ Desk!AddInsert(a)  PROVE CloseInv'
  <2>1. /\ \E p \in {"add", "idle"} : deskPc' = [deskPc EXCEPT ![a] = p]
        /\ \E r : readRow' = [readRow EXCEPT ![a] = r]
        /\ UNCHANGED <<cases, hour, everClosed, clashed>>
        /\ last' = last \/ \E c : Desk!Logs(c)
    BY <1>5 DEF Desk!AddLook, Desk!AddInsert, Desk!Finish, Desk!table, Desk!past
  <2>2. /\ DOMAIN deskPc' = Analyst /\ DOMAIN readRow' = Analyst
        /\ \A b \in Analyst : deskPc'[b] = "save" => deskPc[b] = "save" /\ readRow'[b] = readRow[b]
    BY <2>1 DEF CloseInv, DeskTyped
  <2>3. /\ DOMAIN last' = Desk!Id
        /\ \A d \in Desk!Id : last[d] # Desk!Never => last'[d] # Desk!Never
    BY <2>1, LogKeeps DEF CloseInv, DeskTyped
  <2> QED  BY <2>1, <2>2, <2>3, RowsKeep DEF CloseInv, DeskTyped
<1>6. ASSUME NEW c, Desk!Delete(c)  PROVE CloseInv'
  <2>1. /\ DOMAIN cases' = DOMAIN cases \ {c}
        /\ \A d \in DOMAIN cases' : cases'[d] = cases[d]
        /\ UNCHANGED <<last, hour, deskPc, readRow, everClosed, clashed>>
    BY <1>6 DEF Desk!Delete, Desk!Existing, Desk!desk, Desk!past
  <2> QED  BY <2>1, RowsKeep DEF CloseInv, DeskTyped
<1> QED
  BY <1>2, <1>3, <1>4, <1>5, <1>6, CreateKeeps, SaveKeeps
  DEF Desk!Next, Desk!Work, Desk!Sweep

\* A case that was ever closed keeps one of its closing times, for any cases, deadlines
\* and sweeps and however many requests overlap, unless a save of it was written over a
\* close or a reopen that it had not read.
THEOREM ClosesAreRemembered == Desk!Spec => []Desk!CloseRemembered
<1>1. Desk!Init => CloseInv  BY DeskInitially
<1>2. CloseInv /\ [Desk!Next]_(Desk!vars) => CloseInv'  BY DeskStepKeeps
<1>3. CloseInv => Desk!CloseRemembered
  BY DEF CloseInv, Remembers, Desk!CloseRemembered, Desk!Existing
<1> QED  BY <1>1, <1>2, <1>3, PTL DEF Desk!Spec

-----------------------------------------------------------------------------
(* A case and its parts, which share no table but the case's id.              *)

\* A case tells its story, however the requests on it and on its parts overlap; of its
\* closing times, unless a save was written over a close or a reopen it had not read.
THEOREM CasesTellAll ==
    ASSUME Detailing!PartsBounds  PROVE CaseFileSpec => []CaseTold
<1>1. Desk!Spec => []Desk!CloseRemembered  BY ClosesAreRemembered
<1>2. Detailing!Spec => []Detailing!PartsTold  BY PartsAreTold
<1> QED  BY <1>1, <1>2, PTL DEF CaseFileSpec, CaseTold
==============================================================================
