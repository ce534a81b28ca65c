----------------------------- MODULE BooksProofs -----------------------------
(* What the console has a record of is so: the texts that detection rules were *)
(* given by hand, what a playbook's runs have done, what a script says it has  *)
(* done on an endpoint, and the rows of the tables that a start rebuilds.      *)
EXTENDS RuleBook, PlaybookRuns, HostScripts, FiniteSetTheorems, WellFoundedInduction, TLAPS

-----------------------------------------------------------------------------
(* The book of rules.  A request writes into the history what it has read of a  *)
(* rule before, which need not be the text it takes away: then the request that *)
(* wrote that text has put it into the history.                               *)

\* The texts that the history of a rule knows.
Past(r) == {h.old : h \in history[r]} \cup {h.new : h \in history[r]}

Reading == [rule : 0 .. MaxRule, text : Text, default : Text, file : Text]
BookTyped ==
    /\ rules \in [RuleId -> RuleRow]
    /\ DOMAIN history = RuleId /\ DOMAIN penned = RuleId
    /\ released \in 1 .. MaxRelease /\ edits \in 0 .. MaxEdit
    /\ DOMAIN editPc = Request /\ editSeen \in [Request -> Reading]

\* Ids are given out in their order, and an id not given out has nothing of a rule.
IdsInOrder == \E n \in 0 .. MaxRule : \A r \in RuleId : rules[r].used <=> r <= n
Unwritten ==
    \A r \in RuleId : ~rules[r].used => ~There(r) /\ penned[r] = {} /\ history[r] = {}

\* A request that has read a rule has read one that was there; an import, one of the pack.
SeenIds ==
    \A q \in Request :
        /\ editPc[q] \in {"edit", "revert", "clone"} => editSeen[q].rule # 0
        /\ editPc[q] \in {"edit", "revert", "clone", "import"} /\ editSeen[q].rule # 0 =>
              rules[editSeen[q].rule].used
SeenPack ==
    \A q \in Request :
        editPc[q] = "import" /\ editSeen[q].rule # 0 /\ There(editSeen[q].rule) =>
            rules[editSeen[q].rule].sigma

\* A text by hand that the history does not know is the first of its rule: every
\* request that is going to change the rule has read it, and no import changes it.
FirstText(r) ==
    There(r) /\ rules[r].text \in penned[r] \ Past(r) =>
        /\ ~rules[r].sigma
        /\ \A q \in Request : editPc[q] \in {"edit", "revert"} /\ editSeen[q].rule = r =>
              editSeen[q].text = rules[r].text
Remembered(r) == There(r) => penned[r] \subseteq {rules[r].text} \cup Past(r)
Kept(r) == FirstText(r) /\ Remembered(r)

BookInv ==
    /\ BookTyped /\ IdsInOrder /\ Unwritten /\ SeenIds /\ SeenPack
    /\ \A r \in RuleId : Kept(r)

\* Requests end, or are where they were.
OnlyEnds ==
    /\ DOMAIN editPc' = Request /\ editSeen' \in [Request -> Reading]
    /\ \A q \in Request : \/ editPc'[q] = editPc[q] /\ editSeen'[q] = editSeen[q]
                          \/ editPc'[q] = "idle"

LEMMA BookStarts ==
  ASSUME RuleBookBounds, BookInit
  PROVE  BookInv
<1>1. Unused \in RuleRow /\ Nothing \in Reading
  BY DEF RuleBookBounds, Unused, Nothing, RuleRow, Reading, Text, NoText
<1>2. BookTyped
  BY <1>1 DEF BookInit, BookTyped, RuleBookBounds
<1>3. IdsInOrder
  <2>1. 0 \in 0 .. MaxRule /\ \A r \in RuleId : ~(r <= 0) /\ ~rules[r].used
    BY DEF RuleBookBounds, BookInit, RuleId, Unused
  <2> QED
    BY <2>1 DEF IdsInOrder
<1>4. Unwritten /\ SeenIds /\ SeenPack
  BY DEF BookInit, Unwritten, SeenIds, SeenPack, There, Unused
<1>5. \A r \in RuleId : Kept(r)
  BY DEF BookInit, Kept, FirstText, Remembered, There, Unused
<1> QED
  BY <1>2, <1>3, <1>4, <1>5 DEF BookInv

\* An INSERT takes the next id.
LEMMA NextId ==
  ASSUME RuleBookBounds, BookTyped, IdsInOrder
  PROVE  /\ NewId \in Nat
         /\ \A r \in RuleId : rules[r].used <=> r < NewId
<1>1. PICK n \in 0 .. MaxRule : \A r \in RuleId : rules[r].used <=> r <= n
  BY DEF IdsInOrder
<1>2. {r \in RuleId : rules[r].used} = 1 .. n
  BY <1>1 DEF RuleId, RuleBookBounds
<1>3. Cardinality(1 .. n) = n
  BY <1>1, FS_Interval
<1>4. NewId = n + 1
  BY <1>2, <1>3 DEF NewId
<1> QED
  BY <1>1, <1>4 DEF RuleId, RuleBookBounds

LEMMA InsertKeeps ==
  ASSUME RuleBookBounds, BookInv, NEW text \in Text, NEW default \in Text,
         NEW sigma \in BOOLEAN,
         Insert(text, default, sigma), UNCHANGED history,
         \/ UNCHANGED penned
         \/ Pen(NewId, text) /\ ~sigma,
         OnlyEnds, released' \in 1 .. MaxRelease, edits' \in 0 .. MaxEdit
  PROVE  BookInv'
<1> DEFINE row == [Unused EXCEPT !.there = TRUE, !.used = TRUE, !.text = text,
                                 !.default = default, !.sigma = sigma]
<1>1. PICK i \in RuleId : i = NewId /\ rules' = [rules EXCEPT ![i] = row]
  BY DEF Insert
<1>2. row \in RuleRow /\ row.there /\ row.used /\ row.text = text /\ row.sigma = sigma
  <2>1. NoText \in Text
    BY DEF Text, NoText, RuleBookBounds
  <2> QED
    BY <2>1 DEF RuleRow, Unused
<1> HIDE DEF row
<1>3. i \in Nat /\ \A r \in RuleId : rules[r].used <=> r < i
  BY <1>1, NextId DEF BookInv
<1>4. /\ rules'[i] = row /\ \A r \in RuleId \ {i} : rules'[r] = rules[r]
      /\ rules' \in [RuleId -> RuleRow]
  BY <1>1, <1>2 DEF BookInv, BookTyped
<1>5. ~rules[i].used /\ penned[i] = {} /\ history[i] = {}
  BY <1>1, <1>3 DEF BookInv, Unwritten
<1>6. /\ DOMAIN penned' = RuleId /\ \A r \in RuleId \ {i} : penned'[r] = penned[r]
      /\ penned'[i] = {} \/ (penned'[i] = {text} /\ ~sigma)
  BY <1>1, <1>5 DEF Pen, BookInv, BookTyped
<1>7. BookTyped'
  BY <1>4, <1>6 DEF BookInv, BookTyped, OnlyEnds
<1>8. IdsInOrder'
  <2>1. i \in 0 .. MaxRule /\ \A r \in RuleId : rules'[r].used <=> r <= i
    BY <1>1, <1>2, <1>3, <1>4 DEF RuleId, RuleBookBounds
  <2> QED
    BY <2>1 DEF IdsInOrder
<1>9. Unwritten'
  BY <1>2, <1>4, <1>6 DEF BookInv, Unwritten, There
<1>10. \A q \in Request : editPc'[q] \in {"edit", "revert", "clone", "import"} =>
          editPc'[q] = editPc[q] /\ editSeen'[q] = editSeen[q] /\ editSeen[q].rule # i
  BY <1>5, <1>1 DEF BookInv, SeenIds, RuleId, RuleBookBounds, OnlyEnds
<1>11. SeenIds' /\ SeenPack'
  <2>1. \A q \in Request : editSeen[q].rule # 0 => editSeen[q].rule \in RuleId
    BY DEF BookInv, BookTyped, Reading, RuleId, RuleBookBounds
  <2> QED
    BY <1>4, <1>10, <2>1 DEF BookInv, SeenIds, SeenPack, There
<1>12. ASSUME NEW r \in RuleId \ {i}
       PROVE  Kept(r)'
  BY <1>4, <1>6, <1>10 DEF BookInv, Kept, FirstText, Remembered, There, Past
<1>13. Kept(i)'
  <2>1. Remembered(i)'
    BY <1>2, <1>4, <1>6 DEF Remembered
  <2>2. FirstText(i)'
    BY <1>2, <1>4, <1>6, <1>10 DEF FirstText
  <2> QED
    BY <2>1, <2>2 DEF Kept
<1>14. \A r \in RuleId : Kept(r)'
  BY <1>12, <1>13
<1> QED
  BY <1>7, <1>8, <1>9, <1>11, <1>14 DEF BookInv

LEMMA DoneEnds ==
  ASSUME RuleBookBounds, BookInv, NEW q \in Request, Done(q)
  PROVE  OnlyEnds
<1>1. Nothing \in Reading
  BY DEF RuleBookBounds, Nothing, Reading, Text, NoText
<1> QED
  BY <1>1 DEF Done, RequestAt, BookInv, BookTyped, OnlyEnds

\* One row gets another text, be it there: what is to be shown is about its rule only.
LEMMA TextKeeps ==
  ASSUME RuleBookBounds, BookInv, OnlyEnds, NEW r \in RuleId, NEW row \in RuleRow,
         rules[r].used,
         Update(r, row), row.there = rules[r].there, row.used = rules[r].used,
         row.sigma = rules[r].sigma,
         DOMAIN history' = RuleId, DOMAIN penned' = RuleId,
         \A x \in RuleId \ {r} : history'[x] = history[x] /\ penned'[x] = penned[x],
         released' \in 1 .. MaxRelease, edits' \in 0 .. MaxEdit,
         Kept(r)'
  PROVE  BookInv'
<1>1. /\ rules' \in [RuleId -> RuleRow]
      /\ \A x \in RuleId \ {r} : rules'[x] = rules[x]
      /\ \A x \in RuleId : /\ rules'[x].used = rules[x].used /\ rules'[x].there = rules[x].there
                           /\ rules'[x].sigma = rules[x].sigma
  BY DEF Update, BookInv, BookTyped
<1>2. BookTyped'
  BY <1>1 DEF BookInv, BookTyped, OnlyEnds
<1>3. IdsInOrder' /\ Unwritten'
  BY <1>1 DEF BookInv, IdsInOrder, Unwritten, There
<1>4. \A q \in Request : editSeen[q].rule # 0 => editSeen[q].rule \in RuleId
  BY DEF BookInv, BookTyped, Reading, RuleId, RuleBookBounds
<1>5. SeenIds' /\ SeenPack'
  BY <1>1, <1>4 DEF BookInv, SeenIds, SeenPack, There, OnlyEnds
<1>6. \A x \in RuleId \ {r} : Kept(x)'
  BY <1>1 DEF BookInv, Kept, FirstText, Remembered, There, Past, OnlyEnds
<1> QED
  BY <1>2, <1>3, <1>5, <1>6 DEF BookInv

\* An edit or a revert: the text that goes is in the history, be it as the text that
\* the request has read or because somebody else has changed the rule since.
LEMMA EditKeeps ==
  ASSUME RuleBookBounds, BookInv, NEW q \in Request, Edit(q) \/ Revert(q)
  PROVE  BookInv'
<1>1. PICK r \in RuleId : r = editSeen[q].rule /\ rules[r].used
  BY DEF Edit, Revert, BookInv, BookTyped, SeenIds, Reading, RuleId, RuleBookBounds
<1>2. PICK new \in Text :
        /\ history' = [history EXCEPT ![r] = @ \cup {[old |-> editSeen[q].text, new |-> new]}]
        /\ Update(r, [rules[r] EXCEPT !.text = new])
        /\ Pen(r, new) \/ UNCHANGED penned
  <2>1. edits < MaxEdit => NewText \in Text
    BY DEF NewText, Text, BookInv, BookTyped, RuleBookBounds
  <2>2. editSeen[q].default \in Text
    BY DEF BookInv, BookTyped, Reading
  <2> QED
    BY <1>1, <2>1, <2>2 DEF Edit, Revert, LogEdit, Logged
<1>3. /\ editPc[q] \in {"edit", "revert"} /\ Done(q) /\ OnlyEnds
      /\ released' \in 1 .. MaxRelease /\ edits' \in 0 .. MaxEdit
  BY DoneEnds DEF Edit, Revert, BookInv, BookTyped, RuleBookBounds
<1> DEFINE old == editSeen[q].text
<1>4. history' = [history EXCEPT ![r] = history[r] \cup {[old |-> old, new |-> new]}]
  BY <1>2
<1>5. /\ DOMAIN penned' = RuleId /\ penned'[r] \subseteq penned[r] \cup {new}
      /\ \A x \in RuleId \ {r} : history'[x] = history[x] /\ penned'[x] = penned[x]
  <2>1. CASE Pen(r, new)
    BY <1>1, <1>4, <2>1 DEF Pen, BookInv, BookTyped
  <2>2. CASE UNCHANGED penned
    BY <1>1, <1>4, <2>2 DEF BookInv, BookTyped
  <2> QED
    BY <1>2, <2>1, <2>2
<1>9. Past(r) \cup {old, new} \subseteq Past(r)'
  <2>1. history'[r] = history[r] \cup {[old |-> old, new |-> new]}
    BY <1>1, <1>4 DEF BookInv, BookTyped
  <2>2. [old |-> old, new |-> new].old = old /\ [old |-> old, new |-> new].new = new
    OBVIOUS
  <2> QED
    BY <2>1, <2>2 DEF Past
<1>6. There(r) => rules'[r].text = new
  BY <1>1, <1>2 DEF Update, There, BookInv, BookTyped, RuleRow
<1>7. Kept(r)'
  <2>1. Kept(r)
    BY DEF BookInv
  <2>2. There(r)' <=> There(r)
    BY <1>1, <1>2 DEF Update, There, BookInv, BookTyped, RuleRow
  <2>3. There(r) /\ rules[r].text \in penned[r] => rules[r].text \in Past(r)'
    BY <1>1, <1>3, <1>9, <2>1 DEF Kept, FirstText
  <2>4. There(r) => penned'[r] \subseteq Past(r)'
    BY <1>5, <1>9, <2>1, <2>3 DEF Kept, Remembered
  <2>5. Remembered(r)'
    BY <2>2, <2>4 DEF Remembered
  <2>6. FirstText(r)'
    BY <1>9, <1>6, <2>2 DEF FirstText
  <2> QED
    BY <2>5, <2>6 DEF Kept
<1>8. [rules[r] EXCEPT !.text = new] \in RuleRow
  BY DEF BookInv, BookTyped, RuleRow
<1> QED
  BY <1>1, <1>2, <1>3, <1>4, <1>5, <1>7, <1>8, TextKeeps DEF BookInv, BookTyped, RuleRow

LEMMA WriteKeeps ==
  ASSUME RuleBookBounds, BookInv, Create \/ \E q \in Request : Clone(q)
  PROVE  BookInv'
<1>1. NoText \in Text /\ (edits < MaxEdit => NewText \in Text)
  BY DEF NoText, NewText, Text, BookInv, BookTyped, RuleBookBounds
<1>2. CASE Create
  <2>1. OnlyEnds /\ released' \in 1 .. MaxRelease /\ edits' \in 0 .. MaxEdit
    BY <1>2 DEF Create, OnlyEnds, BookInv, BookTyped, RuleBookBounds
  <2> QED
    BY <1>1, <1>2, <2>1, InsertKeeps DEF Create
<1>3. CASE \E q \in Request : Clone(q)
  <2>1. PICK q \in Request : Clone(q)
    BY <1>3
  <2>2. editSeen[q].text \in Text
    BY DEF BookInv, BookTyped, Reading
  <2>3. OnlyEnds /\ released' \in 1 .. MaxRelease /\ edits' \in 0 .. MaxEdit
    BY <2>1, DoneEnds DEF Clone, BookInv, BookTyped
  <2> QED
    BY <1>1, <2>1, <2>2, <2>3, InsertKeeps DEF Clone
<1> QED
  BY <1>2, <1>3

LEMMA DeleteKeeps ==
  ASSUME RuleBookBounds, BookInv, NEW r \in RuleId, DeleteRule(r)
  PROVE  BookInv'
<1> DEFINE row == [Unused EXCEPT !.used = TRUE]
<1>1. row \in RuleRow /\ ~row.there /\ row.used
  <2>1. NoText \in Text
    BY DEF NoText, Text, RuleBookBounds
  <2> QED
    BY <2>1 DEF Unused, RuleRow
<1> HIDE DEF row
<1>2. /\ rules' \in [RuleId -> RuleRow] /\ rules'[r] = row
      /\ \A x \in RuleId \ {r} : rules'[x] = rules[x] /\ history'[x] = history[x]
                                 /\ penned'[x] = penned[x]
      /\ DOMAIN history' = RuleId /\ DOMAIN penned' = RuleId
      /\ UNCHANGED <<released, edits, editPc, editSeen>>
  BY <1>1 DEF DeleteRule, BookInv, BookTyped, row
<1>3. BookTyped'
  BY <1>2 DEF BookInv, BookTyped
<1>4. rules[r].used
  BY DEF DeleteRule, BookInv, Unwritten
<1>5. \A x \in RuleId : rules'[x].used <=> rules[x].used
  BY <1>1, <1>2, <1>4 DEF BookInv, BookTyped, RuleRow
<1>6. IdsInOrder' /\ Unwritten'
  BY <1>1, <1>2, <1>5 DEF BookInv, IdsInOrder, Unwritten, There
<1>7. \A q \in Request : editSeen[q].rule # 0 => editSeen[q].rule \in RuleId
  BY DEF BookInv, BookTyped, Reading, RuleId, RuleBookBounds
<1>8. SeenIds' /\ SeenPack'
  BY <1>1, <1>2, <1>5, <1>7 DEF BookInv, SeenIds, SeenPack, There
<1>9. ASSUME NEW x \in RuleId
      PROVE  Kept(x)'
  BY <1>1, <1>2 DEF BookInv, Kept, FirstText, Remembered, There, Past
<1> QED
  BY <1>3, <1>6, <1>8, <1>9 DEF BookInv

LEMMA TuneKeeps ==
  ASSUME RuleBookBounds, BookInv, NEW R \in SUBSET RuleId, Tune(R)
  PROVE  BookInv'
<1>1. /\ rules' \in [RuleId -> RuleRow]
      /\ \A x \in RuleId : /\ rules'[x].used = rules[x].used /\ rules'[x].there = rules[x].there
                           /\ rules'[x].sigma = rules[x].sigma /\ rules'[x].text = rules[x].text
      /\ UNCHANGED <<history, released, edits, editPc, editSeen, penned>>
  BY DEF Tune, There, BookInv, BookTyped, RuleRow
<1>2. \A q \in Request : editSeen[q].rule # 0 => editSeen[q].rule \in RuleId
  BY DEF BookInv, BookTyped, Reading, RuleId, RuleBookBounds
<1>3. BookTyped' /\ IdsInOrder' /\ Unwritten' /\ SeenIds' /\ SeenPack'
  BY <1>1, <1>2 DEF BookInv, BookTyped, IdsInOrder, Unwritten, SeenIds, SeenPack, There
<1>4. ASSUME NEW x \in RuleId
      PROVE  Kept(x)'
  BY <1>1 DEF BookInv, Kept, FirstText, Remembered, There, Past
<1> QED
  BY <1>3, <1>4 DEF BookInv

\* What a request may hold when it has looked.
Held(x) ==
    /\ x \in Reading
    /\ x.rule # 0 => rules[x.rule].used /\ (There(x.rule) => rules[x.rule].sigma)

LEMMA ExistingHeld ==
  ASSUME RuleBookBounds, BookInv, NEW file \in Text
  PROVE  Held(Existing(file)) /\ Existing(file).file = file
<1>1. NoText \in Text
  BY DEF NoText, Text, RuleBookBounds
<1>2. CASE \E r \in RuleId : There(r) /\ rules[r].sigma
  <2> DEFINE r == CHOOSE x \in RuleId : There(x) /\ rules[x].sigma
  <2>1. r \in RuleId /\ There(r) /\ rules[r].sigma
    BY <1>2
  <2> HIDE DEF r
  <2>2. rules[r].used /\ rules[r] \in RuleRow
    BY <2>1 DEF BookInv, Unwritten, BookTyped
  <2>3. Existing(file) = [rule |-> r, text |-> rules[r].text, default |-> rules[r].default,
                          file |-> file]
    BY <1>2 DEF Existing, r
  <2> QED
    BY <2>1, <2>2, <2>3 DEF Held, Reading, RuleRow, RuleId, RuleBookBounds
<1>3. CASE ~\E r \in RuleId : There(r) /\ rules[r].sigma
  BY <1>1, <1>3 DEF Existing, Nothing, Held, Reading, RuleBookBounds
<1> QED
  BY <1>2, <1>3

LEMMA ReadKeeps ==
  ASSUME RuleBookBounds, BookInv, NEW q \in Request,
         \/ \E r \in RuleId, what \in {"edit", "revert", "clone"} : Look(q, r, what)
         \/ Download(q) \/ ImportLook(q)
  PROVE  BookInv'
<1>1. UNCHANGED <<rules, history, released, edits, penned>>
  BY DEF Look, Download, ImportLook
<1>2. /\ editPc' = [editPc EXCEPT ![q] = editPc'[q]]
      /\ editSeen' = [editSeen EXCEPT ![q] = editSeen'[q]]
      /\ editSeen'[q] \in Reading
      /\ \/ /\ editPc'[q] \in {"edit", "revert", "clone"} /\ editSeen'[q].rule \in RuleId
            /\ There(editSeen'[q].rule) /\ editSeen'[q].text = rules[editSeen'[q].rule].text
         \/ editPc'[q] = "file"
         \/ editPc'[q] = "import" /\ Held(editSeen'[q])
  <2>1. CASE \E r \in RuleId, what \in {"edit", "revert", "clone"} : Look(q, r, what)
    <3>1. PICK r \in RuleId, what \in {"edit", "revert", "clone"} : Look(q, r, what)
      BY <2>1
    <3>2. rules[r] \in RuleRow /\ NoText \in Text /\ r \in 0 .. MaxRule
      BY DEF BookInv, BookTyped, NoText, Text, RuleId, RuleBookBounds
    <3>3. /\ editSeen'[q].rule = r /\ editSeen'[q].text = rules[r].text
          /\ editSeen'[q] \in Reading /\ editPc'[q] = what
      BY <3>1, <3>2 DEF Look, RequestAt, BookInv, BookTyped, Nothing, Reading, RuleRow
    <3> QED
      BY <3>1, <3>3 DEF Look, RequestAt, BookInv, BookTyped
  <2>2. CASE Download(q)
    <3>1. [Nothing EXCEPT !.file = released] \in Reading
      BY DEF Nothing, Reading, BookInv, BookTyped, NoText, Text, RuleBookBounds
    <3> QED
      BY <2>2, <3>1 DEF Download, RequestAt, BookInv, BookTyped
  <2>3. CASE ImportLook(q)
    <3>1. editSeen[q].file \in Text
      BY DEF BookInv, BookTyped, Reading
    <3>2. Held(Existing(editSeen[q].file))
      BY <3>1, ExistingHeld
    <3> QED
      BY <2>3, <3>2 DEF ImportLook, RequestAt, BookInv, BookTyped, Held
  <2> QED
    BY <2>1, <2>2, <2>3
<1>3. \A p \in Request \ {q} : editPc'[p] = editPc[p] /\ editSeen'[p] = editSeen[p]
  BY <1>2 DEF BookInv, BookTyped
<1>4. BookTyped'
  BY <1>1, <1>2 DEF BookInv, BookTyped
<1>5. IdsInOrder' /\ Unwritten'
  BY <1>1 DEF BookInv, IdsInOrder, Unwritten, There
<1>6. There(editSeen'[q].rule) /\ editSeen'[q].rule \in RuleId => rules[editSeen'[q].rule].used
  BY DEF BookInv, Unwritten
<1>7. SeenIds' /\ SeenPack'
  <2>1. 0 \notin RuleId
    BY DEF RuleId, RuleBookBounds
  <2> QED
    BY <1>1, <1>2, <1>3, <1>6, <2>1 DEF BookInv, SeenIds, SeenPack, There, Held
<1>8. ASSUME NEW r \in RuleId
      PROVE  Kept(r)'
  BY <1>1, <1>2, <1>3 DEF BookInv, Kept, FirstText, Remembered, There, Past
<1> QED
  BY <1>4, <1>5, <1>7, <1>8 DEF BookInv

\* An import changes the text of a rule of the pack only, and whatever was written
\* into that one by hand has been through the history.
LEMMA IngestKeeps ==
  ASSUME RuleBookBounds, BookInv, NEW q \in Request, ImportWithin(q) \/ ImportFirst(q)
  PROVE  BookInv'
<1>1. PICK seen \in Reading : Held(seen) /\ IngestRule(seen)
  <2>1. CASE ImportWithin(q)
    <3>1. editSeen[q].file \in Text
      BY DEF BookInv, BookTyped, Reading
    <3> QED
      BY <2>1, <3>1, ExistingHeld DEF ImportWithin, Held
  <2>2. CASE ImportFirst(q)
    BY <2>2 DEF ImportFirst, Held, BookInv, BookTyped, SeenIds, SeenPack
  <2> QED
    BY <2>1, <2>2
<1>2. /\ UNCHANGED <<history, penned, released, edits>> /\ OnlyEnds
      /\ released' \in 1 .. MaxRelease /\ edits' \in 0 .. MaxEdit
  BY DoneEnds DEF ImportWithin, ImportFirst, BookInv, BookTyped
<1>3. CASE seen.rule = 0
  BY <1>1, <1>2, <1>3, InsertKeeps DEF IngestRule, Reading
<1>4. CASE seen.rule # 0
  <2> DEFINE r == seen.rule
  <2>1. r \in RuleId /\ rules[r].used /\ (There(r) => rules[r].sigma) /\ rules[r] \in RuleRow
    BY <1>1, <1>4 DEF Held, Reading, RuleId, RuleBookBounds, BookInv, BookTyped
  <2>2. Kept(r)
    BY <2>1 DEF BookInv
  <2>3. There(r) => rules[r].text \notin penned[r] \ Past(r)
    BY <2>1, <2>2 DEF Kept, FirstText
  <2>4. There(r) => penned[r] \subseteq {rules[r].text} \cup Past(r)
    BY <2>2 DEF Kept, Remembered
  <2>5. There(r) => penned[r] \subseteq Past(r)
    BY <2>3, <2>4
  <2>6. Past(r)' = Past(r) /\ penned'[r] = penned[r]
    BY <1>2 DEF Past
  <2>7. CASE UNCHANGED rules
    <3>1. There(r)' <=> There(r)
      BY <2>7 DEF There
    <3>2. Kept(r)'
      BY <2>5, <2>6, <3>1 DEF Kept, FirstText, Remembered
    <3>3. Update(r, rules[r])
      BY <2>1, <2>7 DEF Update, BookInv, BookTyped
    <3> QED
      BY <1>2, <2>1, <3>2, <3>3, TextKeeps DEF BookInv, BookTyped
  <2>8. ASSUME NEW row \in RuleRow, Update(r, row), row.there = rules[r].there,
               row.used = rules[r].used, row.sigma = rules[r].sigma
        PROVE  BookInv'
    <3>1. There(r)' <=> There(r)
      BY <2>1, <2>8 DEF There, Update, BookInv, BookTyped
    <3>2. Kept(r)'
      BY <2>5, <2>6, <3>1 DEF Kept, FirstText, Remembered
    <3> QED
      BY <1>2, <2>1, <2>8, <3>2, TextKeeps DEF BookInv, BookTyped
  <2>9. \/ UNCHANGED rules
        \/ Update(r, [rules[r] EXCEPT !.upstream = seen.file])
        \/ Update(r, [rules[r] EXCEPT !.text = seen.file, !.default = seen.file])
    BY <1>1, <1>4 DEF IngestRule
  <2>10. seen.file \in Text
    BY DEF Reading
  <2>11. CASE Update(r, [rules[r] EXCEPT !.upstream = seen.file])
    BY <2>1, <2>8, <2>10, <2>11 DEF RuleRow
  <2>12. CASE Update(r, [rules[r] EXCEPT !.text = seen.file, !.default = seen.file])
    BY <2>1, <2>8, <2>10, <2>12 DEF RuleRow
  <2> QED
    BY <2>7, <2>9, <2>11, <2>12
<1> QED
  BY <1>3, <1>4

\* A release, a request that is cut off, or no step of the rule book.
LEMMA RestKeeps ==
  ASSUME RuleBookBounds, BookInv,
         Publish \/ (\E q \in Request : RequestDies(q)) \/ UNCHANGED rulesVars
  PROVE  BookInv'
<1>1. UNCHANGED <<rules, history, edits, penned>> /\ released' \in 1 .. MaxRelease
  BY DEF Publish, RequestDies, rulesVars, BookInv, BookTyped, RuleBookBounds
<1>2. OnlyEnds
  <2>1. CASE \E q \in Request : RequestDies(q)
    BY <2>1, DoneEnds DEF RequestDies
  <2>2. CASE Publish \/ UNCHANGED rulesVars
    BY <2>2 DEF Publish, rulesVars, OnlyEnds, BookInv, BookTyped
  <2> QED
    BY <2>1, <2>2
<1>3. BookTyped' /\ IdsInOrder' /\ Unwritten' /\ SeenIds' /\ SeenPack'
  BY <1>1, <1>2 DEF BookInv, BookTyped, IdsInOrder, Unwritten, SeenIds, SeenPack, There,
                    OnlyEnds
<1>4. ASSUME NEW r \in RuleId
      PROVE  Kept(r)'
  BY <1>1, <1>2 DEF BookInv, Kept, FirstText, Remembered, There, Past, OnlyEnds
<1> QED
  BY <1>3, <1>4 DEF BookInv

\* What somebody wrote into a rule is its text or in its history as long as the rule is
\* there (EditsRemembered): for any number of requests that read a rule, wait, and edit,
\* revert, copy or import it over one another (app.py's api_rule_detail, api_rule_revert,
\* api_rule_clone, api_rules_import).
THEOREM EditsAreRemembered ==
  ASSUME RuleBookBounds
  PROVE  BookSpec => []EditsRemembered
<1>1. BookInit => BookInv
  BY BookStarts
<1>2. BookInv /\ [BookNext]_rulesVars => BookInv'
  BY WriteKeeps, DeleteKeeps, TuneKeeps, ReadKeeps, EditKeeps, IngestKeeps, RestKeeps
     DEF BookNext
<1>3. BookInv => EditsRemembered
  BY DEF BookInv, Kept, Remembered, Past, EditsRemembered
<1> QED
  BY <1>1, <1>2, <1>3, PTL DEF BookSpec

-----------------------------------------------------------------------------
(* The runs of a playbook.  Until its request commits, a run's record and its   *)
(* rows are the request's own; they go on record together or not at all.        *)

\* What the results of some runs say was done is among the rows and calls in done.
Whole(report, done) ==
    \A k \in report : \A n \in DOMAIN k.results :
        k.results[n] \in {"done", "queued"} => <<k.id, n>> \in done
Evidence(s) == runRows \cup sent \cup tx[s].rows

Transaction ==
    [runs : SUBSET [id : Nat, results : Seq(Results)], rows : SUBSET (Nat \X Nat)]
RunTyped ==
    /\ tx \in [Sweep -> Transaction]
    /\ results \in [Sweep -> Seq(Results)] /\ run \in [Sweep -> Nat]
    /\ DOMAIN runPc = Sweep /\ begun \in Nat
OnRecord == Whole(runs, runRows \cup sent)
OnRecordSoon == \A s \in Sweep : Whole(tx[s].runs, Evidence(s))
SoFar ==
    \A s \in Sweep : \A n \in DOMAIN results[s] :
        results[s][n] \in {"done", "queued"} => <<run[s], n>> \in Evidence(s)
\* A row not committed belongs to a run that goes on record with it.
RowsOwned ==
    \A s \in Sweep : \A x \in tx[s].rows :
        (\E k \in tx[s].runs : k.id = x[1]) \/ (runPc[s] = "act" /\ x[1] = run[s])
RowsTold == actions # <<>> => \A x \in runRows : \E k \in runs : k.id = x[1]
RunInv == RunTyped /\ OnRecord /\ OnRecordSoon /\ SoFar /\ RowsOwned /\ RowsTold

LEMMA RunsStart ==
  ASSUME RunsInit
  PROVE  RunInv
<1>1. RunTyped
  <2>1. Empty \in Transaction /\ <<>> \in Seq(Results)
    BY DEF Empty, Transaction
  <2> QED
    BY <2>1 DEF RunsInit, RunTyped
<1>2. OnRecord /\ OnRecordSoon /\ SoFar /\ RowsOwned /\ RowsTold
  BY DEF RunsInit, OnRecord, OnRecordSoon, SoFar, RowsOwned, RowsTold, Whole, Empty
<1> QED
  BY <1>1, <1>2 DEF RunInv

LEMMA WholeMore ==
  ASSUME NEW f, NEW done, NEW more, Whole(f, done), done \subseteq more
  PROVE  Whole(f, more)
BY DEF Whole

\* The clock and the facts; a playbook that is rewritten, switched or deleted.
LEMMA SwitchKeeps ==
  ASSUME RunInv, UNCHANGED <<begun, runRows, sent, runPc, run, results, tx>>,
         UNCHANGED runs \/ (actions' = <<>> /\ runs' = {}),
         actions' # <<>> => actions # <<>>
  PROVE  RunInv'
<1>1. RunTyped' /\ OnRecordSoon' /\ SoFar' /\ RowsOwned'
  BY DEF RunInv, RunTyped, OnRecordSoon, SoFar, RowsOwned, Evidence
<1>2. OnRecord'
  BY DEF RunInv, OnRecord, Whole
<1>3. RowsTold'
  BY DEF RunInv, RowsTold
<1> QED
  BY <1>1, <1>2, <1>3 DEF RunInv

LEMMA BeginKeeps ==
  ASSUME RunInv, NEW s \in Sweep, NextCase(s) \/ \E C, why : Take(s, C, why)
  PROVE  RunInv'
<1>1. /\ UNCHANGED <<actions, runs, runRows, sent, tx>>
      /\ \A z \in Sweep \ {s} : results'[z] = results[z] /\ run'[z] = run[z]
                                /\ runPc'[z] = runPc[z]
      /\ runPc[s] # "act"
      /\ \/ results'[s] = results[s] /\ run'[s] = run[s]
         \/ results'[s] = <<>>
      /\ RunTyped'
  <2>1. CASE \E C, why : Take(s, C, why)
    BY <2>1 DEF Take, RunAt, book, RunInv, RunTyped
  <2>2. CASE NextCase(s)
    BY <2>2 DEF NextCase, RunAt, book, RunInv, RunTyped
  <2> QED
    BY <2>1, <2>2
<1>2. OnRecord' /\ OnRecordSoon' /\ RowsTold' /\ \A z \in Sweep : Evidence(z)' = Evidence(z)
  BY <1>1 DEF RunInv, OnRecord, OnRecordSoon, RowsTold, Evidence
<1>3. SoFar'
  BY <1>1, <1>2 DEF RunInv, SoFar
<1>4. RowsOwned'
  BY <1>1 DEF RunInv, RowsOwned
<1> QED
  BY <1>1, <1>2, <1>3, <1>4 DEF RunInv

\* One action: what its result says was done has been sent, or is a row underway.
LEMMA ActKeeps ==
  ASSUME RunInv, NEW s \in Sweep, Act(s)
  PROVE  RunInv'
<1> DEFINE n == Len(results[s]) + 1
           here == <<run[s], n>>
<1>1. /\ UNCHANGED <<actions, begun, runs, runRows, runPc, run>> /\ runPc[s] = "act"
      /\ sent \subseteq sent'
  BY DEF Act, Commits, book
<1>2. /\ tx' = tx \/ tx' = [tx EXCEPT ![s].rows = tx[s].rows \cup {here}]
  BY DEF Act, Commits, RunInv, RunTyped
<1>3. PICK outcome \in Results :
        /\ results' = [results EXCEPT ![s] = Append(results[s], outcome)]
        /\ outcome \in {"done", "queued"} => here \in sent' \cup tx'[s].rows
  <2>1. \A o : Note(s, o) => results' = [results EXCEPT ![s] = Append(results[s], o)]
    BY DEF Note, RunInv, RunTyped
  <2>2. tx' = [tx EXCEPT ![s].rows = tx[s].rows \cup {here}] => here \in tx'[s].rows
    BY DEF RunInv, RunTyped
  <2>3. CASE itsActions[s][n].gated
    <3>1. Note(s, "queued") /\ tx' = [tx EXCEPT ![s].rows = tx[s].rows \cup {here}]
      BY <2>3 DEF Act, Commits, RunInv, RunTyped
    <3> QED
      BY <2>1, <2>2, <3>1 DEF Results
  <2>4. CASE ~itsActions[s][n].gated
    <3>1. PICK o \in Outcomes(itsActions[s][n].type, facts) :
            /\ Note(s, o)
            /\ \/ o = "done" /\ sent' = sent \cup {here}
               \/ /\ o \in {"done", "failed"}
                  /\ tx' = [tx EXCEPT ![s].rows = tx[s].rows \cup {here}]
               \/ o # "done"
      BY <2>4 DEF Act, Commits, RunInv, RunTyped
    <3>2. o \in {"done", "failed", "skipped"}
      BY DEF Outcomes
    <3> QED
      BY <2>1, <2>2, <3>1, <3>2 DEF Results
  <2> QED
    BY <2>3, <2>4
<1>4. /\ \A z \in Sweep \ {s} : tx'[z] = tx[z] /\ results'[z] = results[z]
      /\ \A z \in Sweep : tx'[z].runs = tx[z].runs /\ tx[z].rows \subseteq tx'[z].rows
      /\ tx'[s].rows \subseteq tx[s].rows \cup {here}
      /\ tx' \in [Sweep -> Transaction]
  <2>1. \A z \in Sweep \ {s} : results'[z] = results[z]
    BY <1>3 DEF RunInv, RunTyped
  <2>2. tx[s] \in Transaction /\ here \in Nat \X Nat
    BY DEF RunInv, RunTyped
  <2>3. [tx[s] EXCEPT !.rows = tx[s].rows \cup {here}] \in Transaction
    BY <2>2 DEF Transaction
  <2>4. CASE tx' = tx
    BY <2>1, <2>4 DEF RunInv, RunTyped
  <2>5. CASE tx' = [tx EXCEPT ![s].rows = tx[s].rows \cup {here}]
    <3>1. tx' = [tx EXCEPT ![s] = [tx[s] EXCEPT !.rows = tx[s].rows \cup {here}]]
      BY <2>5
    <3>2. /\ tx' \in [Sweep -> Transaction] /\ \A z \in Sweep \ {s} : tx'[z] = tx[z]
          /\ tx'[s] = [tx[s] EXCEPT !.rows = tx[s].rows \cup {here}]
      BY <2>3, <3>1 DEF RunInv, RunTyped
    <3> QED
      BY <2>1, <2>2, <3>2 DEF Transaction
  <2> QED
    BY <1>2, <2>4, <2>5
<1>5. RunTyped'
  <2>1. Append(results[s], outcome) \in Seq(Results)
    BY DEF RunInv, RunTyped
  <2> QED
    BY <1>1, <1>3, <1>4, <2>1 DEF RunInv, RunTyped
<1>6. \A z \in Sweep : Evidence(z) \subseteq Evidence(z)'
  BY <1>1, <1>4 DEF Evidence
<1>7. OnRecord'
  BY <1>1, WholeMore DEF RunInv, OnRecord
<1>8. OnRecordSoon'
  BY <1>4, <1>6, WholeMore DEF RunInv, OnRecordSoon
<1>9. SoFar'
  <2>1. ASSUME NEW z \in Sweep, NEW m \in DOMAIN results'[z],
               results'[z][m] \in {"done", "queued"}
        PROVE  <<run'[z], m>> \in Evidence(z)'
    <3>1. CASE m \in DOMAIN results[z] /\ results'[z][m] = results[z][m]
      BY <1>1, <1>6, <2>1, <3>1 DEF RunInv, SoFar
    <3>2. CASE ~(m \in DOMAIN results[z] /\ results'[z][m] = results[z][m])
      <4>1. z = s
        BY <1>4, <2>1, <3>2
      <4>2. results[s] \in Seq(Results) /\ results'[s] = Append(results[s], outcome)
        BY <1>3 DEF RunInv, RunTyped
      <4>3. m = n /\ results'[s][m] = outcome
        BY <2>1, <3>2, <4>1, <4>2
      <4> QED
        BY <1>1, <1>3, <2>1, <4>1, <4>3 DEF Evidence
    <3> QED
      BY <3>1, <3>2
  <2> QED
    BY <2>1 DEF SoFar
<1>10. RowsOwned'
  BY <1>1, <1>4 DEF RunInv, RowsOwned
<1>11. RowsTold'
  BY <1>1 DEF RunInv, RowsTold
<1> QED
  BY <1>5, <1>7, <1>8, <1>9, <1>10, <1>11 DEF RunInv

LEMMA RecordKeeps ==
  ASSUME RunInv, NEW s \in Sweep, Record(s)
  PROVE  RunInv'
<1> DEFINE this == [id |-> run[s], results |-> results[s]]
<1>1. /\ UNCHANGED <<actions, begun, runs, runRows, sent, run, results>>
      /\ tx' = [tx EXCEPT ![s].runs = tx[s].runs \cup {this}]
      /\ runPc' = [runPc EXCEPT ![s] = "case"]
  BY DEF Record, RunAt, book, RunInv, RunTyped
<1>2. this.id = run[s] /\ this.results = results[s]
  OBVIOUS
<1> HIDE DEF this
<1>3. /\ RunTyped' /\ \A z \in Sweep : tx'[z].rows = tx[z].rows
      /\ tx'[s].runs = tx[s].runs \cup {this}
      /\ \A z \in Sweep \ {s} : tx'[z].runs = tx[z].runs /\ runPc'[z] = runPc[z]
  <2>1. tx[s] \in Transaction /\ this \in [id : Nat, results : Seq(Results)]
    BY DEF RunInv, RunTyped, this
  <2>2. [tx[s] EXCEPT !.runs = tx[s].runs \cup {this}] \in Transaction
    BY <2>1 DEF Transaction
  <2>3. tx' = [tx EXCEPT ![s] = [tx[s] EXCEPT !.runs = tx[s].runs \cup {this}]]
    BY <1>1
  <2>4. /\ tx' \in [Sweep -> Transaction] /\ \A z \in Sweep \ {s} : tx'[z] = tx[z]
        /\ tx'[s] = [tx[s] EXCEPT !.runs = tx[s].runs \cup {this}]
    BY <2>2, <2>3 DEF RunInv, RunTyped
  <2> QED
    BY <1>1, <2>1, <2>4 DEF RunInv, RunTyped, Transaction
<1>4. \A z \in Sweep : Evidence(z)' = Evidence(z)
  BY <1>1, <1>3 DEF Evidence
<1>5. OnRecord' /\ SoFar' /\ RowsTold'
  BY <1>1, <1>4 DEF RunInv, OnRecord, SoFar, RowsTold
<1>6. OnRecordSoon'
  <2>1. Whole({this}, Evidence(s))
    BY <1>2 DEF RunInv, SoFar, Whole
  <2>2. Whole(tx'[s].runs, Evidence(s))
    BY <1>3, <2>1 DEF RunInv, OnRecordSoon, Whole
  <2> QED
    BY <1>3, <1>4, <2>2 DEF RunInv, OnRecordSoon
<1>7. RowsOwned'
  BY <1>1, <1>2, <1>3 DEF RunInv, RowsOwned
<1> QED
  BY <1>3, <1>5, <1>6, <1>7 DEF RunInv

\* The request ends: what it wrote is committed, or gone together.
LEMMA LeaveKeeps ==
  ASSUME RunInv, NEW s \in Sweep, Finish(s) \/ RunDies(s)
  PROVE  RunInv'
<1>1. /\ UNCHANGED <<actions, sent>> /\ RunTyped'
      /\ results'[s] = <<>> /\ tx'[s] = Empty
      /\ \A z \in Sweep \ {s} : /\ results'[z] = results[z] /\ run'[z] = run[z]
                                /\ tx'[z] = tx[z] /\ runPc'[z] = runPc[z]
  <2>1. Empty \in Transaction
    BY DEF Empty, Transaction
  <2>2. Leave(s) /\ UNCHANGED <<actions, begun, sent>>
    BY DEF Finish, RunDies, book
  <2> QED
    BY <2>1, <2>2 DEF Leave, RunAt, RunInv, RunTyped
<1>2. \/ /\ runs' = runs \cup tx[s].runs /\ runRows' = runRows \cup tx[s].rows
         /\ runPc[s] = "case"
      \/ runs' = runs /\ runRows' = runRows
  BY DEF Finish, RunDies
<1>3. runRows \subseteq runRows'
  BY <1>2
<1>4. OnRecord'
  <2>1. CASE runs' = runs /\ runRows' = runRows
    BY <1>1, <2>1 DEF RunInv, OnRecord
  <2>2. CASE runs' = runs \cup tx[s].runs /\ runRows' = runRows \cup tx[s].rows
    <3>1. Whole(tx[s].runs, runRows' \cup sent) /\ Whole(runs, runRows' \cup sent)
      BY <2>2, WholeMore DEF RunInv, OnRecord, OnRecordSoon, Evidence
    <3> QED
      BY <1>1, <2>2, <3>1 DEF OnRecord, Whole
  <2> QED
    BY <1>2, <2>1, <2>2
<1>5. \A z \in Sweep \ {s} : Evidence(z) \subseteq Evidence(z)'
  BY <1>1, <1>3 DEF Evidence
<1>6. OnRecordSoon' /\ SoFar' /\ RowsOwned'
  <2>1. \A z \in Sweep \ {s} : Whole(tx'[z].runs, Evidence(z)')
    BY <1>1, <1>5, WholeMore DEF RunInv, OnRecordSoon
  <2>2. Whole(tx'[s].runs, Evidence(s)')
    BY <1>1 DEF Empty, Whole
  <2>3. OnRecordSoon'
    BY <2>1, <2>2 DEF OnRecordSoon
  <2>4. SoFar'
    BY <1>1, <1>5 DEF RunInv, SoFar
  <2>5. RowsOwned'
    BY <1>1 DEF RunInv, RowsOwned, Empty
  <2> QED
    BY <2>3, <2>4, <2>5
<1>7. RowsTold'
  BY <1>1, <1>2 DEF RunInv, RowsTold, RowsOwned
<1> QED
  BY <1>1, <1>4, <1>6, <1>7 DEF RunInv

\* A run on record did what it says, and no row stands without the run that wrote it
\* (RunsAreWhole): for any requests, cases, lists of actions and facts, although requests
\* die and the playbook changes under them (app.py's _execute_playbook_actions).
THEOREM RunsAreOnRecord ==
  RunsSpec => []RunsAreWhole
<1>1. RunsInit => RunInv
  BY RunsStart
<1>2. ASSUME RunInv, [RunsNext]_runsVars
      PROVE  RunInv'
  <2>1. CASE UNCHANGED runsVars
    BY <1>2, <2>1, SwitchKeeps DEF runsVars, book
  <2>2. CASE \E l \in Lists : Rewrite(l)
    BY <1>2, <2>2, SwitchKeeps DEF Rewrite
  <2>3. CASE DeletePlaybook \/ Toggle \/ IntervalPasses \/ \E f \in Shaky : Change(f)
    BY <1>2, <2>3, SwitchKeeps DEF DeletePlaybook, Toggle, IntervalPasses, Change, book
  <2>4. CASE \E s \in Sweep : RunDue(s) \/ (\E c \in Case : ByHand(s, c)) \/ NextCase(s)
    BY <1>2, <2>4, BeginKeeps DEF RunDue, ByHand
  <2>5. CASE \E s \in Sweep : Act(s) \/ Record(s) \/ Finish(s) \/ RunDies(s)
    BY <1>2, <2>5, ActKeeps, RecordKeeps, LeaveKeeps
  <2> QED
    BY <1>2, <2>1, <2>2, <2>3, <2>4, <2>5 DEF RunsNext
<1>3. RunInv => RunsAreWhole
  BY DEF RunInv, OnRecord, RowsTold, Whole, RunsAreWhole
<1> QED
  BY <1>1, <1>2, <1>3, PTL DEF RunsSpec

-----------------------------------------------------------------------------
(* The scripts on the endpoints.  Each script has an outline: what holds of the *)
(* host once its first k commands have been passed, whichever of them failed.  *)

Open(lists) == \E a \in lists : a \cap Channel # {}
Shared(lists) == \E c \in Channel : \A a \in lists : c \in a

WindowsOutline(k, h) ==
    /\ k >= 9 => \A n \in WindowsBlocks : Has(h, n)
    /\ k >= 10 => Reaches(h) # {}
LinuxOutline(l, k, h) ==
    /\ k >= 7 => Has(h, "drop")
    /\ k >= 8 => Has(h, "in")
    /\ k >= 9 => Has(h, "out")
    /\ k >= 12 => Open(ListsOf(h, "accept")) /\ l # {}
    /\ k >= 13 => l \in ListsOf(h, "boot-list")
    /\ k >= 14 => Has(h, "unit")
    /\ k >= 15 => Has(h, "enabled")
MacOutline(l, k, h) ==
    /\ k >= 1 => ListsOf(h, "anchor-file") = {l}
    /\ k >= 2 => Has(h, "conf")
    /\ k >= 5 => Has(h, "pf")
    /\ k >= 6 => Has(h, "reference")
    /\ k >= 7 => Has(h, "rules")
    /\ k >= 8 => Shared(ListsOf(h, "rules")) /\ l # {}
    /\ k >= 9 => Has(h, "plist")
IsolateOutline(l, k, h) ==
    /\ platform = "windows" => WindowsOutline(k, h)
    /\ platform = "linux" => LinuxOutline(l, k, h)
    /\ platform = "macos" => MacOutline(l, k, h)
RestoreOutline(k, h) ==
    /\ platform = "windows" => /\ k >= 1 => ~Has(h, "default-block")
                               /\ k >= 3 => \A n \in WindowsRules : ~Has(h, n)
    /\ platform = "linux" => /\ k >= 7 => ~Has(h, "chain")
                             /\ k >= 8 => ~Has(h, "unit")
    /\ platform = "macos" => /\ k >= 6 => ~Has(h, "reference")
                             /\ k >= 7 => ~Has(h, "conf")
Outline(s, l, k, h) ==
    /\ s = "isolate_host" => IsolateOutline(l, k, h)
    /\ s = "restore_network" => RestoreOutline(k, h)
    /\ s = "block_ip" => /\ k >= 2 => Has(h, "block-ip-out")
                         /\ k >= 3 => Has(h, "block-ip-in")
    /\ s = "unblock_ip" /\ k >= 1 => ~Has(h, "block-ip-out") /\ ~Has(h, "block-ip-in")
    /\ s = "quarantine_file" => /\ k >= 3 => ~Has(h, "file")
                                /\ k >= 4 => Has(h, "manifest")

\* On Linux the rules are in the chain: without it there are none.
Chained(h) == platform = "linux" /\ Has(h, "drop") => Has(h, "chain")

\* What the (k + 1)-th command of a script does to its outline, whether it works,
\* fails, is answered, or ends the script with a warning.
Follows(c, s, l, k, h) ==
    /\ c.how \in {"must", "try", "want", "probe"}
    /\ c.how # "probe" /\ Can(c, h) =>
          Outline(s, l, k + 1, Effect(c, h)) /\ Chained(Effect(c, h))
    /\ c.how = "try" => Outline(s, l, k + 1, h)
    /\ c.how = "probe" /\ l \cap Reaches(h) # {} => Outline(s, l, k + 1, h)
    /\ c.how = "want" => Contained(h) /\ Reaches(h) # {}



\* What a command leaves that loads no ruleset.
LEMMA Leaves ==
  ASSUME NEW c, NEW h, c.load = FALSE, NEW n
  PROVE  Has(Effect(c, h), n) <=> (Has(h, n) /\ n \notin c.del) \/ Has(c.add, n)
  BY DEF Has, Effect, Without

LEMMA LeavesLists ==
  ASSUME NEW c, NEW h, c.load = FALSE, NEW n, NEW a
  PROVE  a \in ListsOf(Effect(c, h), n) <=>
           (a \in ListsOf(h, n) /\ n \notin c.del) \/ a \in ListsOf(c.add, n)
  BY DEF ListsOf, Effect, Without

LEMMA IsolateWindowsFollows ==
  ASSUME platform = "windows", NEW l \in SUBSET Channel, NEW h,
         NEW k \in 0 .. Len(IsolateWindows(l)) - 1, Outline("isolate_host", l, k, h)
  PROVE  Follows(IsolateWindows(l)[k + 1], "isolate_host", l, k, h)
<1> DEFINE c == IsolateWindows(l)[k + 1]
<1>0. Len(IsolateWindows(l)) = 10
  BY DEF IsolateWindows
<1>1. CASE k \in 0 .. 7
  <2>1. c.how \in {"must", "try"}
    BY <1>1 DEF IsolateWindows, Must, Try, Cmd
  <2>2. \A g : Outline("isolate_host", l, k + 1, g) /\ Chained(g)
    BY <1>1 DEF Outline, IsolateOutline, WindowsOutline, Chained
  <2> QED
    BY <2>1, <2>2 DEF Follows
<1>2. CASE k = 8
  <2>1. c = Check(WindowsRules, {})
    BY <1>2 DEF IsolateWindows
  <2>2. /\ c.how = "must" /\ c.load = FALSE /\ c.del = {} /\ c.add = {}
        /\ c.need = WindowsRules
    BY <2>1 DEF Check, Must, Cmd
  <2>3. ASSUME Can(c, h)
        PROVE  Outline("isolate_host", l, k + 1, Effect(c, h)) /\ Chained(Effect(c, h))
    <3>1. \A n \in WindowsBlocks : Has(Effect(c, h), n)
      BY <2>2, <2>3, Leaves DEF Can, WindowsRules
    <3> QED
      BY <1>2, <3>1 DEF Outline, IsolateOutline, WindowsOutline, Chained
  <2> QED
    BY <2>2, <2>3 DEF Follows
<1>3. CASE k = 9
  <2>1. c.how = "probe"
    BY <1>3 DEF IsolateWindows, Probe, Cmd
  <2>2. l \cap Reaches(h) # {} => Outline("isolate_host", l, k + 1, h)
    BY <1>3 DEF Outline, IsolateOutline, WindowsOutline
  <2> QED
    BY <2>1, <2>2 DEF Follows
<1> QED
  BY <1>0, <1>1, <1>2, <1>3

\* A command keeps what it neither takes away nor makes.
LEMMA KeepsRest ==
  ASSUME NEW c, NEW h, c.load = FALSE, NEW n, n \notin c.del, ~Has(c.add, n)
  PROVE  /\ Has(Effect(c, h), n) <=> Has(h, n)
         /\ ListsOf(Effect(c, h), n) = ListsOf(h, n)
<1>1. Has(Effect(c, h), n) <=> Has(h, n)
  BY Leaves
<1>2. ListsOf(c.add, n) = {}
  BY DEF Has, ListsOf
<1>3. \A a : a \in ListsOf(Effect(c, h), n) <=> a \in ListsOf(h, n)
  BY <1>2, LeavesLists
<1>4. ListsOf(Effect(c, h), n) = ListsOf(h, n)
  BY <1>3
<1> QED
  BY <1>1, <1>4

\* What a set has with a fact that is new, and what an empty one.
LEMMA Makes ==
  ASSUME NEW S, NEW n
  PROVE  /\ The(n) \in S => Has(S, n)
         /\ S = {} => ~Has(S, n)
<1>1. The(n) \in S => Has(S, n)
  BY DEF The, Has
<1>2. S = {} => ~Has(S, n)
  BY DEF Has
<1> QED
  BY <1>1, <1>2

LEMMA MakesList ==
  ASSUME NEW S, NEW n, NEW l, With(n, l) \in S
  PROVE  l \in ListsOf(S, n)
  BY DEF With, ListsOf

\* The rules of the chain come after it, and go before it.
LEMMA KeepsChained ==
  ASSUME NEW c, NEW h, c.load = FALSE, Chained(h), Can(c, h),
         "chain" \in c.del => "drop" \in c.bar,
         Has(c.add, "drop") => "chain" \in c.need /\ "chain" \notin c.del
  PROVE  Chained(Effect(c, h))
  BY Leaves DEF Chained, Can

\* What a loaded ruleset leaves.
LEMMA LoadLeaves ==
  ASSUME NEW how, NEW h
  PROVE  LET g == Effect(Load(how), h) IN
         /\ Load(how).how = how
         /\ ListsOf(g, "anchor-file") = ListsOf(h, "anchor-file")
         /\ Has(g, "conf") <=> Has(h, "conf")
<1>1. Effect(Load(how), h) = Loaded(h)
  BY DEF Effect, Load, Cmd
<1>2. Load(how).how = how
  BY DEF Load, Cmd
<1>3. Has(Loaded(h), "conf") <=> Has(h, "conf")
  BY DEF Has, Loaded, Without, With, The
<1>4. ListsOf(Loaded(h), "anchor-file") = ListsOf(h, "anchor-file")
  BY DEF ListsOf, Loaded, Without, With, The
<1> QED
  BY <1>1, <1>2, <1>3, <1>4

LEMMA RestoreWindowsFollows ==
  ASSUME platform = "windows", NEW l, NEW h,
         NEW k \in 0 .. Len(RestoreWindows) - 1, Outline("restore_network", l, k, h)
  PROVE  Follows(RestoreWindows[k + 1], "restore_network", l, k, h)
<1> DEFINE c == RestoreWindows[k + 1]
<1>0. Len(RestoreWindows) = 3
  BY DEF RestoreWindows
<1>1. /\ c.load = FALSE /\ c.add = {} /\ c.how \in {"must", "try"}
      /\ c.how = "try" => k = 1
      /\ k = 0 => "default-block" \in c.del
      /\ k = 2 => c.bar = WindowsRules
  BY <1>0 DEF RestoreWindows, Must, Try, Check, Cmd
<1>2. k \in 0 .. 2
  BY <1>0
<1>3. ASSUME Can(c, h)
      PROVE  Outline("restore_network", l, k + 1, Effect(c, h)) /\ Chained(Effect(c, h))
  <2>1. \A n : Has(Effect(c, h), n) => Has(h, n) /\ n \notin c.del
    BY <1>1, Leaves DEF Has
  <2>2. ~Has(Effect(c, h), "default-block")
    BY <1>1, <1>2, <2>1 DEF Outline, RestoreOutline
  <2>3. k = 2 => \A n \in WindowsRules : ~Has(Effect(c, h), n)
    BY <1>1, <1>3, <2>1 DEF Can
  <2> QED
    BY <1>2, <2>2, <2>3 DEF Outline, RestoreOutline, Chained
<1>4. c.how = "try" => Outline("restore_network", l, k + 1, h)
  BY <1>1 DEF Outline, RestoreOutline
<1> QED
  BY <1>1, <1>3, <1>4 DEF Follows

LEMMA IsolateLinuxFollows ==
  ASSUME platform = "linux", NEW l \in SUBSET Channel, NEW h, Chained(h),
         NEW k \in 0 .. Len(IsolateLinux(l)) - 1, Outline("isolate_host", l, k, h)
  PROVE  Follows(IsolateLinux(l)[k + 1], "isolate_host", l, k, h)
<1> DEFINE c == IsolateLinux(l)[k + 1]
           g == Effect(c, h)
<1>0. Len(IsolateLinux(l)) = 15
  BY DEF IsolateLinux, Detach
<1>1. CASE k \in 0 .. 5
  <2>1. /\ c.how \in {"must", "try"} /\ c.load = FALSE
        /\ "chain" \in c.del => "drop" \in c.bar
        /\ ~Has(c.add, "drop")
    BY <1>1 DEF IsolateLinux, Detach, Must, Try, Cmd, Has, With, The
  <2>2. \A f : Outline("isolate_host", l, k + 1, f)
    BY <1>1 DEF Outline, IsolateOutline, LinuxOutline
  <2> QED
    BY <2>1, <2>2, KeepsChained DEF Follows
<1>2. CASE k \in 6 .. 10
  <2>1. /\ c.how = "must" /\ c.load = FALSE /\ c.del = {}
        /\ c.add = {} \/ "chain" \in c.need
        /\ k = 6 => The("drop") \in c.add
        /\ k = 7 => The("in") \in c.add
        /\ k = 8 => The("out") \in c.add
    BY <1>2 DEF IsolateLinux, Detach, Must, Check, Cmd
  <2>2. \A n : Has(h, n) \/ Has(c.add, n) => Has(g, n)
    BY <2>1, Leaves
  <2>3. Outline("isolate_host", l, k + 1, g)
    BY <1>2, <2>1, <2>2, Makes DEF Outline, IsolateOutline, LinuxOutline
  <2>4. Can(c, h) => Chained(g)
    <3>1. Has(c.add, "drop") => "chain" \in c.need
      BY <2>1, Makes
    <3> QED
      BY <2>1, <3>1, KeepsChained
  <2> QED
    BY <2>1, <2>3, <2>4 DEF Follows
<1>3. CASE k = 11
  <2>1. c.how = "probe"
    BY <1>3 DEF IsolateLinux, Detach, Probe, Cmd
  <2>2. ASSUME l \cap Reaches(h) # {}
        PROVE  Outline("isolate_host", l, k + 1, h)
    <3>1. ~Free(h)
      BY <1>3 DEF Outline, IsolateOutline, LinuxOutline, Free
    <3>2. PICK ch \in l : ch \in Reaches(h)
      BY <2>2
    <3>3. ch \in Channel /\ \E a \in ListsOf(h, "accept") : ch \in a
      BY <3>1, <3>2 DEF Reaches
    <3> QED
      BY <1>3, <3>2, <3>3 DEF Outline, IsolateOutline, LinuxOutline, Open
  <2> QED
    BY <2>1, <2>2 DEF Follows
<1>4. CASE k \in 12 .. 14
  <2>1. /\ c.how = "want" /\ c.load = FALSE
        /\ c.del \subseteq {"boot-list"} /\ (k # 12 => c.del = {})
        /\ \A f \in c.add : f[1] \in {"boot-list", "unit", "enabled"}
        /\ k = 12 => With("boot-list", l) \in c.add
        /\ k = 13 => The("unit") \in c.add
        /\ k = 14 => The("enabled") \in c.add
    BY <1>4 DEF IsolateLinux, Detach, Want, Cmd, With, The
  <2>2. \A n \in {"drop", "in", "out", "accept", "chain"} : n \notin c.del /\ ~Has(c.add, n)
    BY <2>1 DEF Has
  <2>3. \A n \in {"drop", "in", "out", "accept", "chain"} :
          (Has(g, n) <=> Has(h, n)) /\ ListsOf(g, n) = ListsOf(h, n)
    BY <2>1, <2>2, KeepsRest
  <2>4. l \in ListsOf(g, "boot-list")
    <3> HIDE DEF c
    <3>1. CASE k = 12
      <4>1. l \in ListsOf(c.add, "boot-list")
        BY <2>1, <3>1, MakesList
      <4>2. c.load = FALSE
        BY <2>1
      <4> QED
        BY <4>1, <4>2, LeavesLists
    <3>2. CASE k \in 13 .. 14
      <4>1. l \in ListsOf(h, "boot-list") /\ c.del = {} /\ c.load = FALSE
        BY <2>1, <3>2 DEF Outline, IsolateOutline, LinuxOutline
      <4> QED
        BY <4>1, LeavesLists
    <3> QED
      BY <1>4, <3>1, <3>2
  <2>5. /\ k = 13 => Has(g, "unit")
        /\ k = 14 => Has(g, "unit") /\ Has(g, "enabled")
    <3>1. k = 14 => Has(h, "unit")
      BY DEF Outline, IsolateOutline, LinuxOutline
    <3>2. k # 12 => \A n : Has(h, n) \/ Has(c.add, n) => Has(g, n)
      BY <2>1, Leaves
    <3> QED
      BY <2>1, <3>1, <3>2, Makes
  <2>6. Outline("isolate_host", l, k + 1, g)
    BY <1>4, <2>3, <2>4, <2>5 DEF Outline, IsolateOutline, LinuxOutline
  <2>7. Chained(g)
    BY <2>3 DEF Chained
  <2>8. Contained(h) /\ Reaches(h) # {}
    BY <1>4 DEF Outline, IsolateOutline, LinuxOutline, Open, Contained, Reaches
  <2> QED
    BY <2>1, <2>6, <2>7, <2>8 DEF Follows
<1> QED
  BY <1>0, <1>1, <1>2, <1>3, <1>4

LEMMA RestoreLinuxFollows ==
  ASSUME platform = "linux", NEW l, NEW h, Chained(h),
         NEW k \in 0 .. Len(RestoreLinux) - 1, Outline("restore_network", l, k, h)
  PROVE  Follows(RestoreLinux[k + 1], "restore_network", l, k, h)
<1> DEFINE c == RestoreLinux[k + 1]
<1>0. Len(RestoreLinux) = 8
  BY DEF RestoreLinux, Detach
<1>1. /\ c.load = FALSE /\ c.add = {} /\ c.how \in {"must", "try"}
      /\ c.how = "try" => k < 6
      /\ "chain" \in c.del => "drop" \in c.bar
      /\ k = 6 => "chain" \in c.bar
      /\ k = 7 => "unit" \in c.bar
  BY <1>0 DEF RestoreLinux, Detach, Must, Try, Check, Cmd
<1>2. k \in 0 .. 7
  BY <1>0
<1>3. ASSUME Can(c, h)
      PROVE  Outline("restore_network", l, k + 1, Effect(c, h)) /\ Chained(Effect(c, h))
  <2>1. \A n : Has(Effect(c, h), n) => Has(h, n)
    <3> HIDE DEF c
    <3> QED
      BY <1>1, Leaves, Makes
  <2>2. /\ k = 6 => ~Has(h, "chain")
        /\ k = 7 => ~Has(h, "chain") /\ ~Has(h, "unit")
    BY <1>1, <1>3 DEF Can, Outline, RestoreOutline
  <2>3. Outline("restore_network", l, k + 1, Effect(c, h))
    BY <1>2, <2>1, <2>2 DEF Outline, RestoreOutline
  <2>4. Chained(Effect(c, h))
    BY <1>1, <1>3, KeepsChained DEF Has
  <2> QED
    BY <2>3, <2>4
<1>4. c.how = "try" => Outline("restore_network", l, k + 1, h)
  BY <1>1 DEF Outline, RestoreOutline
<1> QED
  BY <1>1, <1>3, <1>4 DEF Follows

LEMMA IsolateMacFollows ==
  ASSUME platform = "macos", NEW l \in SUBSET Channel, NEW h,
         NEW k \in 0 .. Len(IsolateMac(l)) - 1, Outline("isolate_host", l, k, h)
  PROVE  Follows(IsolateMac(l)[k + 1], "isolate_host", l, k, h)
<1> DEFINE c == IsolateMac(l)[k + 1]
           g == Effect(c, h)
<1>0. Len(IsolateMac(l)) = 10
  BY DEF IsolateMac
<1>1. \A f : Chained(f)
  BY DEF Chained
<1>2. CASE k = 0
  <2>1. /\ c.how = "must" /\ c.load = FALSE /\ c.del = {"anchor-file"}
        /\ With("anchor-file", l) \in c.add /\ \A f \in c.add : f[2] = l
    BY <1>2 DEF IsolateMac, Must, Cmd, With
  <2>2. ListsOf(g, "anchor-file") = {l}
    <3>1. \A a : a \in ListsOf(g, "anchor-file") <=> a \in ListsOf(c.add, "anchor-file")
      BY <2>1, LeavesLists
    <3>2. l \in ListsOf(c.add, "anchor-file")
      BY <2>1, MakesList
    <3>3. \A a \in ListsOf(c.add, "anchor-file") : a = l
      BY <2>1 DEF ListsOf
    <3> QED
      BY <3>1, <3>2, <3>3
  <2>3. Outline("isolate_host", l, k + 1, g)
    BY <1>2, <2>2 DEF Outline, IsolateOutline, MacOutline
  <2> QED
    BY <1>1, <2>1, <2>3 DEF Follows
<1>3. CASE k \in {1, 3, 4, 5, 6}
  <2>1. /\ c.how \in {"must", "try"} /\ c.load = FALSE /\ c.del = {}
        /\ c.how = "try" => k = 3
        /\ k = 1 => The("conf") \in c.add
        /\ k = 3 => The("pf") \in c.add
        /\ \A f \in c.add : f[1] \in {"conf", "pf"}
        /\ k = 4 => "pf" \in c.need
        /\ k = 5 => "reference" \in c.need
        /\ k = 6 => "rules" \in c.need
    BY <1>3 DEF IsolateMac, Must, Try, Check, Cmd, The
  <2>2. ~Has(c.add, "anchor-file")
    BY <2>1 DEF Has
  <2>3. ListsOf(g, "anchor-file") = {l}
    <3>1. ListsOf(g, "anchor-file") = ListsOf(h, "anchor-file")
      <4>1. c.load = FALSE /\ "anchor-file" \notin c.del
        BY <2>1
      <4> HIDE DEF c
      <4> QED
        BY <2>2, <4>1, KeepsRest
    <3> QED
      BY <1>3, <3>1 DEF Outline, IsolateOutline, MacOutline
  <2>4. \A n : Has(h, n) \/ Has(c.add, n) => Has(g, n)
    BY <2>1, Leaves
  <2>5. k = 1 => Has(c.add, "conf")
    BY <2>1, Makes
  <2>6. Can(c, h) => Outline("isolate_host", l, k + 1, g)
    BY <1>3, <2>1, <2>3, <2>4, <2>5 DEF Can, Outline, IsolateOutline, MacOutline
  <2>7. c.how = "try" => Outline("isolate_host", l, k + 1, h)
    BY <2>1 DEF Outline, IsolateOutline, MacOutline
  <2> QED
    BY <1>1, <2>1, <2>6, <2>7 DEF Follows
<1>4. CASE k = 2
  <2>1. c = Load("must")
    BY <1>4 DEF IsolateMac
  <2>2. /\ c.how = "must"
        /\ ListsOf(g, "anchor-file") = ListsOf(h, "anchor-file")
        /\ Has(g, "conf") <=> Has(h, "conf")
    BY <2>1, LoadLeaves
  <2>3. Outline("isolate_host", l, k + 1, g)
    BY <1>4, <2>2 DEF Outline, IsolateOutline, MacOutline
  <2> QED
    BY <1>1, <2>2, <2>3 DEF Follows
<1>5. CASE k = 7
  <2>1. c.how = "probe"
    BY <1>5 DEF IsolateMac, Probe, Cmd
  <2>2. ASSUME l \cap Reaches(h) # {}
        PROVE  Outline("isolate_host", l, k + 1, h)
    <3>1. ~Free(h)
      BY <1>5 DEF Outline, IsolateOutline, MacOutline, Free, Contained
    <3>2. PICK ch \in l : ch \in Reaches(h)
      BY <2>2
    <3>3. ch \in Channel /\ \A a \in ListsOf(h, "rules") : ch \in a
      BY <3>1, <3>2 DEF Reaches
    <3> QED
      BY <1>5, <3>2, <3>3 DEF Outline, IsolateOutline, MacOutline, Shared
  <2> QED
    BY <2>1, <2>2 DEF Follows
<1>6. CASE k \in 8 .. 9
  <2>1. /\ c.how = "want" /\ c.load = FALSE /\ c.del = {}
        /\ k = 8 => The("plist") \in c.add
        /\ \A f \in c.add : f[1] = "plist"
    BY <1>6 DEF IsolateMac, Want, Cmd, The
  <2>2. \A n \in {"anchor-file", "rules"} : n \notin c.del /\ ~Has(c.add, n)
    BY <2>1 DEF Has
  <2>3. ASSUME NEW n \in {"anchor-file", "rules"}
        PROVE  ListsOf(g, n) = ListsOf(h, n)
    <3> HIDE DEF c
    <3> QED
      BY <2>1, <2>2, <2>3, KeepsRest
  <2>4. \A n : Has(h, n) \/ Has(c.add, n) => Has(g, n)
    BY <2>1, Leaves
  <2>5. k = 8 => Has(c.add, "plist")
    BY <2>1, Makes
  <2>6. Outline("isolate_host", l, k + 1, g)
    BY <1>6, <2>3, <2>4, <2>5 DEF Outline, IsolateOutline, MacOutline
  <2>7. Contained(h) /\ Reaches(h) # {}
    BY <1>6 DEF Outline, IsolateOutline, MacOutline, Shared, Contained, Reaches
  <2> QED
    BY <1>1, <2>1, <2>6, <2>7 DEF Follows
<1> QED
  BY <1>0, <1>2, <1>3, <1>4, <1>5, <1>6

LEMMA RestoreMacFollows ==
  ASSUME platform = "macos", NEW l, NEW h,
         NEW k \in 0 .. Len(RestoreMac) - 1, Outline("restore_network", l, k, h)
  PROVE  Follows(RestoreMac[k + 1], "restore_network", l, k, h)
<1> DEFINE c == RestoreMac[k + 1]
           g == Effect(c, h)
<1>0. Len(RestoreMac) = 8
  BY DEF RestoreMac
<1>1. \A f : Chained(f)
  BY DEF Chained
<1>2. CASE k \in 0 .. 4
  <2>1. c.how \in {"must", "try"}
    BY <1>2 DEF RestoreMac, Try, Cmd, Load
  <2>2. \A f : Outline("restore_network", l, k + 1, f)
    BY <1>2 DEF Outline, RestoreOutline
  <2> QED
    BY <1>1, <2>1, <2>2 DEF Follows
<1>3. CASE k \in 5 .. 7
  <2>1. /\ c.how = "must" /\ c.load = FALSE /\ c.add = {}
        /\ k = 5 => "reference" \in c.bar
        /\ k = 6 => "conf" \in c.bar
    BY <1>3 DEF RestoreMac, Must, Check, Cmd
  <2>2. \A n : Has(g, n) => Has(h, n)
    <3> HIDE DEF c
    <3> QED
      BY <2>1, Leaves, Makes
  <2>3. Can(c, h) => Outline("restore_network", l, k + 1, g)
    BY <1>3, <2>1, <2>2 DEF Can, Outline, RestoreOutline
  <2> QED
    BY <1>1, <2>1, <2>3 DEF Follows
<1> QED
  BY <1>0, <1>2, <1>3

\* The scripts that roll an isolation back promise nothing until they have looked.
LEMMA RollBackFollows ==
  ASSUME platform \in {"windows", "linux", "macos"}, NEW l, NEW h, Chained(h),
         NEW k \in 0 .. Len(Commands("roll-back", l)) - 1
  PROVE  Follows(Commands("roll-back", l)[k + 1], "roll-back", l, k, h)
<1> DEFINE c == Commands("roll-back", l)[k + 1]
<1>1. \A n, f : Outline("roll-back", l, n, f)
  BY DEF Outline
<1>2. CASE platform = "windows"
  <2>1. c.how = "try"
    BY <1>2 DEF Commands, RollBackWindows, Try, Cmd
  <2> QED
    BY <1>1, <1>2, <2>1 DEF Follows, Chained
<1>3. CASE platform = "linux"
  <2>1. /\ c.how = "try" /\ c.load = FALSE /\ c.add = {}
        /\ "chain" \in c.del => "drop" \in c.bar
    BY <1>3 DEF Commands, RollBackLinux, Detach, Try, Cmd
  <2> QED
    BY <1>1, <2>1, KeepsChained DEF Follows, Has
<1>4. CASE platform = "macos"
  <2>1. c.how = "try"
    BY <1>4 DEF Commands, RollBackMac, Try, Cmd, Load
  <2> QED
    BY <1>1, <1>4, <2>1 DEF Follows, Chained
<1> QED
  BY <1>2, <1>3, <1>4

\* block_ip, unblock_ip and quarantine_file know nothing of the chain.
LEMMA OthersFollow ==
  ASSUME NEW s \in {"block_ip", "unblock_ip", "quarantine_file"}, NEW l, NEW h, Chained(h),
         NEW k \in 0 .. Len(Commands(s, l)) - 1, Outline(s, l, k, h)
  PROVE  Follows(Commands(s, l)[k + 1], s, l, k, h)
<1> DEFINE c == Commands(s, l)[k + 1]
           g == Effect(c, h)
<1>1. ASSUME c.load = FALSE, "chain" \notin c.del, ~Has(c.add, "drop"), Can(c, h)
      PROVE  Chained(g)
  BY <1>1, KeepsChained
<1>2. CASE s = "block_ip"
  <2>1. k \in 0 .. 2
    BY <1>2 DEF Commands, BlockIp
  <2>2. /\ c.load = FALSE /\ "chain" \notin c.del /\ (\A f \in c.add : f[1] # "drop")
        /\ c.how \in {"must", "try"} /\ (c.how = "try" => k = 0)
        /\ k = 1 => The("block-ip-out") \in c.add
        /\ k = 2 => The("block-ip-in") \in c.add /\ c.del = {}
    BY <1>2, <2>1 DEF Commands, BlockIp, Must, Try, Cmd, The
  <2>3. /\ k = 1 => Has(g, "block-ip-out")
        /\ k = 2 => Has(g, "block-ip-in") /\ (Has(h, "block-ip-out") => Has(g, "block-ip-out"))
    BY <2>2, Makes, Leaves
  <2>4. Outline(s, l, k + 1, g)
    BY <1>2, <2>1, <2>3 DEF Outline
  <2>5. c.how = "try" => Outline(s, l, k + 1, h)
    BY <1>2, <2>2 DEF Outline
  <2> QED
    BY <1>1, <2>2, <2>4, <2>5 DEF Follows, Has
<1>3. CASE s = "unblock_ip"
  <2>1. /\ c.load = FALSE /\ c.add = {} /\ c.del = {"block-ip-out", "block-ip-in"}
        /\ c.how = "must"
    BY <1>3 DEF Commands, UnblockIp, Must, Cmd
  <2>2. Outline(s, l, k + 1, g)
    BY <1>3, <2>1, Leaves DEF Outline, Has
  <2> QED
    BY <1>1, <2>1, <2>2 DEF Follows, Has
<1>4. CASE s = "quarantine_file"
  <2>1. k \in 0 .. 3
    BY <1>4 DEF Commands, Quarantine
  <2>2. /\ c.load = FALSE /\ "chain" \notin c.del /\ c.how = "must"
        /\ \A f \in c.add : f[1] \in {"quarantined-file", "manifest"}
        /\ k = 2 => "file" \in c.del
        /\ k = 3 => The("manifest") \in c.add
    BY <1>4, <2>1 DEF Commands, Quarantine, Must, Check, Cmd, The
  <2>3. ~Has(c.add, "file") /\ ~Has(c.add, "drop")
    BY <2>2 DEF Has
  <2>4. /\ k = 2 => ~Has(g, "file")
        /\ k = 3 => Has(g, "manifest") /\ (~Has(h, "file") => ~Has(g, "file"))
    BY <2>2, <2>3, Makes, Leaves
  <2>5. Outline(s, l, k + 1, g)
    BY <1>4, <2>1, <2>4 DEF Outline
  <2> QED
    BY <1>1, <2>2, <2>3, <2>5 DEF Follows
<1> QED
  BY <1>2, <1>3, <1>4

ScriptNames ==
    {"isolate_host", "roll-back", "restore_network", "verify_isolation", "block_ip",
     "unblock_ip", "quarantine_file"}
Platform == {"windows", "linux", "macos"}

LEMMA CommandFollows ==
  ASSUME platform \in Platform, NEW s \in ScriptNames, NEW l \in SUBSET Channel, NEW h,
         Chained(h), NEW k \in 0 .. Len(Commands(s, l)) - 1, Outline(s, l, k, h)
  PROVE  Follows(Commands(s, l)[k + 1], s, l, k, h)
<1>1. CASE s = "isolate_host"
  <2>1. /\ platform = "windows" => Commands(s, l) = IsolateWindows(l)
        /\ platform = "linux" => Commands(s, l) = IsolateLinux(l)
        /\ platform = "macos" => Commands(s, l) = IsolateMac(l)
    BY <1>1 DEF Commands
  <2> QED
    BY <1>1, <2>1, IsolateWindowsFollows, IsolateLinuxFollows, IsolateMacFollows DEF Platform
<1>2. CASE s = "restore_network"
  <2>1. /\ platform = "windows" => Commands(s, l) = RestoreWindows
        /\ platform = "linux" => Commands(s, l) = RestoreLinux
        /\ platform = "macos" => Commands(s, l) = RestoreMac
    BY <1>2 DEF Commands
  <2> QED
    BY <1>2, <2>1, RestoreWindowsFollows, RestoreLinuxFollows, RestoreMacFollows DEF Platform
<1>3. CASE s = "roll-back"
  BY <1>3, RollBackFollows DEF Platform
<1>4. CASE s \in {"block_ip", "unblock_ip", "quarantine_file"}
  BY <1>4, OthersFollow
<1>5. s # "verify_isolation"
  BY DEF Commands
<1> QED
  BY <1>1, <1>2, <1>3, <1>4, <1>5 DEF ScriptNames

LEMMA CommandsEnd ==
  ASSUME platform \in Platform, NEW s \in ScriptNames, NEW l
  PROVE  Len(Commands(s, l)) \in Nat
<1>1. CASE platform = "windows"
  BY <1>1 DEF ScriptNames, Commands, IsolateWindows, RestoreWindows, RollBackWindows, BlockIp,
              UnblockIp, Quarantine
<1>2. CASE platform = "linux"
  BY <1>2 DEF ScriptNames, Commands, IsolateLinux, RestoreLinux, RollBackLinux, Detach, BlockIp,
              UnblockIp, Quarantine
<1>3. CASE platform = "macos"
  BY <1>3 DEF ScriptNames, Commands, IsolateMac, RestoreMac, RollBackMac, BlockIp,
              UnblockIp, Quarantine
<1> QED
  BY <1>1, <1>2, <1>3 DEF Platform

\* The end of an isolation's outline is an isolation, and is one after a reboot.
LEMMA IsolationHolds ==
  ASSUME platform \in Platform, NEW l \in SUBSET Channel, NEW h, NEW k,
         k = Len(Commands("isolate_host", l)), Outline("isolate_host", l, k, h)
  PROVE  /\ Contained(h) /\ Reaches(h) # {}
         /\ Contained(AfterReboot(h)) /\ Reaches(AfterReboot(h)) # {}
<1>1. CASE platform = "windows"
  <2>1. k = 10 /\ AfterReboot(h) = h
    BY <1>1 DEF Commands, IsolateWindows, AfterReboot
  <2>2. Contained(h) /\ Reaches(h) # {}
    <3>1. WindowsOutline(10, h)
      BY <1>1, <2>1 DEF Outline, IsolateOutline
    <3> QED
      BY <1>1, <3>1 DEF WindowsOutline, Contained
  <2> QED
    BY <2>1, <2>2
<1>2. CASE platform = "linux"
  <2> DEFINE g == AfterReboot(h)
  <2>1. k = 15
    BY <1>2 DEF Commands, IsolateLinux, Detach
  <2>2. /\ Has(h, "drop") /\ Has(h, "in") /\ Has(h, "out") /\ Open(ListsOf(h, "accept"))
        /\ l # {} /\ l \in ListsOf(h, "boot-list") /\ Has(h, "unit") /\ Has(h, "enabled")
    <3>1. LinuxOutline(l, 15, h)
      BY <1>2, <2>1 DEF Outline, IsolateOutline
    <3> QED
      BY <3>1 DEF LinuxOutline
  <2>3. /\ The("drop") \in g /\ The("in") \in g /\ The("out") \in g
        /\ With("accept", l) \in g
    BY <1>2, <2>2 DEF AfterReboot
  <2>4. Contained(g) /\ l \in ListsOf(g, "accept")
    <3> HIDE DEF g
    <3> QED
      BY <1>2, <2>3, Makes, MakesList DEF Contained
  <2>5. Reaches(g) # {}
    <3> HIDE DEF g
    <3> QED
      BY <1>2, <2>2, <2>4 DEF Reaches
  <2> QED
    BY <1>2, <2>2, <2>4, <2>5 DEF Contained, Open, Reaches
<1>3. CASE platform = "macos"
  <2> DEFINE cold == Without(h, {"pf", "reference", "rules"})
             g == AfterReboot(h)
  <2>1. k = 10
    BY <1>3 DEF Commands, IsolateMac
  <2>2. /\ ListsOf(h, "anchor-file") = {l} /\ l # {}
        /\ Has(h, "conf") /\ Has(h, "plist")
        /\ Has(h, "pf") /\ Has(h, "reference") /\ Has(h, "rules")
        /\ Shared(ListsOf(h, "rules"))
    <3>1. MacOutline(l, 10, h)
      BY <1>3, <2>1 DEF Outline, IsolateOutline
    <3> QED
      BY <3>1 DEF MacOutline
  <2>3. /\ Has(cold, "conf") /\ Has(cold, "anchor-file") /\ ~Has(cold, "rules")
        /\ ListsOf(cold, "anchor-file") = {l}
    <3>1. Has(cold, "conf") /\ ~Has(cold, "rules")
      BY <2>2 DEF Without, Has
    <3>2. \A a : a \in ListsOf(cold, "anchor-file") <=> a \in ListsOf(h, "anchor-file")
      BY DEF Without, ListsOf
    <3>3. ListsOf(cold, "anchor-file") = {l}
      BY <2>2, <3>2
    <3>4. Has(cold, "anchor-file")
      BY <3>3 DEF Has, ListsOf
    <3> QED
      BY <3>1, <3>3, <3>4
  <2>4. g = Loaded(cold) \cup {The("pf")}
    BY <1>3, <2>2, <2>3 DEF AfterReboot, Loadable
  <2> HIDE DEF cold, g
  <2>5. /\ The("pf") \in g /\ The("reference") \in g /\ With("rules", l) \in g
        /\ \A f \in g : f[1] = "rules" => f[2] = l
    <3>1. Loaded(cold) = Without(cold, {"reference", "rules"}) \cup {The("reference")}
                           \cup {With("rules", a) : a \in {l}}
      BY <2>3 DEF Loaded
    <3> QED
      BY <2>4, <3>1 DEF Without, With, The
  <2>6. Contained(g)
    BY <1>3, <2>5 DEF Contained, Has, With, The
  <2>7. \A a \in ListsOf(g, "rules") : a = l
    BY <2>5 DEF ListsOf
  <2>8. Reaches(g) # {}
    BY <1>3, <2>2, <2>7 DEF Reaches
  <2> QED
    BY <1>3, <2>2, <2>6, <2>8 DEF g, Contained, Shared, Reaches
<1> QED
  BY <1>1, <1>2, <1>3 DEF Platform

\* The end of a restoration's outline is freedom, and is it after a reboot.
LEMMA RestoreHolds ==
  ASSUME platform \in Platform, NEW l, NEW h, NEW k, Chained(h),
         k = Len(Commands("restore_network", l)), Outline("restore_network", l, k, h)
  PROVE  Free(h) /\ Free(AfterReboot(h))
<1>1. CASE platform = "windows"
  <2>1. k = 3 /\ AfterReboot(h) = h
    BY <1>1 DEF Commands, RestoreWindows, AfterReboot
  <2>2. Free(h)
    BY <1>1, <2>1 DEF Outline, RestoreOutline, Free
  <2> QED
    BY <2>1, <2>2
<1>2. CASE platform = "linux"
  <2>1. k = 8
    BY <1>2 DEF Commands, RestoreLinux, Detach
  <2>2. ~Has(h, "drop") /\ ~Has(h, "unit")
    <3>1. ~Has(h, "chain") /\ ~Has(h, "unit")
      BY <1>2, <2>1 DEF Outline, RestoreOutline
    <3> QED
      BY <1>2, <3>1 DEF Chained
  <2>3. ~Has(AfterReboot(h), "drop")
    BY <1>2, <2>2 DEF AfterReboot, Without, Has
  <2> QED
    BY <1>2, <2>2, <2>3 DEF Free
<1>3. CASE platform = "macos"
  <2> DEFINE cold == Without(h, {"pf", "reference", "rules"})
  <2>1. k = 8
    BY <1>3 DEF Commands, RestoreMac
  <2>2. ~Has(h, "reference") /\ ~Has(h, "conf")
    BY <1>3, <2>1 DEF Outline, RestoreOutline
  <2>3. ~Has(cold, "conf") /\ ~Has(cold, "reference")
    BY <2>2 DEF Without, Has
  <2>4. AfterReboot(h) \subseteq cold \cup {The("pf")}
    <3>1. Loaded(cold) \subseteq cold
      BY <2>3 DEF Loaded, Without
    <3> HIDE DEF cold
    <3>2. AfterReboot(h) \subseteq cold \cup Loaded(cold) \cup {The("pf")}
      BY <1>3 DEF AfterReboot, cold
    <3> QED
      BY <3>1, <3>2
  <2>5. ~Has(AfterReboot(h), "reference")
    BY <2>3, <2>4 DEF Has, The
  <2> QED
    BY <1>3, <2>2, <2>5 DEF Free, Contained
<1> QED
  BY <1>1, <1>2, <1>3 DEF Platform

LEMMA ChainedAfterReboot ==
  Chained(AfterReboot(host))
<1>1. CASE platform # "linux"
  BY <1>1 DEF Chained
<1>2. CASE platform = "linux"
  <2> DEFINE cold == Without(host, {"chain", "accept", "drop", "in", "out"})
             built == cold \cup {The("chain"), The("drop"), The("in"), The("out")}
                        \cup {With("accept", l) : l \in ListsOf(host, "boot-list")}
  <2>1. AfterReboot(host) = cold \/ AfterReboot(host) = built
    BY <1>2 DEF AfterReboot
  <2>2. ~Has(cold, "drop")
    BY DEF Without, Has
  <2>3. Has(built, "chain")
    <3>1. The("chain") \in built
      OBVIOUS
    <3> QED
      BY <3>1, Makes
  <2> HIDE DEF cold, built
  <2> QED
    BY <2>1, <2>2, <2>3 DEF Chained
<1> QED
  BY <1>1, <1>2

\* What AnswersAreTrue says, of any answer and any host.
AnswerTrue(answer, h) ==
    /\ answer \in {"isolated", "isolated-until-reboot"} => Contained(h) /\ Reaches(h) # {}
    /\ answer = "isolated" => Contained(AfterReboot(h)) /\ Reaches(AfterReboot(h)) # {}
    /\ answer = "restored" => Free(h) /\ Free(AfterReboot(h))
    /\ answer = "in-force" => Contained(h)
    /\ answer = "rolled-back" => Free(h)
    /\ answer = "blocked" => Has(h, "block-ip-out") /\ Has(h, "block-ip-in")
    /\ answer = "unblocked" => ~Has(h, "block-ip-out") /\ ~Has(h, "block-ip-in")
    /\ answer = "quarantined" => ~Has(h, "file") /\ Has(h, "manifest")

LEMMA EndIsTrue ==
  ASSUME platform \in Platform, NEW s \in ScriptNames, NEW l \in SUBSET Channel, NEW h,
         Chained(h), NEW k, k = Len(Commands(s, l)), Outline(s, l, k, h)
  PROVE  AnswerTrue(Answer(s, h), h)
<1>1. CASE s = "isolate_host"
  <2>1. Answer(s, h) = "isolated"
    BY <1>1 DEF Answer
  <2> QED
    BY <1>1, <2>1, IsolationHolds DEF AnswerTrue
<1>2. CASE s = "restore_network"
  <2>1. Answer(s, h) = "restored"
    BY <1>2 DEF Answer
  <2> QED
    BY <1>2, <2>1, RestoreHolds DEF AnswerTrue
<1>3. CASE s = "roll-back"
  <2>1. /\ Answer(s, h) \in {"rolled-back", "rollback-failed"}
        /\ Answer(s, h) = "rolled-back" => Clear(h)
    BY <1>3 DEF Answer
  <2>2. Clear(h) => Free(h)
    BY DEF Clear, Free, Contained, Platform
  <2> QED
    BY <2>1, <2>2 DEF AnswerTrue
<1>4. CASE s = "verify_isolation"
  <2>1. /\ Answer(s, h) \in {"in-force", "not-in-force"}
        /\ Answer(s, h) = "in-force" => Verified(h)
    BY <1>4 DEF Answer
  <2>2. Verified(h) => Contained(h)
    BY DEF Verified, VerifiedWindows, VerifiedLinux, VerifiedMac, Contained, WindowsRules,
           Platform
  <2> QED
    BY <2>1, <2>2 DEF AnswerTrue
<1>5. CASE s = "block_ip"
  <2>1. Answer(s, h) = "blocked" /\ k = 3
    BY <1>5 DEF Answer, Commands, BlockIp
  <2> QED
    BY <1>5, <2>1 DEF AnswerTrue, Outline
<1>6. CASE s = "unblock_ip"
  <2>1. Answer(s, h) = "unblocked" /\ k = 1
    BY <1>6 DEF Answer, Commands, UnblockIp
  <2> QED
    BY <1>6, <2>1 DEF AnswerTrue, Outline
<1>7. CASE s = "quarantine_file"
  <2>1. Answer(s, h) = "quarantined" /\ k = 4
    BY <1>7 DEF Answer, Commands, Quarantine
  <2>2. ~Has(h, "file") /\ Has(h, "manifest")
    BY <1>7, <2>1 DEF Outline
  <2> QED
    BY <2>1, <2>2 DEF AnswerTrue
<1> QED
  BY <1>1, <1>2, <1>3, <1>4, <1>5, <1>6, <1>7 DEF ScriptNames

\* The script that runs is where its outline says, and says nothing yet.
OnOutline ==
    script # "none" =>
        /\ script \in ScriptNames /\ told = "nothing"
        /\ passed \in 0 .. Len(Commands(script, list))
        /\ Outline(script, list, passed, host)
ScriptsInv ==
    /\ platform \in Platform /\ list \in SUBSET Channel
    /\ Chained(host) /\ OnOutline /\ AnswersAreTrue

\* What the facts mean depends on them and on the platform.
LEMMA PlatformStays ==
  ASSUME UNCHANGED platform
  PROVE  /\ Contained(host)' <=> Contained(host')
         /\ Free(host)' <=> Free(host')
         /\ Reaches(host)' = Reaches(host')
         /\ AfterReboot(host)' = AfterReboot(host')
<1>1. Contained(host)' <=> Contained(host')
  BY DEF Contained
<1>2. Free(host)' <=> Free(host')
  BY <1>1 DEF Free
<1>3. Reaches(host)' = Reaches(host')
  BY <1>2 DEF Reaches
<1>4. AfterReboot(host)' = AfterReboot(host')
  BY DEF AfterReboot
<1> QED
  BY <1>1, <1>2, <1>3, <1>4

LEMMA SameHost ==
  ASSUME UNCHANGED <<platform, host>>
  PROVE  /\ Contained(AfterReboot(host))' <=> Contained(AfterReboot(host))
         /\ Free(AfterReboot(host))' <=> Free(AfterReboot(host))
         /\ Reaches(AfterReboot(host))' = Reaches(AfterReboot(host))
<1>1. AfterReboot(host)' = AfterReboot(host)
  BY PlatformStays
<1>2. Contained(AfterReboot(host))' <=> Contained(AfterReboot(host))
  BY <1>1 DEF Contained
<1>3. Free(AfterReboot(host))' <=> Free(AfterReboot(host))
  BY <1>1, <1>2 DEF Free
<1>4. Reaches(AfterReboot(host))' = Reaches(AfterReboot(host))
  BY <1>1, <1>3 DEF Reaches
<1> QED
  BY <1>2, <1>3, <1>4

\* A script that ends with an answer that is true.
LEMMA EndKeeps ==
  ASSUME ScriptsInv, NEW answer, End(answer), UNCHANGED platform, Chained(host)',
         AnswerTrue(answer, host)'
  PROVE  ScriptsInv'
<1>1. AnswersAreTrue'
  BY DEF End, AnswersAreTrue, AnswerTrue
<1> QED
  BY <1>1 DEF End, ScriptsInv, OnOutline

\* A script that goes on, by one command and along its outline.
LEMMA GoOnKeeps ==
  ASSUME ScriptsInv, Running, GoOn, UNCHANGED platform, Chained(host)',
         Outline(script, list, passed + 1, host')
  PROVE  ScriptsInv'
<1>1. passed + 1 \in 0 .. Len(Commands(script, list))
  BY CommandsEnd DEF ScriptsInv, OnOutline, Running
<1>2. Commands(script, list)' = Commands(script, list)
  BY DEF GoOn, Commands
<1>3. Outline(script, list, passed, host)'
  BY PlatformStays DEF GoOn, Outline, IsolateOutline, WindowsOutline, RestoreOutline
<1>4. AnswersAreTrue'
  BY DEF GoOn, Running, ScriptsInv, OnOutline, AnswersAreTrue
<1> QED
  BY <1>1, <1>2, <1>3, <1>4 DEF GoOn, ScriptsInv, OnOutline

LEMMA NowFollows ==
  ASSUME ScriptsInv, Running
  PROVE  Follows(Now, script, list, passed, host)
<1>1. passed \in 0 .. Len(Commands(script, list)) - 1
  BY CommandsEnd DEF ScriptsInv, OnOutline, Running
<1> QED
  BY <1>1, CommandFollows DEF ScriptsInv, OnOutline, Running, Now

LEMMA StartKeeps ==
  ASSUME HostScriptsBounds, ScriptsInv, NEW s \in Scripts, NEW l \in AllowLists \cup {{}},
         Start(s, l)
  PROVE  ScriptsInv'
<1>1. s \in ScriptNames /\ l \in SUBSET Channel /\ s # "none"
  BY DEF HostScriptsBounds, Scripts, ScriptNames
<1>2. 0 \in 0 .. Len(Commands(s, l))
  BY <1>1, CommandsEnd DEF ScriptsInv
<1>3. Commands(s, l)' = Commands(s, l) /\ Commands(script, list)' = Commands(s, l)
  BY DEF Start, Commands
<1>4. Outline(s, l, 0, host)
  BY DEF Outline, IsolateOutline, WindowsOutline, LinuxOutline, MacOutline, RestoreOutline
<1>5. Outline(script, list, passed, host)'
  BY <1>4 DEF Start, Outline, IsolateOutline, WindowsOutline, RestoreOutline, Reaches, Free,
              Contained
<1>6. AnswersAreTrue'
  BY DEF Start, AnswersAreTrue
<1> QED
  BY <1>1, <1>2, <1>3, <1>5, <1>6 DEF Start, ScriptsInv, OnOutline, Chained

LEMMA StepKeeps ==
  ASSUME HostScriptsBounds, ScriptsInv, [ScriptsNext]_scriptsVars
  PROVE  ScriptsInv'
<1>1. CASE \E s \in Scripts, l \in AllowLists : Start(s, IF s = "isolate_host" THEN l ELSE {})
  BY <1>1, StartKeeps
<1>2. CASE Works
  <2>1. Running /\ Follows(Now, script, list, passed, host)
    BY <1>2, NowFollows DEF Works
  <2>2. Outline(script, list, passed + 1, host') /\ Chained(host')
    BY <1>2, <2>1 DEF Works, Follows
  <2>3. Chained(host)'
    BY <1>2, <2>2 DEF Works, Chained
  <2> QED
    BY <1>2, <2>1, <2>2, <2>3, GoOnKeeps DEF Works
<1>3. CASE Fails
  <2>1. /\ Running /\ Follows(Now, script, list, passed, host)
        /\ Now.how \in {"must", "try", "want"}
    BY <1>3, NowFollows DEF Fails, Follows
  <2>2. UNCHANGED <<platform, host>> /\ Chained(host)'
    BY <1>3 DEF Fails, ScriptsInv, Chained
  <2>3. CASE Now.how = "must"
    <3>1. PICK answer \in {"isolation-failed", "failed"} : End(answer)
      BY <1>3, <2>3 DEF Fails
    <3>2. AnswerTrue(answer, host)'
      BY <3>1 DEF AnswerTrue
    <3> QED
      BY <2>2, <3>1, <3>2, EndKeeps
  <2>4. CASE Now.how = "try"
    <3>1. GoOn
      BY <1>3, <2>4 DEF Fails
    <3>2. Outline(script, list, passed + 1, host')
      BY <2>1, <2>2, <2>4 DEF Follows
    <3> QED
      BY <2>1, <2>2, <3>1, <3>2, GoOnKeeps
  <2>5. CASE Now.how = "want"
    <3>1. End("isolated-until-reboot")
      BY <1>3, <2>5 DEF Fails
    <3>2. Contained(host) /\ Reaches(host) # {}
      BY <2>1, <2>5 DEF Follows
    <3>3. (Contained(host) /\ Reaches(host) # {})'
      BY <2>2, <3>2 DEF Contained, Reaches, Free
    <3>4. AnswerTrue("isolated-until-reboot", host)'
      BY <3>3 DEF AnswerTrue
    <3> QED
      BY <2>2, <3>1, <3>4, EndKeeps
  <2> QED
    BY <2>1, <2>3, <2>4, <2>5
<1>4. CASE Answered
  <2>1. /\ Running /\ Follows(Now, script, list, passed, host)
        /\ Now.how = "probe" /\ list \cap Reaches(host) # {} /\ GoOn
        /\ UNCHANGED <<platform, host>>
    BY <1>4, NowFollows DEF Answered
  <2>2. Outline(script, list, passed + 1, host') /\ Chained(host)'
    BY <2>1 DEF Follows, ScriptsInv, Chained
  <2> QED
    BY <2>1, <2>2, GoOnKeeps
<1>5. CASE Unanswered
  <2>1. /\ script' = "roll-back" /\ passed' = 0 /\ told = "nothing"
        /\ UNCHANGED <<platform, host, list, told>>
    BY <1>5 DEF Unanswered, Running, ScriptsInv, OnOutline
  <2>2. 0 \in 0 .. Len(Commands("roll-back", list))
    BY CommandsEnd DEF ScriptsInv, ScriptNames
  <2>3. Commands(script, list)' = Commands("roll-back", list)
    BY <2>1 DEF Commands
  <2>4. Outline(script, list, passed, host)'
    BY <2>1 DEF Outline
  <2>5. OnOutline'
    BY <2>1, <2>2, <2>3, <2>4 DEF OnOutline, ScriptNames
  <2>6. AnswersAreTrue'
    BY <2>1 DEF AnswersAreTrue
  <2> QED
    BY <2>1, <2>5, <2>6 DEF ScriptsInv, Chained
<1>6. CASE Ends
  <2>1. /\ script \in ScriptNames /\ list \in SUBSET Channel /\ ~Running
        /\ End(Answer(script, host)) /\ UNCHANGED <<platform, host>>
        /\ Outline(script, list, passed, host)
    BY <1>6 DEF Ends, ScriptsInv, OnOutline
  <2>2. passed = Len(Commands(script, list))
    BY <1>6, <2>1, CommandsEnd DEF Ends, Running, ScriptsInv, OnOutline
  <2>3. AnswerTrue(Answer(script, host), host)
    BY <2>1, <2>2, EndIsTrue DEF ScriptsInv
  <2> DEFINE answer == Answer(script, host)
  <2>4. ASSUME NEW a, a = answer
        PROVE  AnswerTrue(a, host)'
    BY <2>1, <2>3, <2>4, PlatformStays, SameHost DEF AnswerTrue
  <2>5. Chained(host)'
    BY <2>1 DEF ScriptsInv, Chained
  <2>6. PICK a : a = answer
    OBVIOUS
  <2> QED
    BY <2>1, <2>4, <2>5, <2>6, EndKeeps
<1>7. CASE AgentStops
  <2>1. End("nothing") /\ UNCHANGED <<platform, host>> /\ Chained(host)'
    BY <1>7 DEF AgentStops, ScriptsInv, Chained
  <2>2. AnswerTrue("nothing", host)'
    BY DEF AnswerTrue
  <2> QED
    BY <2>1, <2>2, EndKeeps
<1>8. CASE Reboot
  <2>1. End("nothing") /\ UNCHANGED platform /\ host' = AfterReboot(host)
    BY <1>8 DEF Reboot
  <2>2. AnswerTrue("nothing", host)'
    BY DEF AnswerTrue
  <2>3. Chained(host)'
    BY <2>1, ChainedAfterReboot DEF Chained
  <2> QED
    BY <2>1, <2>2, <2>3, EndKeeps
<1>9. CASE UNCHANGED scriptsVars
  <2>1. UNCHANGED <<platform, host, script, list, passed, told>>
    BY <1>9 DEF scriptsVars
  <2>2. Commands(script, list)' = Commands(script, list)
    BY <2>1 DEF Commands
  <2>3. Outline(script, list, passed, host) => Outline(script, list, passed, host)'
    BY <2>1, PlatformStays DEF Outline, IsolateOutline, WindowsOutline, RestoreOutline
  <2>4. OnOutline'
    BY <2>1, <2>2, <2>3 DEF ScriptsInv, OnOutline
  <2>5. AnswersAreTrue'
    BY <2>1, PlatformStays, SameHost DEF ScriptsInv, AnswersAreTrue
  <2> QED
    BY <2>1, <2>4, <2>5 DEF ScriptsInv, Chained
<1> QED
  BY <1>1, <1>2, <1>3, <1>4, <1>5, <1>6, <1>7, <1>8, <1>9 DEF ScriptsNext

\* A script answers what is so (AnswersAreTrue), on every platform and for every allow list,
\* whatever was on the host before it, whichever of its commands failed and whenever the
\* agent or the host went down (agent_scripts.py's isolate_host, restore_network,
\* verify_isolation, block_ip, unblock_ip and quarantine_file).
THEOREM ScriptsTellTheTruth ==
  ASSUME HostScriptsBounds
  PROVE  ScriptsSpec => []AnswersAreTrue
<1>1. ScriptsInit => ScriptsInv
  BY DEF ScriptsInit, ScriptsInv, HostScriptsBounds, Platform, Chained, OnOutline,
         AnswersAreTrue, Has, The
<1>2. ScriptsInv /\ [ScriptsNext]_scriptsVars => ScriptsInv'
  BY StepKeeps
<1>3. ScriptsInv => AnswersAreTrue
  BY DEF ScriptsInv
<1> QED
  BY <1>1, <1>2, <1>3, PTL DEF ScriptsSpec

-----------------------------------------------------------------------------
(* The start of the console.  F is a row of a table that some migration rebuilds, *)
(* N the same row in the new table.  A worker that has read the old table and not  *)
(* yet rebuilt it knows whether F is there, as it stays there or stays away; and   *)
(* when it drops the old table, N is in its transaction.                           *)

CONSTANTS Worker, MaxStart, MaxDeath, Reported, Calls
VARIABLES startArea, startDb, startWriter, startDraft, startAt, startSaw, starts,
          startDeaths, startFailed

Starting == INSTANCE Startup WITH
    area <- startArea, db <- startDb, writer <- startWriter, draft <- startDraft,
    at <- startAt, saw <- startSaw, deaths <- startDeaths, failed <- startFailed

Program(w) == Calls[startArea][startAt[w][1]]
Place(w) == startAt[w][2]
Inside(w) == ~Starting!Ended(w) /\ Place(w) <= Len(Program(w))
Comes(w) == Program(w)[Place(w)]
Dropping(w, b) == Inside(w) /\ Comes(w).op = "drop" /\ Comes(w).on = b.table
Renaming(w, b) == Inside(w) /\ Comes(w).op = "rename" /\ Comes(w).to = b.table

Row(b) == <<b.table, b.row>>
NewRow(b) == <<b.anew, b.row>>

StartTyped ==
    /\ startArea \in DOMAIN Calls
    /\ startAt \in [Worker -> (Nat \ {0}) \X (Nat \ {0})]
    /\ DOMAIN startSaw = Worker
    /\ \A w \in Worker : ~Starting!Ended(w) => Place(w) <= Len(Program(w)) + 1
    /\ startWriter \in Worker \cup {Starting!Nobody}
    /\ Starting!Pairs(startDb) /\ Starting!Pairs(startDraft)

\* A worker comes to no statement that it leaves out, unless it is the first.
ComesTo ==
    \A w \in Worker :
        Inside(w) /\ Place(w) > 1 => ~Starting!LeftOut(Comes(w), startSaw[w])
\* What a worker has read of the old table is so still.
StillSo(b) ==
    \A w \in Worker : \A q \in 1 .. Place(w) - 1 :
        ~Starting!Ended(w) /\ Starting!LastRead(Program(w), q, Place(w), b.table) =>
            (b.row \in startSaw[w] <=> Row(b) \in startDb)
\* The old table is dropped when the row has been carried over.
CarriedOver(b) ==
    \A w \in Worker :
        Row(b) \in startDb /\ (Dropping(w, b) \/ Renaming(w, b)) =>
            startWriter = w /\ NewRow(b) \in startDraft
\* The transaction has the row in one of the tables, if the database has it.
InDraft(b) ==
    /\ \A w \in Worker : startWriter = w /\ Row(b) \in startDb =>
          Row(b) \in startDraft \/ Renaming(w, b)
    /\ Row(b) \notin startDb => Row(b) \notin startDraft
\* In the new table it is on the way only.
OnTheWay(b) ==
    /\ NewRow(b) \notin startDb
    /\ NewRow(b) \in startDraft =>
          \E w \in Worker : startWriter = w /\ (Dropping(w, b) \/ Renaming(w, b))
    /\ NewRow(b) \in startDraft => Row(b) \in startDb
RowInv(b) == StillSo(b) /\ CarriedOver(b) /\ InDraft(b) /\ OnTheWay(b)
StartInv == StartTyped /\ ComesTo /\ \A b \in Starting!Rebuilt : RowInv(b)

LEMMA TablesApart ==
    ASSUME NEW b \in Starting!Rebuilt
    PROVE  /\ b.table # b.anew /\ b.row # Starting!Itself
           /\ b.table # Starting!Second /\ b.anew # Starting!Second
BY DEF Starting!Rebuilt, Starting!Itself, Starting!Second

LEMMA ItemIsThere ==
    ASSUME NEW c, Starting!Pairs(c), NEW t, NEW x
    PROVE  x \in Starting!ItemsOf(c, t) <=> <<t, x>> \in c
BY DEF Starting!ItemsOf, Starting!Pairs

Step == [op : STRING, on : STRING, items : SUBSET STRING,
         to : STRING, unless : SUBSET STRING, given : SUBSET STRING]
LEMMA PairsAfter ==
    ASSUME NEW st, NEW c, Starting!Pairs(c)
    PROVE  Starting!Pairs(Starting!After(st, c))
<1> DEFINE new(t, X) == {<<t, x>> : x \in X}
           theirs == Starting!ItemsOf(c, st.on)
           after == Starting!After(st, c)
<1>1. \A t, X : Starting!Pairs(new(t, X))  BY DEF Starting!Pairs
<1>2. Starting!Pairs({<<st.on, Starting!Itself>>})  BY DEF Starting!Pairs
<1>3. \A A, B : Starting!Pairs(A) /\ Starting!Pairs(B) => Starting!Pairs(A \cup B)
  BY DEF Starting!Pairs
<1>4. \A A \in SUBSET c : Starting!Pairs(A)  BY DEF Starting!Pairs
<1>5. \/ after \subseteq c
      \/ after = c \cup ({<<st.on, Starting!Itself>>} \cup new(st.on, st.items))
      \/ after = c \cup new(st.on, st.items)
      \/ after = (c \cup new(st.on, st.items)) \cup new(Starting!Second, st.items \cap theirs)
      \/ after = c \cup new(st.to, st.items \cap theirs)
      \/ after = {f \in c : f[1] # st.on} \cup new(st.to, theirs)
  BY DEF Starting!After, Starting!Entire
<1>6. {f \in c : f[1] # st.on} \in SUBSET c  OBVIOUS
<1> HIDE DEF new, theirs, after
<1>7. Starting!Pairs(after)  BY <1>1, <1>2, <1>3, <1>4, <1>5, <1>6
<1> QED  BY <1>7 DEF after

\* A statement takes a row away only by dropping or renaming its table ...
LEMMA TakesAway ==
    ASSUME NEW st, NEW c, NEW t, NEW x, <<t, x>> \in c,
           ~(st.op \in {"drop", "rename"} /\ st.on = t)
    PROVE  <<t, x>> \in Starting!After(st, c)
BY DEF Starting!After

\* ... and brings one by naming it, or by moving it, or its table.
Adding == {"table", "make", "add", "try", "seed", "insert", "copy"}
LEMMA Adds ==
    ASSUME NEW st, NEW c, Starting!Pairs(c), NEW t, NEW x, <<t, x>> \notin c, x # Starting!Itself,
           t # Starting!Second, <<t, x>> \in Starting!After(st, c)
    PROVE  \/ st.op \in Adding /\ st.on = t /\ x \in st.items
           \/ st.op = "move" /\ st.to = t /\ x \in st.items /\ <<st.on, x>> \in c
           \/ st.op = "rename" /\ st.to = t /\ <<st.on, x>> \in c
<1> DEFINE new == {<<st.on, y>> : y \in st.items}
           after == Starting!After(st, c)
<1>1. CASE st.op \in {"table", "make"}
  <2>1. after \subseteq c \cup Starting!Entire(st.on, st.items)  BY <1>1 DEF Starting!After
  <2>2. <<t, x>> \in Starting!Entire(st.on, st.items)  BY <2>1
  <2> QED  BY <1>1, <2>2 DEF Starting!Entire, Adding
<1>2. CASE st.op \in {"try", "add", "insert", "seed"}
  <2>1. after \subseteq c \cup new  BY <1>2 DEF Starting!After
  <2> QED  BY <1>2, <2>1 DEF Adding
<1>3. CASE st.op = "copy"
  <2>1. after \subseteq c \cup new \cup {<<Starting!Second, y>> : y \in st.items}
    BY <1>3 DEF Starting!After
  <2> QED  BY <1>3, <2>1 DEF Adding
<1>4. CASE st.op = "move"
  <2>1. after = c \cup {<<st.to, y>> : y \in st.items \cap Starting!ItemsOf(c, st.on)}
    BY <1>4 DEF Starting!After
  <2>2. st.to = t /\ x \in st.items /\ x \in Starting!ItemsOf(c, st.on)  BY <2>1
  <2> QED  BY <1>4, <2>2, ItemIsThere
<1>5. CASE st.op = "rename"
  <2>1. after = {f \in c : f[1] # st.on} \cup {<<st.to, y>> : y \in Starting!ItemsOf(c, st.on)}
    BY <1>5 DEF Starting!After
  <2>2. st.to = t /\ x \in Starting!ItemsOf(c, st.on)  BY <2>1
  <2> QED  BY <1>5, <2>2, ItemIsThere
<1>6. CASE st.op \notin {"table", "make", "try", "add", "insert", "seed", "copy", "move", "rename"}
  <2>1. after \subseteq c  BY <1>6 DEF Starting!After
  <2> QED  BY <2>1
<1> QED  BY <1>1, <1>2, <1>3, <1>4, <1>5, <1>6

LEMMA NextPosition ==
    ASSUME NEW i, NEW j \in Nat \ {0}, NEW seen, NEW S, Starting!Migration(i) \in Seq(S),
           j <= Len(Starting!Migration(i)) + 1
    PROVE  \E k \in Nat :
              /\ j <= k /\ k <= Len(Starting!Migration(i)) + 1
              /\ Starting!Position(i, j, seen) = <<i, k>>
              /\ k <= Len(Starting!Migration(i))
                    => ~Starting!LeftOut(Starting!Migration(i)[k], seen)
              /\ \A n \in j .. k - 1 : Starting!LeftOut(Starting!Migration(i)[n], seen)
<1> DEFINE f == Starting!Migration(i)
           Stop(k) == k > Len(f) \/ ~Starting!LeftOut(f[k], seen)
           T == {k \in Nat : j <= k /\ k <= Len(f) + 1 /\ Stop(k)}
<1>1. Len(f) \in Nat  BY DEF Starting!Migration
<1>2. Len(f) + 1 \in T  BY <1>1
<1>3. PICK k \in T : \A m \in T : ~(<<m, k>> \in OpToRel(<, Nat))
  <2>1. T \in SUBSET Nat /\ T # {}  BY <1>2
  <2> HIDE DEF T
  <2> QED  BY <2>1, NatLessThanWellFounded, WFMin, Zenon
<1>4. \A n \in j .. k - 1 : Starting!LeftOut(f[n], seen)
  <2>1. T \subseteq Nat  OBVIOUS
  <2>2. \A m \in T : ~(m < k)
    <3> HIDE DEF T
    <3> QED  BY <1>3, <2>1 DEF OpToRel
  <2>3. \A n \in j .. k - 1 : n \in Nat /\ n < k /\ j <= n /\ n <= Len(f) + 1  BY <1>1
  <2> QED  BY <2>2, <2>3
<1>5. \E m : /\ m \in j .. Len(f) + 1
             /\ m > Len(f) \/ ~Starting!LeftOut(f[m], seen)
             /\ \A n \in j .. m - 1 : Starting!LeftOut(f[n], seen)
  <2>1. k \in j .. Len(f) + 1 /\ Stop(k)  BY <1>1
  <2> HIDE DEF f
  <2> QED  BY <2>1, <1>4
<1> DEFINE Fits(m) == /\ m > Len(f) \/ ~Starting!LeftOut(f[m], seen)
                      /\ \A n \in j .. m - 1 : Starting!LeftOut(f[n], seen)
           R == j .. Len(f) + 1
           p == CHOOSE m \in R : Fits(m)
<1>6. p \in R /\ Fits(p)
  <2> HIDE DEF Fits, R
  <2>1. \E m \in R : Fits(m)  BY <1>5 DEF Fits, R
  <2> QED  BY <2>1, Zenon
<1>7. Starting!Position(i, j, seen) = <<i, p>>  BY DEF Starting!Position
<1> HIDE DEF p
<1> QED  BY <1>1, <1>6, <1>7

-----------------------------------------------------------------------------
LEMMA ProgramIs ==
    ASSUME Starting!RebuildsWell, StartTyped, NEW w \in Worker, ~Starting!Ended(w)
    PROVE  /\ Program(w) \in Seq(Step) /\ Len(Program(w)) \in Nat
           /\ DOMAIN Program(w) = 1 .. Len(Program(w))
           /\ \A k \in 1 .. Len(Program(w)) : Program(w)[k] \in Step
           /\ Program(w) = Starting!Migration(startAt[w][1])
           /\ startAt[w][1] \in Nat \ {0} /\ Place(w) \in Nat \ {0}
           /\ Place(w) <= Len(Program(w)) + 1
           /\ \A b \in Starting!Rebuilt : Starting!Rebuilds(Program(w), b)
<1>1. Calls[startArea] \in Seq(Seq(Step))  BY DEF Starting!RebuildsWell, StartTyped, Step
<1>2. startAt[w][1] \in Nat \ {0} /\ Place(w) \in Nat \ {0}  BY DEF StartTyped, Place
<1>3. startAt[w][1] \in DOMAIN Calls[startArea]
  BY <1>1, <1>2 DEF Starting!Ended, Starting!Count
<1>4. Program(w) \in Seq(Step)  BY <1>1, <1>3 DEF Program
<1>5. \A b \in Starting!Rebuilt : Starting!Rebuilds(Program(w), b)
  BY <1>3 DEF Starting!RebuildsWell, StartTyped, Program
<1> QED  BY <1>2, <1>4, <1>5 DEF StartTyped, Program, Starting!Migration

\* k comes after j for a worker that saw this.
NextOf(f, j, k, seen) ==
    /\ j + 1 <= k /\ k <= Len(f) + 1
    /\ k <= Len(f) => ~Starting!LeftOut(f[k], seen)
    /\ \A n \in j + 1 .. k - 1 : Starting!LeftOut(f[n], seen)

\* Where a migration comes to on its way through a rebuild.
LEMMA Lands ==
    ASSUME NEW f \in Seq(Step), NEW b \in Starting!Rebuilt, Starting!Rebuilds(f, b),
           NEW j \in 1 .. Len(f), NEW k \in Nat, NEW seen, NextOf(f, j, k, seen)
    PROVE  /\ k <= Len(f) /\ f[k].op = "drop" /\ f[k].on = b.table =>
                /\ Starting!Swaps(f, k - 1, b)
                /\ \/ k = j + 1
                   \/ /\ b.row \notin seen
                      /\ \E q \in 1 .. k - 1 : Starting!LastRead(f, q, k, b.table)
           /\ k <= Len(f) /\ f[k].op = "rename" /\ f[k].to = b.table =>
                f[j].op = "drop" /\ f[j].on = b.table /\ k = j + 1
           /\ Starting!Swaps(f, j, b) =>
                k <= Len(f) /\ f[k].op = "drop" /\ f[k].on = b.table
           /\ f[j].op = "drop" /\ f[j].on = b.table =>
                k <= Len(f) /\ f[k].op = "rename" /\ f[k].to = b.table
<1>0. /\ j + 1 <= k /\ k <= Len(f) + 1
      /\ k <= Len(f) => ~Starting!LeftOut(f[k], seen)
      /\ \A n \in j + 1 .. k - 1 : Starting!LeftOut(f[n], seen)
  BY DEF NextOf
<1> USE <1>0
<1>1. Len(f) \in Nat /\ DOMAIN f = 1 .. Len(f)  OBVIOUS
<1>2. \A n \in j + 1 .. k - 1 : ~Starting!Unconditional(f[n])
  BY DEF Starting!Unconditional, Starting!LeftOut
<1>3. ASSUME NEW m \in Int, Starting!Swaps(f, m, b)
      PROVE  /\ m \in Nat \ {0} /\ m + 2 <= Len(f)
             /\ f[m + 1].op = "drop" /\ f[m + 1].on = b.table /\ Starting!Unconditional(f[m + 1])
             /\ f[m + 2].op = "rename" /\ f[m + 2].on = b.anew /\ f[m + 2].to = b.table
             /\ Starting!Unconditional(f[m + 2])
  BY <1>1, <1>3 DEF Starting!Swaps
<1>4. ASSUME k <= Len(f), f[k].op = "drop", f[k].on = b.table
      PROVE  /\ Starting!Swaps(f, k - 1, b)
             /\ \/ k = j + 1
                \/ /\ b.row \notin seen
                   /\ \E q \in 1 .. k - 1 : Starting!LastRead(f, q, k, b.table)
  <2>1. Starting!Swaps(f, k - 1, b)  BY <1>1, <1>4 DEF Starting!Rebuilds
  <2>2. CASE k = j + 1  BY <2>1, <2>2
  <2>3. CASE k # j + 1
    <3>1. k - 1 \in j + 1 .. k - 1 /\ k - 1 \in Nat  BY <2>3
    <3>2. Starting!LeftOut(f[k - 1], seen) /\ ~Starting!Unconditional(f[k - 1])
      BY <1>2, <3>1
    <3>3. /\ f[k - 1].op = "seed" /\ f[k - 1].given = {b.row} /\ f[k - 1].unless = {}
          /\ \E q \in 1 .. (k - 1) - 1 : Starting!LastRead(f, q, k - 1, b.table)
      BY <2>1, <3>2 DEF Starting!Swaps, Starting!Carries
    <3>4. b.row \notin seen  BY <3>2, <3>3 DEF Starting!LeftOut
    <3>5. PICK q \in 1 .. (k - 1) - 1 : Starting!LastRead(f, q, k - 1, b.table)  BY <3>3
    <3>6. Starting!LastRead(f, q, k, b.table)
      <4>1. ~Starting!Reads(f[k - 1])  BY <3>3 DEF Starting!Reads
      <4>2. \A m \in q + 1 .. k - 1 : m = k - 1 \/ m \in q + 1 .. (k - 1) - 1  BY <3>1
      <4> QED  BY <3>5, <4>1, <4>2 DEF Starting!LastRead
    <3>7. q \in 1 .. k - 1  OBVIOUS
    <3> QED  BY <2>1, <3>4, <3>6, <3>7
  <2> QED  BY <2>2, <2>3
<1>5. ASSUME k <= Len(f), f[k].op = "rename", f[k].to = b.table
      PROVE  f[j].op = "drop" /\ f[j].on = b.table /\ k = j + 1
  <2>0. {f[k].on, f[k].to} \cap {b.table, b.anew} # {} /\ k \in DOMAIN f  BY <1>1, <1>5
  <2>1. Starting!Swaps(f, k - 2, b)  BY <1>5, <2>0 DEF Starting!Rebuilds
  <2>2. /\ k - 2 \in Nat \ {0} /\ f[(k - 2) + 1].op = "drop" /\ f[(k - 2) + 1].on = b.table
        /\ Starting!Unconditional(f[(k - 2) + 1])
    BY <1>3, <2>1
  <2>3. (k - 2) + 1 = k - 1  OBVIOUS
  <2>4. k - 1 \notin j + 1 .. k - 1  BY <1>2, <2>2, <2>3
  <2>5. k - 1 = j  BY <2>2, <2>4
  <2> QED  BY <2>2, <2>3, <2>5
<1>6. ASSUME Starting!Swaps(f, j, b)
      PROVE  k <= Len(f) /\ f[k].op = "drop" /\ f[k].on = b.table
  <2>1. j + 1 \notin j + 1 .. k - 1  BY <1>2, <1>3, <1>6
  <2>2. k = j + 1  BY <2>1
  <2> QED  BY <1>3, <1>6, <2>2
<1>7. ASSUME f[j].op = "drop", f[j].on = b.table
      PROVE  k <= Len(f) /\ f[k].op = "rename" /\ f[k].to = b.table
  <2>1. Starting!Swaps(f, j - 1, b)  BY <1>1, <1>7 DEF Starting!Rebuilds
  <2>2. (j - 1) + 2 = j + 1 /\ j - 1 \in Int  OBVIOUS
  <2>3. /\ j + 1 <= Len(f) /\ f[j + 1].op = "rename" /\ f[j + 1].to = b.table
        /\ Starting!Unconditional(f[j + 1])
    BY <1>3, <2>1, <2>2
  <2>4. j + 1 \notin j + 1 .. k - 1  BY <1>2, <2>3
  <2>5. k = j + 1  BY <2>4
  <2> QED  BY <2>3, <2>5
<1> QED  BY <1>4, <1>5, <1>6, <1>7

LEMMA Unmoved ==
    ASSUME NEW v \in Worker, startArea' = startArea, startAt'[v] = startAt[v]
    PROVE  /\ Program(v)' = Program(v) /\ Place(v)' = Place(v) /\ Comes(v)' = Comes(v)
           /\ Starting!Ended(v)' <=> Starting!Ended(v)
           /\ Inside(v)' <=> Inside(v)
           /\ \A b \in Starting!Rebuilt : /\ Dropping(v, b)' <=> Dropping(v, b)
                                          /\ Renaming(v, b)' <=> Renaming(v, b)
<1>1. Program(v)' = Program(v) /\ Place(v)' = Place(v)  BY DEF Program, Place
<1>2. Comes(v)' = Comes(v)  BY <1>1 DEF Comes
<1>3. Starting!Ended(v)' <=> Starting!Ended(v)  BY DEF Starting!Ended, Starting!Count
<1>4. Inside(v)' <=> Inside(v)  BY <1>1, <1>3 DEF Inside
<1> QED  BY <1>1, <1>2, <1>3, <1>4 DEF Dropping, Renaming

\* A worker that goes on in its migration.
GoesOn(w, seen) ==
    /\ Inside(w) /\ startArea' = startArea
    /\ Starting!Goes(w, startAt[w][1], Place(w) + 1, seen)

LEMMA ComesOn ==
    ASSUME Starting!RebuildsWell, StartTyped, NEW w \in Worker, NEW seen, GoesOn(w, seen)
    PROVE  \E k \in Nat :
              LET f == Program(w) IN
              /\ NextOf(f, Place(w), k, seen)
              /\ startAt'[w] = <<startAt[w][1], k>> /\ startSaw'[w] = seen
              /\ Program(w)' = f /\ Place(w)' = k /\ ~Starting!Ended(w)'
              /\ Inside(w)' <=> k <= Len(f)
              /\ Comes(w)' = f[k]
<1>1. PICK i : i = startAt[w][1]  OBVIOUS
<1>2. PICK j : j = Place(w) + 1  OBVIOUS
<1>3. /\ Program(w) \in Seq(Step) /\ Len(Program(w)) \in Nat
      /\ Program(w) = Starting!Migration(i) /\ j \in Nat \ {0}
      /\ i \in Nat \ {0} /\ j <= Len(Program(w)) + 1 /\ ~Starting!Ended(w)
  BY <1>1, <1>2, ProgramIs DEF GoesOn, Inside
<1>4. PICK f : f = Program(w)  OBVIOUS
<1>5. PICK k \in Nat :
          /\ j <= k /\ k <= Len(f) + 1 /\ Starting!Position(i, j, seen) = <<i, k>>
          /\ k <= Len(f) => ~Starting!LeftOut(f[k], seen)
          /\ \A n \in j .. k - 1 : Starting!LeftOut(f[n], seen)
  BY <1>3, <1>4, NextPosition
<1>6. startAt'[w] = <<i, k>> /\ startSaw'[w] = seen
  BY <1>1, <1>2, <1>5 DEF GoesOn, Starting!Goes, StartTyped
<1>7. Program(w)' = f /\ Place(w)' = k
  BY <1>1, <1>4, <1>6 DEF GoesOn, Program, Place
<1>8. ~Starting!Ended(w)'
  BY <1>1, <1>3, <1>6 DEF GoesOn, Starting!Ended, Starting!Count
<1>9. (Inside(w)' <=> k <= Len(f)) /\ Comes(w)' = f[k]
  BY <1>7, <1>8 DEF Inside, Comes
<1>10. NextOf(f, Place(w), k, seen)  BY <1>2, <1>5 DEF NextOf
<1> QED  BY <1>1, <1>4, <1>6, <1>7, <1>8, <1>9, <1>10

LEMMA GoesElsewhere ==
    ASSUME StartTyped, NEW w \in Worker, NEW seen, GoesOn(w, seen)
    PROVE  /\ startArea' = startArea /\ DOMAIN startSaw' = Worker
           /\ \A v \in Worker \ {w} : startAt'[v] = startAt[v] /\ startSaw'[v] = startSaw[v]
BY DEF GoesOn, Starting!Goes, StartTyped

LEMMA GoesTyped ==
    ASSUME Starting!RebuildsWell, StartTyped, NEW w \in Worker, NEW seen, GoesOn(w, seen),
           startWriter' \in Worker \cup {Starting!Nobody},
           Starting!Pairs(startDb'), Starting!Pairs(startDraft')
    PROVE  StartTyped'
<1>1. PICK k \in Nat :
          /\ NextOf(Program(w), Place(w), k, seen)
          /\ startAt'[w] = <<startAt[w][1], k>>
          /\ Program(w)' = Program(w) /\ Place(w)' = k
  BY ComesOn
<1>2. /\ startArea' = startArea /\ DOMAIN startSaw' = Worker
      /\ \A v \in Worker \ {w} : startAt'[v] = startAt[v]
  BY GoesElsewhere
<1>3. startAt[w][1] \in Nat \ {0} /\ Place(w) \in Nat \ {0}
  BY DEF StartTyped, Place
<1>4. startAt' \in [Worker -> (Nat \ {0}) \X (Nat \ {0})]
  <2>1. startAt' = [startAt EXCEPT ![w] = startAt'[w]]
    BY DEF GoesOn, Starting!Goes, StartTyped
  <2>2. startAt'[w] \in (Nat \ {0}) \X (Nat \ {0})  BY <1>1, <1>3 DEF NextOf
  <2> QED  BY <2>1, <2>2 DEF StartTyped
<1>5. ASSUME NEW v \in Worker, ~Starting!Ended(v)'
      PROVE  Place(v)' <= Len(Program(v)') + 1
  <2>1. CASE v = w  BY <1>1, <2>1 DEF NextOf
  <2>2. CASE v # w
    <3>1. /\ Program(v)' = Program(v) /\ Place(v)' = Place(v) /\ ~Starting!Ended(v)
      BY <1>2, <1>5, <2>2, Unmoved
    <3> QED  BY <3>1 DEF StartTyped
  <2> QED  BY <2>1, <2>2
<1> QED  BY <1>2, <1>4, <1>5 DEF StartTyped

LEMMA GoesComesTo ==
    ASSUME Starting!RebuildsWell, StartTyped, ComesTo, NEW w \in Worker, NEW seen,
           GoesOn(w, seen)
    PROVE  ComesTo'
<1>1. PICK k \in Nat :
          /\ NextOf(Program(w), Place(w), k, seen) /\ startSaw'[w] = seen
          /\ Inside(w)' <=> k <= Len(Program(w))
          /\ Comes(w)' = Program(w)[k]
  BY ComesOn
<1>2. ASSUME NEW v \in Worker, Inside(v)', Place(v)' > 1
      PROVE  ~Starting!LeftOut(Comes(v)', startSaw'[v])
  <2>1. CASE v = w  BY <1>1, <1>2, <2>1 DEF NextOf
  <2>2. CASE v # w
    <3>1. startArea' = startArea /\ startAt'[v] = startAt[v] /\ startSaw'[v] = startSaw[v]
      BY <2>2, GoesElsewhere
    <3>2. Inside(v) /\ Place(v) > 1 /\ Comes(v)' = Comes(v)  BY <1>2, <3>1, Unmoved
    <3> QED  BY <3>1, <3>2 DEF ComesTo
  <2> QED  BY <2>1, <2>2
<1>3. \A st, x : Starting!LeftOut(st, x) <=> ~(st.unless \cap x = {} /\ st.given \subseteq x)
  BY DEF Starting!LeftOut
<1> QED  BY <1>2, <1>3 DEF ComesTo, Starting!LeftOut

-----------------------------------------------------------------------------
LEMMA Meets ==
    ASSUME NEW x, NEW y, NEW t, NEW u, x \in {t, u} \/ y \in {t, u}
    PROVE  {x, y} \cap {t, u} # {}
<1>1. x \in {x, y} \cap {t, u} \/ y \in {x, y} \cap {t, u}  OBVIOUS
<1> QED  BY <1>1

\* What a statement may do with the row.
LEMMA Allowed ==
    ASSUME NEW f \in Seq(Step), NEW b \in Starting!Rebuilt, Starting!Rebuilds(f, b),
           NEW j \in 1 .. Len(f)
    PROVE  LET st == f[j] IN
           /\ st.op = "rename" /\ (st.on \in {b.table, b.anew} \/ st.to \in {b.table, b.anew}) =>
                st.on = b.anew /\ st.to = b.table
           /\ st.op \in Adding /\ b.row \in st.items =>
                /\ st.on # b.table
                /\ st.on = b.anew =>
                     /\ Starting!Swaps(f, j, b) /\ st.op = "seed" /\ st.given = {b.row}
                     /\ \E q \in 1 .. j - 1 : Starting!LastRead(f, q, j, b.table)
           /\ st.op = "move" /\ b.row \in st.items =>
                /\ st.to # b.table
                /\ st.to = b.anew => Starting!Swaps(f, j, b) /\ st.on = b.table
           /\ Starting!Swaps(f, j, b) =>
                \/ st.op = "move" /\ st.on = b.table /\ st.to = b.anew /\ b.row \in st.items
                \/ st.op = "seed" /\ st.on = b.anew /\ b.row \in st.items
<1>1. Len(f) \in Nat /\ DOMAIN f = 1 .. Len(f) /\ j \in DOMAIN f  OBVIOUS
<1>2. b.table # b.anew  BY TablesApart
<1>4. ASSUME f[j].op = "rename",
             f[j].on \in {b.table, b.anew} \/ f[j].to \in {b.table, b.anew}
      PROVE  f[j].on = b.anew /\ f[j].to = b.table
  <2>0. {f[j].on, f[j].to} \cap {b.table, b.anew} # {}  BY <1>4, Meets
  <2>1. Starting!Swaps(f, j - 2, b)  BY <1>1, <1>4, <2>0 DEF Starting!Rebuilds
  <2>2. (j - 2) + 2 = j  OBVIOUS
  <2>3. f[(j - 2) + 2].on = b.anew /\ f[(j - 2) + 2].to = b.table
    BY <2>1 DEF Starting!Swaps
  <2> QED  BY <2>2, <2>3
<1>5. ASSUME Starting!Swaps(f, j, b)
      PROVE  \/ /\ f[j].op = "move" /\ f[j].on = b.table /\ f[j].to = b.anew
                /\ b.row \in f[j].items
             \/ /\ f[j].op = "seed" /\ f[j].on = b.anew /\ b.row \in f[j].items
                /\ f[j].given = {b.row}
                /\ \E q \in 1 .. j - 1 : Starting!LastRead(f, q, j, b.table)
  <2>1. Starting!Carries(f, j, b)  BY <1>5 DEF Starting!Swaps
  <2>2. \A X : X = {b.row} => b.row \in X  OBVIOUS
  <2> QED  BY <2>1, <2>2 DEF Starting!Carries
<1>6. ASSUME f[j].op \in Adding, b.row \in f[j].items, f[j].on \in {b.table, b.anew}
      PROVE  Starting!Swaps(f, j, b)
  BY <1>1, <1>6 DEF Starting!Rebuilds, Adding
<1>7. ASSUME f[j].op = "move", b.row \in f[j].items, f[j].to \in {b.table, b.anew}
      PROVE  Starting!Swaps(f, j, b)
  BY <1>1, <1>7 DEF Starting!Rebuilds
<1> QED  BY <1>2, <1>4, <1>5, <1>6, <1>7 DEF Adding

\* A statement outside a transaction leaves the row where it is, and does not bring it
\* into the new table.
LEMMA ByItself ==
    ASSUME Starting!RebuildsWell, StartTyped, NEW b \in Starting!Rebuilt,
           OnTheWay(b), CarriedOver(b), NEW w \in Worker, Inside(w), startWriter # w,
           ~Starting!Opens(Comes(w))
    PROVE  LET after == Starting!After(Comes(w), startDb) IN
           (Row(b) \in after <=> Row(b) \in startDb) /\ NewRow(b) \notin after
<1>1. /\ Program(w) \in Seq(Step) /\ Place(w) \in 1 .. Len(Program(w))
      /\ Starting!Rebuilds(Program(w), b) /\ ~Starting!Ended(w)
  BY ProgramIs DEF Inside
<1>2. PICK st : st = Comes(w)  OBVIOUS
<1>3. PICK j : j = Place(w)  OBVIOUS
<1>4. PICK f : f = Program(w)  OBVIOUS
<1>5. st = f[j]  BY <1>2, <1>3, <1>4 DEF Comes
<1>6. /\ st.op = "rename" /\ (st.on \in {b.table, b.anew} \/ st.to \in {b.table, b.anew}) =>
           st.on = b.anew /\ st.to = b.table
      /\ st.op \in Adding /\ b.row \in st.items =>
           st.on # b.table /\ (st.on = b.anew => st.op = "seed")
      /\ st.op = "move" /\ b.row \in st.items => st.to # b.table
  BY <1>1, <1>3, <1>4, <1>5, Allowed
<1>7. st.op \notin {"seed", "insert", "copy", "move"}  BY <1>2 DEF Starting!Opens
<1>8. Starting!Pairs(startDb) /\ NewRow(b) \notin startDb  BY DEF StartTyped, OnTheWay
<1>9. PICK c : c = startDb  OBVIOUS
<1>10. ASSUME Row(b) \in c  PROVE  Row(b) \in Starting!After(st, c)
  <2>1. ~(st.op = "drop" /\ st.on = b.table)
    BY <1>2, <1>9, <1>10 DEF CarriedOver, Dropping
  <2>2. ~(st.op = "rename" /\ st.on = b.table)
    BY <1>6, TablesApart
  <2>3. <<b.table, b.row>> \in c  BY <1>10 DEF Row
  <2>4. PICK t, x : t = b.table /\ x = b.row  OBVIOUS
  <2>5. <<t, x>> \in Starting!After(st, c)  BY <2>1, <2>2, <2>3, <2>4, TakesAway
  <2> QED  BY <2>4, <2>5 DEF Row
<1>11. ASSUME Row(b) \notin c  PROVE  Row(b) \notin Starting!After(st, c)
  <2> SUFFICES ASSUME Row(b) \in Starting!After(st, c)  PROVE  FALSE  OBVIOUS
  <2>1. PICK t, x : t = b.table /\ x = b.row  OBVIOUS
  <2>2. /\ Starting!Pairs(c) /\ <<t, x>> \notin c /\ x # Starting!Itself
        /\ t # Starting!Second /\ <<t, x>> \in Starting!After(st, c)
    BY <1>8, <1>9, <1>11, <2>1, TablesApart DEF Row
  <2>3. \/ st.op \in Adding /\ st.on = t /\ x \in st.items
        \/ st.op = "move" /\ st.to = t /\ x \in st.items /\ <<st.on, x>> \in c
        \/ st.op = "rename" /\ st.to = t /\ <<st.on, x>> \in c
    BY <2>2, Adds
  <2>4. st.op = "rename" /\ st.to = b.table /\ <<st.on, b.row>> \in c
    BY <1>6, <2>1, <2>3
  <2>5. st.on = b.anew  BY <1>6, <2>4
  <2> QED  BY <1>8, <1>9, <2>4, <2>5 DEF NewRow
<1>12. NewRow(b) \notin Starting!After(st, c)
  <2> SUFFICES ASSUME NewRow(b) \in Starting!After(st, c)  PROVE  FALSE  OBVIOUS
  <2>1. PICK t, x : t = b.anew /\ x = b.row  OBVIOUS
  <2>2. /\ Starting!Pairs(c) /\ <<t, x>> \notin c /\ x # Starting!Itself
        /\ t # Starting!Second /\ <<t, x>> \in Starting!After(st, c)
    BY <1>8, <1>9, <2>1, TablesApart DEF NewRow
  <2>3. \/ st.op \in Adding /\ st.on = t /\ x \in st.items
        \/ st.op = "move" /\ st.to = t /\ x \in st.items /\ <<st.on, x>> \in c
        \/ st.op = "rename" /\ st.to = t /\ <<st.on, x>> \in c
    BY <2>2, Adds
  <2>4. st.op = "rename" /\ st.to = b.anew  BY <1>6, <1>7, <2>1, <2>3
  <2>5. st.to = b.table  BY <1>6, <2>4
  <2> QED  BY <2>4, <2>5, TablesApart
<1> QED  BY <1>2, <1>9, <1>10, <1>11, <1>12

\* How a worker's way through a rebuild goes on.
LEMMA Onward ==
    ASSUME Starting!RebuildsWell, StartTyped, NEW b \in Starting!Rebuilt, NEW w \in Worker,
           NEW seen, GoesOn(w, seen)
    PROVE  /\ Dropping(w, b)' =>
                \/ Starting!Swaps(Program(w), Place(w), b)
                \/ /\ b.row \notin seen
                   /\ \E q \in 1 .. Place(w)' - 1 :
                        Starting!LastRead(Program(w)', q, Place(w)', b.table)
           /\ Renaming(w, b)' => Dropping(w, b)
           /\ Starting!Swaps(Program(w), Place(w), b) => Dropping(w, b)'
           /\ Dropping(w, b) => Renaming(w, b)'
<1>1. /\ Program(w) \in Seq(Step) /\ Place(w) \in 1 .. Len(Program(w))
      /\ Len(Program(w)) \in Nat /\ Starting!Rebuilds(Program(w), b)
      /\ Inside(w) /\ ~Starting!Ended(w)
  BY ProgramIs DEF Inside, GoesOn
<1>2. PICK f : f = Program(w)  OBVIOUS
<1>3. PICK j : j = Place(w)  OBVIOUS
<1>4. PICK k \in Nat :
          /\ NextOf(f, j, k, seen)
          /\ Program(w)' = f /\ Place(w)' = k
          /\ Inside(w)' <=> k <= Len(f)
          /\ Comes(w)' = f[k]
  BY <1>2, <1>3, ComesOn
<1>5. f \in Seq(Step) /\ j \in 1 .. Len(f) /\ Starting!Rebuilds(f, b)
  BY <1>1, <1>2, <1>3
<1>6. /\ k <= Len(f) /\ f[k].op = "drop" /\ f[k].on = b.table =>
           /\ Starting!Swaps(f, k - 1, b)
           /\ \/ k = j + 1
              \/ /\ b.row \notin seen
                 /\ \E q \in 1 .. k - 1 : Starting!LastRead(f, q, k, b.table)
      /\ k <= Len(f) /\ f[k].op = "rename" /\ f[k].to = b.table =>
           f[j].op = "drop" /\ f[j].on = b.table /\ k = j + 1
      /\ Starting!Swaps(f, j, b) => k <= Len(f) /\ f[k].op = "drop" /\ f[k].on = b.table
      /\ f[j].op = "drop" /\ f[j].on = b.table =>
           k <= Len(f) /\ f[k].op = "rename" /\ f[k].to = b.table
  BY <1>4, <1>5, Lands
<1>7. /\ Dropping(w, b)' <=> k <= Len(f) /\ f[k].op = "drop" /\ f[k].on = b.table
      /\ Renaming(w, b)' <=> k <= Len(f) /\ f[k].op = "rename" /\ f[k].to = b.table
      /\ Dropping(w, b) <=> f[j].op = "drop" /\ f[j].on = b.table
  BY <1>1, <1>2, <1>3, <1>4 DEF Dropping, Renaming, Comes
<1>8. k = j + 1 => k - 1 = j  BY <1>5
<1>9. ASSUME Dropping(w, b)'
      PROVE  \/ Starting!Swaps(f, j, b)
             \/ /\ b.row \notin seen
                /\ \E q \in 1 .. Place(w)' - 1 :
                     Starting!LastRead(Program(w)', q, Place(w)', b.table)
  <2>1. CASE k = j + 1  BY <1>6, <1>7, <1>8, <1>9, <2>1
  <2>2. CASE k # j + 1  BY <1>4, <1>6, <1>7, <1>9, <2>2
  <2> QED  BY <2>1, <2>2
<1> QED  BY <1>2, <1>3, <1>6, <1>7, <1>9

\* What a worker has read stays so.
LEMMA StaysSo ==
    ASSUME Starting!RebuildsWell, StartTyped, NEW b \in Starting!Rebuilt, StillSo(b),
           NEW w \in Worker, NEW seen, GoesOn(w, seen),
           Row(b) \in startDb' <=> Row(b) \in startDb,
           IF Starting!Reads(Comes(w))
           THEN Comes(w).on = b.table => (b.row \in seen <=> Row(b) \in startDb)
           ELSE seen = startSaw[w]
    PROVE  StillSo(b)'
<1>1. /\ Place(w) \in Nat \ {0} /\ Len(Program(w)) \in Nat /\ Inside(w) /\ ~Starting!Ended(w)
      /\ Place(w) <= Len(Program(w))
  BY ProgramIs DEF GoesOn, Inside
<1>2. PICK f : f = Program(w)  OBVIOUS
<1>3. PICK j : j = Place(w)  OBVIOUS
<1>4. PICK k \in Nat :
          /\ NextOf(f, j, k, seen) /\ startSaw'[w] = seen
          /\ Program(w)' = f /\ Place(w)' = k
  BY <1>2, <1>3, ComesOn
<1>5. ASSUME NEW v \in Worker, NEW q \in 1 .. Place(v)' - 1, ~Starting!Ended(v)',
             Starting!LastRead(Program(v)', q, Place(v)', b.table)
      PROVE  b.row \in startSaw'[v] <=> Row(b) \in startDb'
  <2>1. CASE v # w
    <3>1. /\ startArea' = startArea /\ startAt'[v] = startAt[v]
          /\ startSaw'[v] = startSaw[v]
      BY <2>1, GoesElsewhere
    <3>2. /\ Program(v)' = Program(v) /\ Place(v)' = Place(v) /\ ~Starting!Ended(v)
      BY <1>5, <3>1, Unmoved
    <3>3. q \in 1 .. Place(v) - 1 /\ Starting!LastRead(Program(v), q, Place(v), b.table)
      BY <1>5, <3>2
    <3> QED  BY <3>1, <3>2, <3>3 DEF StillSo
  <2>2. CASE v = w
    <3>1. q \in 1 .. k - 1 /\ Starting!LastRead(f, q, k, b.table)  BY <1>4, <1>5, <2>2
    <3>2. /\ f[q].op \in {"look", "query"} /\ f[q].on = b.table
          /\ Starting!Unconditional(f[q]) /\ Starting!Reads(f[q])
          /\ \A m \in q + 1 .. k - 1 : ~Starting!Reads(f[m])
      BY <3>1 DEF Starting!LastRead, Starting!Reads
    <3>3. q \notin j + 1 .. k - 1
      BY <1>4, <3>2 DEF NextOf, Starting!Unconditional, Starting!LeftOut
    <3>4. q <= j  BY <1>1, <1>3, <1>4, <3>1, <3>3
    <3>5. Comes(w) = f[j]  BY <1>2, <1>3 DEF Comes
    <3>6. CASE q = j  BY <1>4, <2>2, <3>2, <3>5, <3>6
    <3>7. CASE q < j
      <4>1. j \in q + 1 .. k - 1  BY <1>1, <1>3, <1>4, <3>1, <3>7 DEF NextOf
      <4>2. ~Starting!Reads(Comes(w)) /\ seen = startSaw[w]  BY <3>2, <3>5, <4>1
      <4>3. \A m \in q + 1 .. j - 1 : m \in q + 1 .. k - 1
        BY <1>1, <1>3, <1>4, <3>1 DEF NextOf
      <4>4. Starting!LastRead(f, q, j, b.table)
        BY <3>2, <4>3 DEF Starting!LastRead
      <4>5. q \in 1 .. j - 1  BY <1>1, <1>3, <3>1, <3>7
      <4>6. b.row \in startSaw[w] <=> Row(b) \in startDb
        BY <1>1, <1>2, <1>3, <4>4, <4>5 DEF StillSo
      <4> QED  BY <1>4, <2>2, <4>2, <4>6
    <3> QED  BY <1>1, <1>3, <3>1, <3>4, <3>6, <3>7
  <2> QED  BY <2>1, <2>2
<1> QED  BY <1>5 DEF StillSo

-----------------------------------------------------------------------------
\* A query.
LEMMA QueryKeepsRow ==
    ASSUME Starting!RebuildsWell, StartTyped, Starting!Nobody \notin Worker,
           NEW b \in Starting!Rebuilt, RowInv(b), NEW w \in Worker,
           GoesOn(w, Starting!ItemsOf(Starting!Visible(w), Comes(w).on)),
           Starting!Reads(Comes(w)), UNCHANGED <<startDb, startWriter, startDraft>>
    PROVE  RowInv(b)'
<1>1. PICK seen : seen = Starting!ItemsOf(Starting!Visible(w), Comes(w).on)  OBVIOUS
<1>2. GoesOn(w, seen)  BY <1>1
<1>3. Comes(w).op \in {"look", "query", "stop"}  BY DEF Starting!Reads
<1>4. ~Dropping(w, b) /\ ~Renaming(w, b)  BY <1>3 DEF Dropping, Renaming
<1>5. Comes(w).on = b.table => (b.row \in seen <=> Row(b) \in startDb)
  <2>1. PICK c : c = Starting!Visible(w)  OBVIOUS
  <2>2. Row(b) \in c <=> Row(b) \in startDb
    BY <1>4, <2>1 DEF RowInv, InDraft, Starting!Visible
  <2>3. Starting!Pairs(c)  BY <2>1 DEF StartTyped, Starting!Visible
  <2>4. PICK t, x : t = b.table /\ x = b.row  OBVIOUS
  <2>5. x \in Starting!ItemsOf(c, t) <=> <<t, x>> \in c  BY <2>3, ItemIsThere
  <2> QED  BY <1>1, <2>1, <2>2, <2>4, <2>5 DEF Row
<1>6. StillSo(b)'
  <2>1. StillSo(b)  BY DEF RowInv
  <2>2. Row(b) \in startDb' <=> Row(b) \in startDb  OBVIOUS
  <2> QED  BY <1>2, <1>5, <2>1, <2>2, StaysSo
<1>7. ~Starting!Swaps(Program(w), Place(w), b)
  BY <1>3 DEF Starting!Swaps, Starting!Carries, Comes
<1>8. /\ Dropping(w, b)' =>
           /\ b.row \notin seen
           /\ \E q \in 1 .. Place(w)' - 1 :
                Starting!LastRead(Program(w)', q, Place(w)', b.table)
      /\ ~Renaming(w, b)'
  BY <1>2, <1>4, <1>7, Onward
<1>9. /\ startSaw'[w] = seen /\ ~Starting!Ended(w)'
  BY <1>2, ComesOn
<1>10. Dropping(w, b)' => Row(b) \notin startDb'
  BY <1>6, <1>8, <1>9 DEF StillSo
<1>11. \A v \in Worker \ {w} :
           (Dropping(v, b)' <=> Dropping(v, b)) /\ (Renaming(v, b)' <=> Renaming(v, b))
  BY <1>2, GoesElsewhere, Unmoved
<1>12. CarriedOver(b)'  BY <1>8, <1>10, <1>11 DEF RowInv, CarriedOver, Row, NewRow
<1>13. InDraft(b)'  BY <1>4, <1>8, <1>11 DEF RowInv, InDraft, Row
<1>14. OnTheWay(b)'  BY <1>4, <1>11 DEF RowInv, OnTheWay, Row, NewRow
<1> QED  BY <1>6, <1>12, <1>13, <1>14 DEF RowInv

\* A statement that commits by itself.
LEMMA WriteKeepsRow ==
    ASSUME Starting!RebuildsWell, StartTyped, Starting!Nobody \notin Worker,
           NEW b \in Starting!Rebuilt, RowInv(b), NEW w \in Worker,
           GoesOn(w, startSaw[w]), startWriter = Starting!Nobody,
           ~Starting!Reads(Comes(w)), ~Starting!Opens(Comes(w)),
           startDb' = Starting!After(Comes(w), startDb),
           UNCHANGED <<startWriter, startDraft>>
    PROVE  RowInv(b)' /\ (Row(b) \in startDb' <=> Row(b) \in startDb)
<1>1. (Row(b) \in startDb' <=> Row(b) \in startDb) /\ NewRow(b) \notin startDb'
  BY ByItself DEF RowInv, GoesOn
<1>2. PICK seen : seen = startSaw[w]  OBVIOUS
<1>3. GoesOn(w, seen)  BY <1>2
<1>4. StillSo(b)'
  <2>1. StillSo(b)  BY DEF RowInv
  <2> QED  BY <1>1, <1>2, <1>3, <2>1, StaysSo
<1>5. ~Starting!Swaps(Program(w), Place(w), b)
  BY DEF Starting!Swaps, Starting!Carries, Comes, Starting!Opens
<1>6. /\ Dropping(w, b)' =>
           /\ b.row \notin seen
           /\ \E q \in 1 .. Place(w)' - 1 :
                Starting!LastRead(Program(w)', q, Place(w)', b.table)
      /\ Renaming(w, b)' => Dropping(w, b)
  BY <1>3, <1>5, Onward
<1>7. /\ startSaw'[w] = seen /\ ~Starting!Ended(w)'
  BY <1>3, ComesOn
<1>8. Dropping(w, b)' => Row(b) \notin startDb'
  BY <1>4, <1>6, <1>7 DEF StillSo
<1>9. \A v \in Worker \ {w} :
           (Dropping(v, b)' <=> Dropping(v, b)) /\ (Renaming(v, b)' <=> Renaming(v, b))
  BY <1>3, GoesElsewhere, Unmoved
<1>10. \A v \in Worker : startWriter # v  OBVIOUS
<1>11. CarriedOver(b)'
  BY <1>1, <1>6, <1>8, <1>9, <1>10 DEF RowInv, CarriedOver, Row, NewRow
<1>12. InDraft(b)'  BY <1>1, <1>10 DEF RowInv, InDraft, Row
<1>13. OnTheWay(b)'  BY <1>1, <1>10 DEF RowInv, OnTheWay, Row, NewRow
<1> QED  BY <1>1, <1>4, <1>11, <1>12, <1>13 DEF RowInv

\* A statement in a transaction.
LEMMA DraftKeepsRow ==
    ASSUME Starting!RebuildsWell, StartTyped, Starting!Nobody \notin Worker, ComesTo,
           NEW b \in Starting!Rebuilt, RowInv(b), NEW w \in Worker,
           GoesOn(w, startSaw[w]), startWriter \in {w, Starting!Nobody},
           ~Starting!Reads(Comes(w)),
           startDraft' = Starting!After(Comes(w), Starting!Visible(w)),
           startWriter' = w, startDb' = startDb
    PROVE  RowInv(b)'
<1>1. /\ Program(w) \in Seq(Step) /\ Place(w) \in 1 .. Len(Program(w))
      /\ Place(w) \in Nat \ {0}
      /\ Starting!Rebuilds(Program(w), b) /\ ~Starting!Ended(w) /\ Inside(w)
  BY ProgramIs DEF Inside, GoesOn
<1>2. PICK st : st = Comes(w)  OBVIOUS
<1>3. PICK j : j = Place(w)  OBVIOUS
<1>4. PICK f : f = Program(w)  OBVIOUS
<1>5. PICK c : c = Starting!Visible(w)  OBVIOUS
<1>6. PICK seen : seen = startSaw[w]  OBVIOUS
<1>7. st = f[j]  BY <1>2, <1>3, <1>4 DEF Comes
<1>8. /\ st.op = "rename" /\ (st.on \in {b.table, b.anew} \/ st.to \in {b.table, b.anew}) =>
           st.on = b.anew /\ st.to = b.table
      /\ st.op \in Adding /\ b.row \in st.items =>
           /\ st.on # b.table
           /\ st.on = b.anew =>
                /\ Starting!Swaps(f, j, b) /\ st.op = "seed" /\ st.given = {b.row}
                /\ \E q \in 1 .. j - 1 : Starting!LastRead(f, q, j, b.table)
      /\ st.op = "move" /\ b.row \in st.items =>
           /\ st.to # b.table
           /\ st.to = b.anew => Starting!Swaps(f, j, b) /\ st.on = b.table
      /\ Starting!Swaps(f, j, b) =>
           \/ st.op = "move" /\ st.on = b.table /\ st.to = b.anew /\ b.row \in st.items
           \/ st.op = "seed" /\ st.on = b.anew /\ b.row \in st.items
  BY <1>1, <1>3, <1>4, <1>7, Allowed
<1>9. startDraft' = Starting!After(st, c) /\ Starting!Pairs(c)
  BY <1>2, <1>5 DEF StartTyped, Starting!Visible
<1>10. GoesOn(w, seen)  BY <1>6
<1>11. StillSo(b)'
  <2>1. StillSo(b)  BY DEF RowInv
  <2> QED  BY <1>6, <1>10, <2>1, StaysSo
<1>12. /\ Dropping(w, b)' =>
            \/ Starting!Swaps(f, j, b)
            \/ /\ b.row \notin seen
               /\ \E q \in 1 .. Place(w)' - 1 :
                    Starting!LastRead(Program(w)', q, Place(w)', b.table)
       /\ Renaming(w, b)' => Dropping(w, b)
       /\ Starting!Swaps(f, j, b) => Dropping(w, b)'
       /\ Dropping(w, b) => Renaming(w, b)'
  BY <1>3, <1>4, <1>10, Onward
<1>13. startSaw'[w] = seen /\ ~Starting!Ended(w)'  BY <1>10, ComesOn
<1>14. \A v \in Worker \ {w} :
           /\ (Dropping(v, b)' <=> Dropping(v, b)) /\ (Renaming(v, b)' <=> Renaming(v, b))
           /\ startWriter # v /\ startWriter' # v
  BY <1>10, GoesElsewhere, Unmoved
<1>15. /\ Dropping(w, b) <=> st.op = "drop" /\ st.on = b.table
       /\ Renaming(w, b) <=> st.op = "rename" /\ st.to = b.table
  BY <1>1, <1>2 DEF Dropping, Renaming
<1>16. /\ Row(b) \in startDb => Row(b) \in c \/ Renaming(w, b)
       /\ Row(b) \in c => Row(b) \in startDb
       /\ NewRow(b) \in c => /\ startWriter = w /\ c = startDraft /\ Row(b) \in startDb
                             /\ Dropping(w, b) \/ Renaming(w, b)
       /\ Row(b) \in startDb /\ (Dropping(w, b) \/ Renaming(w, b)) => NewRow(b) \in c
  BY <1>5, <1>14 DEF RowInv, InDraft, OnTheWay, CarriedOver, Starting!Visible
<1>17. PICK t, n, x : t = b.table /\ n = b.anew /\ x = b.row  OBVIOUS
<1>18. /\ Row(b) = <<t, x>> /\ NewRow(b) = <<n, x>> /\ t # n
       /\ x # Starting!Itself /\ t # Starting!Second /\ n # Starting!Second
  BY <1>17, TablesApart DEF Row, NewRow
<1>19. ASSUME Row(b) \in startDb  PROVE  Row(b) \in startDraft' \/ Renaming(w, b)'
  <2>1. CASE Renaming(w, b)
    <3>1. st.op = "rename" /\ st.to = t /\ st.on = n  BY <1>8, <1>15, <1>17, <2>1
    <3>2. <<n, x>> \in c  BY <1>16, <1>18, <1>19, <2>1
    <3>3. x \in Starting!ItemsOf(c, n)  BY <1>9, <3>2, ItemIsThere
    <3>4. <<t, x>> \in Starting!After(st, c)  BY <3>1, <3>3 DEF Starting!After
    <3> QED  BY <1>9, <1>18, <3>4
  <2>2. CASE ~Renaming(w, b) /\ ~Dropping(w, b)
    <3>1. ~(st.op \in {"drop", "rename"} /\ st.on = t)  BY <1>8, <1>15, <1>17, <1>18, <2>2
    <3>2. <<t, x>> \in c  BY <1>16, <1>18, <1>19, <2>2
    <3>3. <<t, x>> \in Starting!After(st, c)  BY <3>1, <3>2, TakesAway
    <3> QED  BY <1>9, <1>18, <3>3
  <2> QED  BY <1>12, <2>1, <2>2
<1>20. ASSUME Row(b) \notin startDb  PROVE  Row(b) \notin startDraft'
  <2> SUFFICES ASSUME Row(b) \in startDraft'  PROVE  FALSE  OBVIOUS
  <2>1. <<t, x>> \notin c /\ <<t, x>> \in Starting!After(st, c)
    BY <1>9, <1>16, <1>18, <1>20
  <2>2. \/ st.op \in Adding /\ st.on = t /\ x \in st.items
        \/ st.op = "move" /\ st.to = t /\ x \in st.items /\ <<st.on, x>> \in c
        \/ st.op = "rename" /\ st.to = t /\ <<st.on, x>> \in c
    BY <1>9, <1>18, <2>1, Adds
  <2>3. st.op = "rename" /\ st.to = t /\ <<st.on, x>> \in c  BY <1>8, <1>17, <2>2
  <2>4. st.on = n  BY <1>8, <1>17, <2>3
  <2> QED  BY <1>16, <1>18, <1>20, <2>3, <2>4
<1>21. ASSUME NewRow(b) \in startDraft'
       PROVE  Row(b) \in startDb /\ (Dropping(w, b)' \/ Renaming(w, b)')
  <2>1. <<n, x>> \in Starting!After(st, c)  BY <1>9, <1>18, <1>21
  <2>2. CASE <<n, x>> \in c
    <3>1. ~(st.op = "rename" /\ st.on = n /\ st.to = t)
      BY <1>18, <2>1 DEF Starting!After
    <3>2. ~Renaming(w, b)  BY <1>8, <1>15, <1>17, <3>1
    <3> QED  BY <1>12, <1>16, <1>18, <2>2, <3>2
  <2>3. CASE <<n, x>> \notin c
    <3>1. \/ st.op \in Adding /\ st.on = n /\ x \in st.items
          \/ st.op = "move" /\ st.to = n /\ x \in st.items /\ <<st.on, x>> \in c
          \/ st.op = "rename" /\ st.to = n /\ <<st.on, x>> \in c
      BY <1>9, <1>18, <2>1, <2>3, Adds
    <3>2. ~(st.op = "rename" /\ st.to = n)  BY <1>8, <1>17, <1>18
    <3>3. Dropping(w, b)'  BY <1>8, <1>12, <1>17, <3>1, <3>2
    <3>4. CASE st.op = "move" /\ <<st.on, x>> \in c /\ x \in st.items /\ st.to = n
      BY <1>8, <1>16, <1>17, <1>18, <3>3, <3>4
    <3>5. CASE st.op \in Adding /\ st.on = n /\ x \in st.items
      <4>1. /\ st.given = {b.row}
            /\ \E q \in 1 .. j - 1 : Starting!LastRead(f, q, j, b.table)
        BY <1>8, <1>17, <3>5
      <4>2. Place(w) > 1  BY <1>1, <1>3, <4>1
      <4>3. ~Starting!LeftOut(st, seen)  BY <1>1, <1>2, <1>6, <4>2 DEF ComesTo
      <4>4. b.row \in seen  BY <4>1, <4>3 DEF Starting!LeftOut
      <4>5. Row(b) \in startDb
        BY <1>1, <1>3, <1>4, <1>6, <4>1, <4>4 DEF RowInv, StillSo
      <4> QED  BY <3>3, <4>5
    <3> QED  BY <3>1, <3>2, <3>4, <3>5
  <2> QED  BY <2>2, <2>3
<1>22. ASSUME Row(b) \in startDb, Dropping(w, b)' \/ Renaming(w, b)'
       PROVE  NewRow(b) \in startDraft'
  <2>1. CASE Dropping(w, b)'
    <3>1. Starting!Swaps(f, j, b)
      <4> SUFFICES ASSUME ~Starting!Swaps(f, j, b)  PROVE  FALSE  OBVIOUS
      <4>1. /\ b.row \notin startSaw'[w]
            /\ \E q \in 1 .. Place(w)' - 1 :
                 Starting!LastRead(Program(w)', q, Place(w)', b.table)
        BY <1>12, <1>13, <2>1
      <4>2. Row(b) \notin startDb'  BY <1>11, <1>13, <4>1 DEF StillSo, Row
      <4> QED  BY <1>22, <4>2 DEF Row
    <3>2. \/ st.op = "move" /\ st.on = t /\ st.to = n /\ x \in st.items
          \/ st.op = "seed" /\ st.on = n /\ x \in st.items
      BY <1>8, <1>17, <3>1
    <3>3. CASE st.op = "seed" /\ st.on = n /\ x \in st.items
      <4>1. <<n, x>> \in Starting!After(st, c)  BY <3>3 DEF Starting!After
      <4> QED  BY <1>9, <1>18, <4>1
    <3>4. CASE st.op = "move" /\ st.on = t /\ st.to = n /\ x \in st.items
      <4>1. <<t, x>> \in c  BY <1>15, <1>16, <1>18, <1>22, <3>4
      <4>2. x \in Starting!ItemsOf(c, t)  BY <1>9, <4>1, ItemIsThere
      <4>3. <<n, x>> \in Starting!After(st, c)  BY <3>4, <4>2 DEF Starting!After
      <4> QED  BY <1>9, <1>18, <4>3
    <3> QED  BY <3>2, <3>3, <3>4
  <2>2. CASE Renaming(w, b)'
    <3>1. st.op = "drop" /\ st.on = t /\ NewRow(b) \in c
      BY <1>12, <1>15, <1>16, <1>17, <1>22, <2>2
    <3>2. <<n, x>> \in Starting!After(st, c)  BY <1>18, <3>1, TakesAway
    <3> QED  BY <1>9, <1>18, <3>2
  <2> QED  BY <1>22, <2>1, <2>2
<1>23. CarriedOver(b)'
  BY <1>14, <1>22 DEF RowInv, CarriedOver, Row, NewRow
<1>24. InDraft(b)'  BY <1>14, <1>19, <1>20 DEF InDraft, Row
<1>25. OnTheWay(b)'  BY <1>21 DEF RowInv, OnTheWay, Row, NewRow
<1> QED  BY <1>11, <1>23, <1>24, <1>25 DEF RowInv

-----------------------------------------------------------------------------
\* No migration begins with the end of a rebuild.
LEMMA NotAtStart ==
    ASSUME Starting!RebuildsWell, NEW a \in DOMAIN Calls, NEW i \in DOMAIN Calls[a],
           NEW b \in Starting!Rebuilt
    PROVE  /\ Len(Calls[a][i]) \in Nat
           /\ ~(Calls[a][i][1].op = "drop" /\ Calls[a][i][1].on = b.table
                /\ 1 <= Len(Calls[a][i]))
           /\ ~(Calls[a][i][1].op = "rename" /\ Calls[a][i][1].to = b.table
                /\ 1 <= Len(Calls[a][i]))
<1>1. PICK f : f = Calls[a][i]  OBVIOUS
<1>2. f \in Seq(Step) /\ Starting!Rebuilds(f, b)
  BY <1>1 DEF Starting!RebuildsWell, Step
<1>3. Len(f) \in Nat /\ DOMAIN f = 1 .. Len(f)  BY <1>2
<1>4. ~Starting!Swaps(f, 1 - 1, b) /\ ~Starting!Swaps(f, 1 - 2, b)
  BY <1>3 DEF Starting!Swaps
<1>5. ASSUME 1 <= Len(f)
      PROVE  /\ ~(f[1].op = "drop" /\ f[1].on = b.table)
             /\ ~(f[1].op = "rename" /\ f[1].to = b.table)
  <2>1. 1 \in DOMAIN f  BY <1>3, <1>5
  <2>2. f[1].to = b.table => {f[1].on, f[1].to} \cap {b.table, b.anew} # {}  BY Meets
  <2> QED  BY <1>2, <1>4, <2>1, <2>2 DEF Starting!Rebuilds
<1> QED  BY <1>1, <1>3, <1>5

\* Some workers come to the beginning of a migration, and none of them leaves a rebuild
\* in the draft.
BeginAnew ==
    /\ startArea' = startArea /\ DOMAIN startSaw' = Worker
    /\ startAt' \in [Worker -> (Nat \ {0}) \X (Nat \ {0})]
    /\ \A v \in Worker :
          Place(v)' = 1 \/ (startAt'[v] = startAt[v] /\ startSaw'[v] = startSaw[v])
    /\ \/ /\ startWriter' = Starting!Nobody /\ startDraft' = {}
          /\ \A v \in Worker : startWriter = v => Place(v)' = 1
       \/ /\ startWriter' = startWriter /\ startDraft' = startDraft
          /\ \A v \in Worker : startWriter = v => startAt'[v] = startAt[v] \/ ~Inside(v)

LEMMA AtStart ==
    ASSUME Starting!RebuildsWell, StartTyped, BeginAnew, NEW v \in Worker, Place(v)' = 1
    PROVE  /\ ~Starting!Ended(v)' => Len(Program(v)') \in Nat
           /\ \A b \in Starting!Rebuilt : ~Dropping(v, b)' /\ ~Renaming(v, b)'
<1>1. CASE Starting!Ended(v)'  BY <1>1 DEF Dropping, Renaming, Inside
<1>2. CASE ~Starting!Ended(v)'
  <2>1. PICK a : a = startArea'  OBVIOUS
  <2>2. PICK i : i = startAt'[v][1]  OBVIOUS
  <2>3. a \in DOMAIN Calls /\ i \in Nat \ {0}  BY <2>1, <2>2 DEF BeginAnew, StartTyped
  <2>4. Calls[a] \in Seq(Seq(Step))  BY <2>3 DEF Starting!RebuildsWell, Step
  <2>5. i \in DOMAIN Calls[a]
    BY <1>2, <2>1, <2>2, <2>3, <2>4 DEF Starting!Ended, Starting!Count
  <2>6. Program(v)' = Calls[a][i] /\ Comes(v)' = Calls[a][i][1]
    BY <2>1, <2>2 DEF Program, Comes
  <2>7. ASSUME NEW b \in Starting!Rebuilt
        PROVE  /\ Len(Calls[a][i]) \in Nat
               /\ ~Dropping(v, b)' /\ ~Renaming(v, b)'
    <3>1. Inside(v)' => 1 <= Len(Calls[a][i])  BY <2>6 DEF Inside
    <3> QED  BY <2>3, <2>5, <2>6, <3>1, NotAtStart DEF Dropping, Renaming
  <2>8. Len(Calls[a][i]) \in Nat  BY <2>4, <2>5
  <2> QED  BY <2>6, <2>7, <2>8
<1> QED  BY <1>1, <1>2

LEMMA AnewTyped ==
    ASSUME Starting!RebuildsWell, StartTyped, ComesTo, BeginAnew, Starting!Pairs(startDb')
    PROVE  StartTyped' /\ ComesTo'
<1>1. \A v \in Worker :
          \/ Place(v)' = 1
          \/ /\ startArea' = startArea /\ startAt'[v] = startAt[v]
             /\ startSaw'[v] = startSaw[v]
  BY DEF BeginAnew
<1>2. ASSUME NEW v \in Worker, ~Starting!Ended(v)'
      PROVE  Place(v)' <= Len(Program(v)') + 1
  <2>1. CASE Place(v)' = 1  BY <1>2, <2>1, AtStart
  <2>2. CASE Place(v)' # 1  BY <1>1, <1>2, <2>2, Unmoved DEF StartTyped
  <2> QED  BY <2>1, <2>2
<1>3. ASSUME NEW v \in Worker, Inside(v)', Place(v)' > 1
      PROVE  ~Starting!LeftOut(Comes(v)', startSaw'[v])
  <2>1. startArea' = startArea /\ startAt'[v] = startAt[v] /\ startSaw'[v] = startSaw[v]
    BY <1>1, <1>3
  <2>2. Inside(v) /\ Place(v) > 1 /\ Comes(v)' = Comes(v)  BY <1>3, <2>1, Unmoved
  <2> QED  BY <2>1, <2>2 DEF ComesTo
<1>4. \A st, x : Starting!LeftOut(st, x) <=> ~(st.unless \cap x = {} /\ st.given \subseteq x)
  BY DEF Starting!LeftOut
<1>5. ComesTo'  BY <1>3, <1>4 DEF ComesTo, Starting!LeftOut
<1>6. Starting!Pairs(startDraft')  BY DEF StartTyped, BeginAnew, Starting!Pairs
<1>7. StartTyped'  BY <1>2, <1>6 DEF StartTyped, BeginAnew
<1> QED  BY <1>5, <1>7

LEMMA AnewKeepsRow ==
    ASSUME Starting!RebuildsWell, StartTyped, Starting!Nobody \notin Worker, BeginAnew,
           NEW b \in Starting!Rebuilt, RowInv(b),
           Row(b) \in startDb' <=> Row(b) \in startDb, NewRow(b) \notin startDb'
    PROVE  RowInv(b)'
<1>1. ASSUME NEW v \in Worker
      PROVE  \/ ~Dropping(v, b)' /\ ~Renaming(v, b)' /\ Place(v)' = 1
             \/ /\ startAt'[v] = startAt[v] /\ startSaw'[v] = startSaw[v]
                /\ Dropping(v, b)' <=> Dropping(v, b)
                /\ Renaming(v, b)' <=> Renaming(v, b)
                /\ Program(v)' = Program(v) /\ Place(v)' = Place(v)
                /\ Starting!Ended(v)' <=> Starting!Ended(v)
  <2>1. CASE Place(v)' = 1  BY <2>1, AtStart
  <2>2. CASE Place(v)' # 1
    <3>1. startArea' = startArea /\ startAt'[v] = startAt[v] /\ startSaw'[v] = startSaw[v]
      BY <2>2 DEF BeginAnew
    <3> QED  BY <3>1, Unmoved
  <2> QED  BY <2>1, <2>2
<1>2. StillSo(b)'
  <2>1. ASSUME NEW v \in Worker, NEW q \in 1 .. Place(v)' - 1, ~Starting!Ended(v)',
               Starting!LastRead(Program(v)', q, Place(v)', b.table)
        PROVE  b.row \in startSaw'[v] <=> Row(b) \in startDb'
    <3>1. Place(v)' # 1  OBVIOUS
    <3>2. /\ startSaw'[v] = startSaw[v] /\ Program(v)' = Program(v)
          /\ Place(v)' = Place(v) /\ ~Starting!Ended(v)
      BY <1>1, <2>1, <3>1
    <3>3. q \in 1 .. Place(v) - 1 /\ Starting!LastRead(Program(v), q, Place(v), b.table)
      BY <2>1, <3>2
    <3> QED  BY <3>2, <3>3 DEF RowInv, StillSo
  <2> QED  BY <2>1 DEF StillSo
<1>3. \A v \in Worker : Dropping(v, b) \/ Renaming(v, b) => Inside(v)
  BY DEF Dropping, Renaming
<1>4. ASSUME NEW v \in Worker, startWriter = v, startWriter' = v
      PROVE  /\ startDraft' = startDraft
             /\ \/ (Dropping(v, b)' <=> Dropping(v, b)) /\ (Renaming(v, b)' <=> Renaming(v, b))
                \/ ~Inside(v)
  <2>1. startDraft' = startDraft /\ (startAt'[v] = startAt[v] \/ ~Inside(v))
    BY <1>4 DEF BeginAnew
  <2>2. startArea' = startArea  BY DEF BeginAnew
  <2> QED  BY <2>1, <2>2, Unmoved
<1>5. ASSUME NEW v \in Worker, Row(b) \in startDb', Dropping(v, b)' \/ Renaming(v, b)'
      PROVE  startWriter' = v /\ NewRow(b) \in startDraft'
  <2>1. startAt'[v] = startAt[v] /\ (Dropping(v, b) \/ Renaming(v, b))  BY <1>1, <1>5
  <2>2. startWriter = v /\ NewRow(b) \in startDraft
    BY <1>5, <2>1 DEF RowInv, CarriedOver
  <2>3. Place(v)' # 1  BY <1>5, AtStart
  <2> QED  BY <2>2, <2>3 DEF BeginAnew
<1>6. CarriedOver(b)'  BY <1>5 DEF CarriedOver, Row, NewRow
<1>7. InDraft(b)'
  BY <1>3, <1>4 DEF RowInv, InDraft, BeginAnew, Row
<1>8. OnTheWay(b)'
  <2>1. CASE startDraft' = {}  BY <2>1 DEF OnTheWay, Row, NewRow
  <2>2. CASE startDraft' # {}
    <3>1. startWriter' = startWriter /\ startDraft' = startDraft  BY <2>2 DEF BeginAnew
    <3>2. ASSUME NewRow(b) \in startDraft
          PROVE  /\ \E v \in Worker : startWriter' = v /\ (Dropping(v, b)' \/ Renaming(v, b)')
                 /\ Row(b) \in startDb'
      <4>1. PICK v \in Worker : startWriter = v /\ (Dropping(v, b) \/ Renaming(v, b))
        BY <3>2 DEF RowInv, OnTheWay
      <4>2. Dropping(v, b)' \/ Renaming(v, b)'  BY <1>3, <1>4, <3>1, <4>1
      <4>3. Row(b) \in startDb'  BY <3>2 DEF RowInv, OnTheWay
      <4> QED  BY <3>1, <4>1, <4>2, <4>3
    <3> QED  BY <3>1, <3>2 DEF OnTheWay, Row, NewRow
  <2> QED  BY <2>1, <2>2
<1> QED  BY <1>2, <1>6, <1>7, <1>8 DEF RowInv

-----------------------------------------------------------------------------
\* What is kept by every step: the invariant, and the row.
RowsSame ==
    /\ StartInv'
    /\ \A b \in Starting!Rebuilt : Row(b) \in startDb <=> Row(b) \in startDb'

LEMMA AnewKeeps ==
    ASSUME Starting!RebuildsWell, Starting!Nobody \notin Worker, StartInv, BeginAnew,
           Starting!Pairs(startDb'),
           \A b \in Starting!Rebuilt : /\ Row(b) \in startDb <=> Row(b) \in startDb'
                                       /\ NewRow(b) \notin startDb'
    PROVE  RowsSame
<1>1. StartTyped /\ ComesTo  BY DEF StartInv
<1>2. StartTyped' /\ ComesTo'  BY <1>1, AnewTyped
<1>3. ASSUME NEW b \in Starting!Rebuilt  PROVE  RowInv(b)'
  <2>1. RowInv(b)  BY DEF StartInv
  <2> QED  BY <1>1, <2>1, AnewKeepsRow
<1>4. StartInv'
  <2>1. Starting!Rebuilt' = Starting!Rebuilt  BY DEF Starting!Rebuilt
  <2> QED  BY <1>2, <1>3, <2>1 DEF StartInv, RowInv, StillSo, CarriedOver, InDraft, OnTheWay,
                                   Row, NewRow
<1> QED  BY <1>4 DEF RowsSame

\* The end of a migration: it failed, it was told to stop, or it commits.
LEMMA LeavesKeeps ==
    ASSUME Starting!RebuildsWell, Starting!Nobody \notin Worker, StartInv,
           NEW w \in Worker, startArea' = startArea,
           Starting!Leaves(w, startDb) \/ (Starting!Leaves(w, startDraft) /\ ~Inside(w))
    PROVE  RowsSame
<1>1. StartTyped  BY DEF StartInv
<1>2. /\ startAt' = [startAt EXCEPT ![w] = <<startAt[w][1] + 1, 1>>]
      /\ startSaw' = [startSaw EXCEPT ![w] = {}]
      /\ IF startWriter = w
         THEN /\ startDb' = startDb \/ (startDb' = startDraft /\ ~Inside(w))
              /\ startWriter' = Starting!Nobody /\ startDraft' = {}
         ELSE startDb' = startDb /\ startWriter' = startWriter /\ startDraft' = startDraft
  BY DEF Starting!Leaves, Starting!dataVars
<1>3. BeginAnew
  <2>1. startAt[w][1] + 1 \in Nat \ {0}  BY <1>1 DEF StartTyped
  <2>2. startAt' \in [Worker -> (Nat \ {0}) \X (Nat \ {0})]
    BY <1>1, <1>2, <2>1 DEF StartTyped
  <2>3. startAt'[w] = <<startAt[w][1] + 1, 1>>  BY <1>1, <1>2 DEF StartTyped
  <2>4. Place(w)' = 1  BY <2>3 DEF Place
  <2>5. \A v \in Worker \ {w} : startAt'[v] = startAt[v] /\ startSaw'[v] = startSaw[v]
    BY <1>1, <1>2 DEF StartTyped
  <2>6. DOMAIN startSaw' = Worker  BY <1>1, <1>2 DEF StartTyped
  <2> QED  BY <1>2, <2>2, <2>4, <2>5, <2>6 DEF BeginAnew
<1>4. Starting!Pairs(startDb')  BY <1>1, <1>2 DEF StartTyped
<1>5. ASSUME NEW b \in Starting!Rebuilt
      PROVE  (Row(b) \in startDb <=> Row(b) \in startDb') /\ NewRow(b) \notin startDb'
  <2>1. RowInv(b)  BY DEF StartInv
  <2>2. CASE startDb' = startDb  BY <2>1, <2>2 DEF RowInv, OnTheWay
  <2>3. CASE startDb' = startDraft /\ startWriter = w /\ ~Inside(w)
    <3>1. ~Dropping(w, b) /\ ~Renaming(w, b)  BY <2>3 DEF Dropping, Renaming
    <3> QED  BY <2>1, <2>3, <3>1 DEF RowInv, InDraft, OnTheWay
  <2> QED  BY <1>2, <2>2, <2>3
<1> QED  BY <1>3, <1>4, <1>5, AnewKeeps

LEMMA StatementKeeps ==
    ASSUME Starting!RebuildsWell, Starting!Nobody \notin Worker, StartInv,
           NEW w \in Worker, Starting!Statement(w)
    PROVE  RowsSame
<1>1. StartTyped /\ ComesTo  BY DEF StartInv
<1>2. /\ startArea' = startArea /\ ~Starting!Ended(w)
      /\ Place(w) <= Len(Starting!Migration(startAt[w][1]))
      /\ Starting!Migration(startAt[w][1]) = Program(w)
  BY DEF Starting!Statement, Place, Program, Starting!Migration
<1>3. Inside(w)  BY <1>2 DEF Inside
<1>4. Starting!Migration(startAt[w][1])[startAt[w][2]] = Comes(w)
  BY <1>2 DEF Comes, Place
<1>5. startAt[w][2] + 1 = Place(w) + 1  BY DEF Place
<1>6. Starting!Reads(Comes(w)) \/ startWriter \in {w, Starting!Nobody}
  BY <1>4 DEF Starting!Statement
<1>7. \/ Starting!Leaves(w, startDb)
      \/ /\ Starting!Reads(Comes(w))
         /\ Starting!Goes(w, startAt[w][1], Place(w) + 1,
                          Starting!ItemsOf(Starting!Visible(w), Comes(w).on))
         /\ UNCHANGED <<startDb, startWriter, startDraft>>
      \/ /\ ~Starting!Reads(Comes(w))
         /\ Starting!Goes(w, startAt[w][1], Place(w) + 1, startSaw[w])
         /\ IF Starting!Opens(Comes(w)) \/ startWriter = w
            THEN /\ startWriter' = w /\ startDb' = startDb
                 /\ startDraft' = Starting!After(Comes(w), Starting!Visible(w))
            ELSE /\ startDb' = Starting!After(Comes(w), Starting!Visible(w))
                 /\ UNCHANGED <<startWriter, startDraft>>
  BY <1>4, <1>5 DEF Starting!Statement, Starting!dataVars
<1>8. ASSUME NEW seen, GoesOn(w, seen), startWriter' \in Worker \cup {Starting!Nobody},
             Starting!Pairs(startDb'), Starting!Pairs(startDraft'),
             \A b \in Starting!Rebuilt : RowInv(b)' /\ (Row(b) \in startDb <=> Row(b) \in startDb')
      PROVE  RowsSame
  <2>1. StartTyped' /\ ComesTo'  BY <1>1, <1>8, GoesTyped, GoesComesTo
  <2>2. Starting!Rebuilt' = Starting!Rebuilt  BY DEF Starting!Rebuilt
  <2>3. StartInv'
    BY <1>8, <2>1, <2>2 DEF StartInv, RowInv, StillSo, CarriedOver, InDraft, OnTheWay,
                            Row, NewRow
  <2> QED  BY <1>8, <2>3 DEF RowsSame
<1>9. CASE Starting!Leaves(w, startDb)  BY <1>2, <1>9, LeavesKeeps
<1>10. CASE /\ Starting!Reads(Comes(w))
            /\ Starting!Goes(w, startAt[w][1], Place(w) + 1,
                             Starting!ItemsOf(Starting!Visible(w), Comes(w).on))
            /\ UNCHANGED <<startDb, startWriter, startDraft>>
  <2>1. GoesOn(w, Starting!ItemsOf(Starting!Visible(w), Comes(w).on))
    BY <1>2, <1>3, <1>10 DEF GoesOn
  <2>2. \A b \in Starting!Rebuilt : RowInv(b)'  BY <1>1, <1>10, <2>1, QueryKeepsRow DEF StartInv
  <2>3. Starting!Pairs(startDb') /\ Starting!Pairs(startDraft')  BY <1>1, <1>10 DEF StartTyped
  <2>4. PICK seen : seen = Starting!ItemsOf(Starting!Visible(w), Comes(w).on)  OBVIOUS
  <2>5. GoesOn(w, seen)  BY <2>1, <2>4
  <2>6. startWriter' \in Worker \cup {Starting!Nobody}  BY <1>1, <1>10 DEF StartTyped
  <2>7. startDb' = startDb  BY <1>10
  <2> QED  BY <1>8, <2>2, <2>3, <2>5, <2>6, <2>7
<1>11. CASE /\ ~Starting!Reads(Comes(w))
            /\ Starting!Goes(w, startAt[w][1], Place(w) + 1, startSaw[w])
            /\ startWriter' = w /\ startDb' = startDb
            /\ startDraft' = Starting!After(Comes(w), Starting!Visible(w))
  <2>1. GoesOn(w, startSaw[w])  BY <1>2, <1>3, <1>11 DEF GoesOn
  <2>2. \A b \in Starting!Rebuilt : RowInv(b)'
    BY <1>1, <1>6, <1>11, <2>1, DraftKeepsRow DEF StartInv
  <2>3. Starting!Pairs(Starting!Visible(w))  BY <1>1 DEF StartTyped, Starting!Visible
  <2>4. PICK st, c : st = Comes(w) /\ c = Starting!Visible(w)  OBVIOUS
  <2>5. Starting!Pairs(startDraft')  BY <1>11, <2>3, <2>4, PairsAfter
  <2>6. Starting!Pairs(startDb')  BY <1>1, <1>11 DEF StartTyped
  <2>7. PICK seen : seen = startSaw[w]  OBVIOUS
  <2>8. GoesOn(w, seen)  BY <2>1, <2>7
  <2> QED  BY <1>8, <1>11, <2>2, <2>5, <2>6, <2>8
<1>12. CASE /\ ~Starting!Reads(Comes(w)) /\ ~Starting!Opens(Comes(w)) /\ startWriter # w
            /\ Starting!Goes(w, startAt[w][1], Place(w) + 1, startSaw[w])
            /\ startDb' = Starting!After(Comes(w), Starting!Visible(w))
            /\ UNCHANGED <<startWriter, startDraft>>
  <2>1. GoesOn(w, startSaw[w])  BY <1>2, <1>3, <1>12 DEF GoesOn
  <2>2. startWriter = Starting!Nobody /\ Starting!Visible(w) = startDb
    BY <1>6, <1>12 DEF Starting!Visible
  <2>3. \A b \in Starting!Rebuilt : RowInv(b)' /\ (Row(b) \in startDb' <=> Row(b) \in startDb)
    BY <1>1, <1>12, <2>1, <2>2, WriteKeepsRow DEF StartInv
  <2>4. PICK st, c : st = Comes(w) /\ c = startDb  OBVIOUS
  <2>5. Starting!Pairs(c)  BY <1>1, <2>4 DEF StartTyped
  <2>6. Starting!Pairs(startDb')  BY <1>12, <2>2, <2>4, <2>5, PairsAfter
  <2>7. Starting!Pairs(startDraft')  BY <1>1, <1>12 DEF StartTyped
  <2>8. PICK seen : seen = startSaw[w]  OBVIOUS
  <2>9. GoesOn(w, seen)  BY <2>1, <2>8
  <2> QED  BY <1>8, <1>12, <2>2, <2>3, <2>6, <2>7, <2>9
<1> QED  BY <1>7, <1>9, <1>10, <1>11, <1>12

LEMMA StartStepKeeps ==
    ASSUME Starting!RebuildsWell, Starting!Nobody \notin Worker, StartInv,
           [Starting!Next]_(Starting!vars)
    PROVE  RowsSame
<1>1. StartTyped /\ ComesTo  BY DEF StartInv
<1>2. \A b \in Starting!Rebuilt : NewRow(b) \notin startDb
  BY DEF StartInv, RowInv, OnTheWay
<1>3. ASSUME NEW w \in Worker, Starting!Commit(w)  PROVE  RowsSame
  <2>1. ~Starting!Ended(w) /\ Place(w) > Len(Program(w))
    BY <1>3 DEF Starting!Commit, Place, Program, Starting!Migration
  <2>2. Place(w) \in Nat /\ Len(Program(w)) \in Nat  BY <1>1, <2>1, ProgramIs
  <2>3. ~Inside(w)  BY <2>1, <2>2 DEF Inside
  <2> QED  BY <1>3, <2>3, LeavesKeeps DEF Starting!Commit
<1>4. ASSUME NEW w \in Worker, Starting!Dies(w)  PROVE  RowsSame
  <2>1. /\ startArea' = startArea /\ startDb' = startDb
        /\ startAt' = [startAt EXCEPT ![w] = <<1, 1>>]
        /\ startSaw' = [startSaw EXCEPT ![w] = {}]
        /\ IF startWriter = w THEN startWriter' = Starting!Nobody /\ startDraft' = {}
           ELSE startWriter' = startWriter /\ startDraft' = startDraft
    BY <1>4 DEF Starting!Dies, Starting!dataVars
  <2>2. startAt' \in [Worker -> (Nat \ {0}) \X (Nat \ {0})] /\ startAt'[w] = <<1, 1>>
    BY <1>1, <2>1 DEF StartTyped
  <2>3. Place(w)' = 1  BY <2>2 DEF Place
  <2>4. \A v \in Worker \ {w} : startAt'[v] = startAt[v] /\ startSaw'[v] = startSaw[v]
    BY <1>1, <2>1 DEF StartTyped
  <2>5. BeginAnew  BY <1>1, <2>1, <2>2, <2>3, <2>4 DEF BeginAnew, StartTyped
  <2>6. Starting!Pairs(startDb')  BY <1>1, <2>1 DEF StartTyped
  <2> QED  BY <1>2, <2>1, <2>5, <2>6, AnewKeeps
<1>5. ASSUME NEW w \in Worker, Starting!CheckIn(w)  PROVE  RowsSame
  <2>1. /\ startArea' = startArea /\ startWriter' = startWriter /\ startDraft' = startDraft
        /\ startAt' = startAt /\ startSaw' = startSaw
        /\ startDb' = startDb \/ startDb' = startDb \cup Starting!Polls
    BY <1>5 DEF Starting!CheckIn
  <2>2. BeginAnew  BY <1>1, <2>1 DEF BeginAnew, StartTyped
  <2>3. Starting!Pairs(startDb')
    BY <1>1, <2>1 DEF Starting!RebuildsWell, StartTyped, Starting!Pairs
  <2>4. ASSUME NEW b \in Starting!Rebuilt
        PROVE  Row(b) \notin Starting!Polls /\ NewRow(b) \notin Starting!Polls
    <3>1. b.table # "agent_polls" /\ b.anew # "agent_polls"  BY DEF Starting!Rebuilt
    <3> QED  BY <3>1 DEF Starting!Polls, Starting!Entire, Row, NewRow
  <2> QED  BY <1>2, <2>1, <2>2, <2>3, <2>4, AnewKeeps
<1>6. ASSUME Starting!Restart  PROVE  RowsSame
  <2>1. /\ startArea' = startArea /\ startWriter' = startWriter /\ startDraft' = startDraft
        /\ startDb' = startDb /\ startSaw' = startSaw
        /\ startAt' = [w \in Worker |-> <<1, 1>>]
        /\ \A w \in Worker : Starting!Ended(w)
    BY <1>6 DEF Starting!Restart, Starting!dataVars, Starting!Beginning
  <2>2. /\ startAt' \in [Worker -> (Nat \ {0}) \X (Nat \ {0})]
        /\ \A w \in Worker : startAt'[w] = <<1, 1>>
    BY <2>1
  <2>3. \A w \in Worker : Place(w)' = 1  BY <2>2 DEF Place
  <2>4. BeginAnew  BY <1>1, <2>1, <2>2, <2>3 DEF BeginAnew, StartTyped, Inside
  <2>5. Starting!Pairs(startDb')  BY <1>1, <2>1 DEF StartTyped
  <2> QED  BY <1>2, <2>1, <2>4, <2>5, AnewKeeps
<1>7. ASSUME UNCHANGED Starting!vars  PROVE  RowsSame
  <2>1. /\ startArea' = startArea /\ startWriter' = startWriter /\ startDraft' = startDraft
        /\ startAt' = startAt /\ startSaw' = startSaw /\ startDb' = startDb
    BY <1>7 DEF Starting!vars, Starting!dataVars
  <2>2. BeginAnew  BY <1>1, <2>1 DEF BeginAnew, StartTyped
  <2>3. Starting!Pairs(startDb')  BY <1>1, <2>1 DEF StartTyped
  <2> QED  BY <1>2, <2>1, <2>2, <2>3, AnewKeeps
<1> QED
  BY <1>3, <1>4, <1>5, <1>6, <1>7, StatementKeeps DEF Starting!Next

LEMMA StartInitially ==
    ASSUME Starting!RebuildsWell, Starting!Nobody \notin Worker, Starting!Init
    PROVE  StartInv
<1>1. /\ startArea \in DOMAIN Calls /\ startWriter = Starting!Nobody /\ startDraft = {}
      /\ startAt = [w \in Worker |-> <<1, 1>>] /\ startSaw = [w \in Worker |-> {}]
  BY DEF Starting!Init, Starting!Beginning
<1>2. Calls[startArea] \in Seq(Seq(Step))  BY <1>1 DEF Starting!RebuildsWell, Step
<1>3. PICK base \in {Starting!New, Starting!Old}, k \in 0 .. Starting!Count(startArea) :
          startDb \subseteq base \cup Starting!Polls
                            \cup UNION {Starting!Brings(i, startArea) : i \in 1 .. k}
  BY DEF Starting!Init
<1>4. \A i \in 1 .. k : i \in DOMAIN Calls[startArea]  BY <1>2 DEF Starting!Count
<1>5. ASSUME NEW i \in 1 .. k
      PROVE  /\ Starting!Pairs(Starting!Brings(i, startArea))
             /\ \A b \in Starting!Rebuilt : NewRow(b) \notin Starting!Brings(i, startArea)
  <2>1. PICK f : f = Calls[startArea][i]  OBVIOUS
  <2>2. f \in Seq(Step) /\ \A b \in Starting!Rebuilt : Starting!Rebuilds(f, b)
    BY <1>1, <1>2, <1>4, <2>1 DEF Starting!RebuildsWell
  <2>3. ASSUME NEW g \in Starting!Brings(i, startArea)
        PROVE  \E m \in DOMAIN f : \E x :
                  /\ g = <<f[m].on, x>>
                  /\ x \in f[m].items \/ x = Starting!Itself
                  /\ f[m].op \in Adding
                  /\ \A r \in DOMAIN f : f[r].op = "rename" => f[r].on # f[m].on
    BY <2>1, <2>3 DEF Starting!Brings, Adding
  <2>4. Starting!Pairs(Starting!Brings(i, startArea))
    <3> SUFFICES ASSUME NEW g \in Starting!Brings(i, startArea)  PROVE  g = <<g[1], g[2]>>
      BY DEF Starting!Pairs
    <3>1. PICK t, x : g = <<t, x>>  BY <2>3
    <3> QED  BY <3>1
  <2>5. ASSUME NEW b \in Starting!Rebuilt, NewRow(b) \in Starting!Brings(i, startArea)
        PROVE  FALSE
    <3>1. PICK m \in DOMAIN f : \E x :
              /\ NewRow(b) = <<f[m].on, x>>
              /\ x \in f[m].items \/ x = Starting!Itself
              /\ f[m].op \in Adding
              /\ \A r \in DOMAIN f : f[r].op = "rename" => f[r].on # f[m].on
      BY <2>3, <2>5
    <3>2. f[m].on = b.anew /\ b.row \in f[m].items  BY <3>1, TablesApart DEF NewRow
    <3>3. m \in 1 .. Len(f) /\ Len(f) \in Nat  BY <2>2
    <3>4. Starting!Swaps(f, m, b)  BY <2>2, <3>1, <3>2, <3>3, Allowed
    <3>5. /\ m + 2 \in 1 .. Len(f) /\ f[m + 2].op = "rename" /\ f[m + 2].on = b.anew
      BY <3>3, <3>4 DEF Starting!Swaps
    <3> QED  BY <2>2, <3>1, <3>2, <3>5
  <2> QED  BY <2>4, <2>5
<1>6. Starting!Pairs(startDb)
  BY <1>3, <1>5 DEF Starting!RebuildsWell, Starting!Pairs
<1>7. \A b \in Starting!Rebuilt : NewRow(b) \notin startDb
  <2> SUFFICES ASSUME NEW b \in Starting!Rebuilt, NewRow(b) \in startDb  PROVE  FALSE
    OBVIOUS
  <2>1. NewRow(b) \notin Starting!New \cup Starting!Old \cup Starting!Polls
    BY DEF Starting!RebuildsWell, NewRow
  <2>2. NewRow(b) \in UNION {Starting!Brings(i, startArea) : i \in 1 .. k}
    BY <1>3, <2>1
  <2>3. PICK i \in 1 .. k : NewRow(b) \in Starting!Brings(i, startArea)  BY <2>2
  <2> QED  BY <1>5, <2>3
<1>8. \A w \in Worker : startAt[w] = <<1, 1>> /\ Place(w) = 1  BY <1>1 DEF Place
<1>9. ASSUME NEW w \in Worker, ~Starting!Ended(w)
      PROVE  /\ Len(Program(w)) \in Nat
             /\ \A b \in Starting!Rebuilt : ~Dropping(w, b) /\ ~Renaming(w, b)
  <2>1. PICK a : a = startArea  OBVIOUS
  <2>2. a \in DOMAIN Calls /\ 1 \in DOMAIN Calls[a]
    BY <1>1, <1>2, <1>8, <1>9, <2>1 DEF Starting!Ended, Starting!Count
  <2>3. Program(w) = Calls[a][1] /\ Comes(w) = Calls[a][1][1]
    BY <1>8, <2>1 DEF Program, Comes
  <2>4. Inside(w) => 1 <= Len(Calls[a][1])  BY <1>8, <2>3 DEF Inside
  <2>5. Len(Program(w)) \in Nat  BY <1>2, <2>1, <2>2, <2>3
  <2> QED  BY <2>2, <2>3, <2>4, <2>5, NotAtStart DEF Dropping, Renaming
<1>10. StartTyped
  <2>1. startAt \in [Worker -> (Nat \ {0}) \X (Nat \ {0})] /\ DOMAIN startSaw = Worker
    BY <1>1
  <2>2. \A w \in Worker : ~Starting!Ended(w) => Place(w) <= Len(Program(w)) + 1
    BY <1>8, <1>9
  <2>3. Starting!Pairs(startDraft)  BY <1>1 DEF Starting!Pairs
  <2> QED  BY <1>1, <1>6, <2>1, <2>2, <2>3 DEF StartTyped
<1>11. ComesTo  BY <1>8 DEF ComesTo
<1>12. ASSUME NEW b \in Starting!Rebuilt  PROVE  RowInv(b)
  <2>1. StillSo(b)  BY <1>8 DEF StillSo
  <2>2. CarriedOver(b)  BY <1>9 DEF CarriedOver, Dropping, Renaming, Inside
  <2>3. InDraft(b)  BY <1>1 DEF InDraft
  <2>4. OnTheWay(b)  BY <1>1, <1>7 DEF OnTheWay
  <2> QED  BY <2>1, <2>2, <2>3, <2>4 DEF RowInv
<1> QED  BY <1>10, <1>11, <1>12 DEF StartInv

\* An enrolled agent and an anomaly rule survive every start: workers that rebuild the
\* same table in any order, fail, die and begin again never commit a state without them.
THEOREM RowsAreKept ==
    ASSUME Starting!StartupBounds, Starting!RebuildsWell
    PROVE  Starting!Spec => Starting!RowsKept
<1>1. Starting!Nobody \notin Worker  BY DEF Starting!StartupBounds, Starting!Nobody
<1>2. Starting!Init => StartInv  BY <1>1, StartInitially
<1>3. StartInv /\ [Starting!Next]_(Starting!vars) => StartInv'
  BY <1>1, StartStepKeeps DEF RowsSame
<1>4. StartInv /\ [Starting!Next]_(Starting!vars) =>
        [\A b \in Starting!Rebuilt :
            <<b.table, b.row>> \in startDb => <<b.table, b.row>> \in startDb']_(Starting!vars)
  BY <1>1, StartStepKeeps DEF RowsSame, Row
<1> QED  BY <1>2, <1>3, <1>4, PTL DEF Starting!Spec, Starting!RowsKept
==============================================================================
