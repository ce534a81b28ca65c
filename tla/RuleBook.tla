------------------------------- MODULE RuleBook -------------------------------
(* The detection rules as analysts and imports change them.  A rule taken from *)
(* SigmaHQ keeps the text it came with (original_yaml); it may be edited,      *)
(* reverted, cloned, tuned and deleted, and an import moves it on only if      *)
(* nobody has edited it.  A request reads the rule outside any transaction     *)
(* and writes what it made of it in one; requests overlap.                     *)
EXTENDS Integers, FiniteSets

CONSTANTS
    Request,     \* bound: requests that may overlap
    MaxRule,     \* bound: rows ever inserted into sigma_rules
    MaxRelease,  \* bound: texts SigmaHQ publishes for its rule, one after the other
    MaxEdit      \* bound: texts written by hand

RuleBookBounds == MaxRule \in Nat /\ MaxRelease \in Nat \ {0} /\ MaxEdit \in Nat

RuleId == 1 .. MaxRule
NoText == 0
Text == 0 .. MaxRelease + MaxEdit

VARIABLES
    rules,      \* sigma_rules, by id (AUTOINCREMENT: no id comes twice)
    history,    \* sigma_rule_history, by rule
    released,   \* the text SigmaHQ has published last
    edits,      \* texts written by hand so far
    editPc, editSeen,   \* per request: what it is about, and the row it has read
    penned      \* history: the texts each rule was given by hand

rulesVars == <<rules, history, released, edits, editPc, editSeen, penned>>

RuleRow == [there : BOOLEAN, used : BOOLEAN, sigma : BOOLEAN, text : Text, default : Text,
        upstream : Text, tuned : BOOLEAN]
Unused == [there |-> FALSE, used |-> FALSE, sigma |-> FALSE, text |-> NoText,
           default |-> NoText, upstream |-> NoText, tuned |-> FALSE]
Nothing == [rule |-> 0, text |-> NoText, default |-> NoText, file |-> NoText]
Entry == [old : Text, new : Text]

BookTypeOK ==
    /\ rules \in [RuleId -> RuleRow]
    /\ history \in [RuleId -> SUBSET Entry]
    /\ released \in 1 .. MaxRelease /\ edits \in 0 .. MaxEdit
    /\ editPc \in [Request -> {"idle", "edit", "revert", "clone", "file", "import"}]
    /\ editSeen \in [Request -> [rule : 0 .. MaxRule, text : Text, default : Text, file : Text]]
    /\ penned \in [RuleId -> SUBSET Text]

BookInit ==
    /\ rules = [r \in RuleId |-> Unused] /\ history = [r \in RuleId |-> {}]
    /\ released = 1 /\ edits = 0
    /\ editPc = [q \in Request |-> "idle"] /\ editSeen = [q \in Request |-> Nothing]
    /\ penned = [r \in RuleId |-> {}]

There(r) == rules[r].there
NewId == Cardinality({r \in RuleId : rules[r].used}) + 1
NewText == MaxRelease + edits + 1
RequestAt(q, l) == editPc' = [editPc EXCEPT ![q] = l]
Done(q) == RequestAt(q, "idle") /\ editSeen' = [editSeen EXCEPT ![q] = Nothing]

\* An INSERT, if the bound leaves an id for it; an UPDATE by id, if the row is there.
Insert(text, default, sigma) ==
    /\ NewId \in RuleId
    /\ rules' = [rules EXCEPT ![NewId] =
         [Unused EXCEPT !.there = TRUE, !.used = TRUE, !.text = text, !.default = default,
                        !.sigma = sigma]]
Update(r, row) == rules' = IF There(r) THEN [rules EXCEPT ![r] = row] ELSE rules
Pen(r, t) == penned' = [penned EXCEPT ![r] = @ \cup {t}]

-----------------------------------------------------------------------------
(* Rules written, edited, reverted and copied by hand.                        *)

\* POST /api/rules.
Create ==
    /\ edits < MaxEdit
    /\ Insert(NewText, NoText, FALSE)
    /\ Pen(NewId, NewText)
    /\ edits' = edits + 1
    /\ UNCHANGED <<history, released, editPc, editSeen>>

\* What every request about one rule does first; a revert needs a default to go to.
Look(q, r, what) ==
    /\ editPc[q] = "idle" /\ There(r)
    /\ what = "revert" => rules[r].default \notin {NoText, rules[r].text}
    /\ RequestAt(q, what)
    /\ editSeen' = [editSeen EXCEPT ![q] = [Nothing EXCEPT !.rule = r, !.text = rules[r].text,
             !.default = IF what = "revert" THEN rules[r].default ELSE NoText]]
    /\ UNCHANGED <<rules, history, released, edits, penned>>

\* Broken variant: the old text is read after the UPDATE.
Logged_After(old, new) == [old |-> new, new |-> new]
Logged(old, new) == [old |-> old, new |-> new]
LogEdit(q, new) ==
    history' = [history EXCEPT ![editSeen[q].rule] = @ \cup {Logged(editSeen[q].text, new)}]

Edit(q) ==
    /\ editPc[q] = "edit" /\ edits < MaxEdit
    /\ LogEdit(q, NewText)
    /\ Update(editSeen[q].rule, [rules[editSeen[q].rule] EXCEPT !.text = NewText])
    /\ Pen(editSeen[q].rule, NewText)
    /\ edits' = edits + 1
    /\ Done(q)
    /\ UNCHANGED <<released>>

Revert(q) ==
    /\ editPc[q] = "revert"
    /\ LogEdit(q, editSeen[q].default)
    /\ Update(editSeen[q].rule, [rules[editSeen[q].rule] EXCEPT !.text = editSeen[q].default])
    /\ Done(q)
    /\ UNCHANGED <<released, edits, penned>>

Clone(q) ==
    /\ editPc[q] = "clone"
    /\ Insert(editSeen[q].text, NoText, FALSE)
    /\ Pen(NewId, editSeen[q].text)
    /\ Done(q)
    /\ UNCHANGED <<history, released, edits>>

\* The row and its history go.
DeleteRule(r) ==
    /\ There(r)
    /\ rules' = [rules EXCEPT ![r] = [Unused EXCEPT !.used = TRUE]]
    /\ history' = [history EXCEPT ![r] = {}]
    /\ penned' = [penned EXCEPT ![r] = {}]
    /\ UNCHANGED <<released, edits, editPc, editSeen>>

-----------------------------------------------------------------------------
(* Tuning: one UPDATE, or one row beside the rule; no text is touched.        *)

\* Its switch, severity, automatic cases and compliance tags, one rule or many at once.
Tune(R) ==
    /\ \E r \in R : There(r)
    /\ rules' = [r \in RuleId |-> [rules[r] EXCEPT !.tuned = @ \/ (r \in R /\ There(r))]]
    /\ UNCHANGED <<history, released, edits, editPc, editSeen, penned>>

-----------------------------------------------------------------------------
(* SigmaHQ: a release, and an import of the pack that holds the rule.         *)

Publish ==
    /\ released < MaxRelease
    /\ released' = released + 1
    /\ UNCHANGED <<rules, history, edits, editPc, editSeen, penned>>

Download(q) ==
    /\ editPc[q] = "idle"
    /\ editSeen' = [editSeen EXCEPT ![q] = [Nothing EXCEPT !.file = released]]
    /\ RequestAt(q, "file")
    /\ UNCHANGED <<rules, history, released, edits, penned>>

\* The row with the rule's uuid, as it is now.
Existing(file) ==
    IF \E r \in RuleId : There(r) /\ rules[r].sigma
    THEN LET r == CHOOSE x \in RuleId : There(x) /\ rules[x].sigma
         IN  [rule |-> r, text |-> rules[r].text, default |-> rules[r].default, file |-> file]
    ELSE [Nothing EXCEPT !.file = file]

\* Broken variant: whether it was edited is not asked.
Edited_Never(old) == FALSE
Edited(old) == old.text # old.default

IngestRule(old) ==
    LET r == old.rule
    IN  IF r = 0
        THEN Insert(old.file, old.file, TRUE)
        ELSE IF Edited(old) THEN Update(r, [rules[r] EXCEPT !.upstream = old.file])
        ELSE IF old.text # old.file
        THEN Update(r, [rules[r] EXCEPT !.text = old.file, !.default = old.file])
        ELSE UNCHANGED rules

\* Behind another rule of the pack that was written, all in one transaction ...
ImportWithin(q) ==
    /\ editPc[q] = "file"
    /\ IngestRule(Existing(editSeen[q].file))
    /\ Done(q)
    /\ UNCHANGED <<history, released, edits, penned>>

\* ... or as the first one, that is read before the transaction begins.
ImportLook(q) ==
    /\ editPc[q] = "file"
    /\ editSeen' = [editSeen EXCEPT ![q] = Existing(editSeen[q].file)]
    /\ RequestAt(q, "import")
    /\ UNCHANGED <<rules, history, released, edits, penned>>

ImportFirst(q) ==
    /\ editPc[q] = "import"
    /\ IngestRule(editSeen[q])
    /\ Done(q)
    /\ UNCHANGED <<history, released, edits, penned>>

RequestDies(q) ==
    /\ editPc[q] # "idle"
    /\ Done(q)
    /\ UNCHANGED <<rules, history, released, edits, penned>>

BookNext ==
    \/ Create \/ Publish
    \/ \E R \in SUBSET RuleId : Tune(R)
    \/ \E r \in RuleId : DeleteRule(r)
    \/ \E q \in Request :
         \/ \E r \in RuleId, what \in {"edit", "revert", "clone"} : Look(q, r, what)
         \/ Edit(q) \/ Revert(q) \/ Clone(q)
         \/ Download(q) \/ ImportWithin(q) \/ ImportLook(q) \/ ImportFirst(q) \/ RequestDies(q)

BookSpec == BookInit /\ [][BookNext]_rulesVars

-----------------------------------------------------------------------------
(* Properties.                                                               *)

\* What somebody wrote into a rule is its text or in its history as long as the rule
\* is there, whichever edits, reverts and imports overlapped.
EditsRemembered ==
    \A r \in RuleId : There(r) =>
        penned[r] \subseteq {rules[r].text} \cup {h.old : h \in history[r]}
                                            \cup {h.new : h \in history[r]}

\* "Real local edits an import must never silently clobber".
NeverClobbered ==
    [][\A q \in Request, r \in RuleId :
         editPc[q] \in {"file", "import"} /\ editPc'[q] = "idle" /\ There(r) /\ There(r)'
         /\ rules[r].text # rules[r].default => rules'[r].text = rules[r].text]_rulesVars

\* "Updates it in place instead of inserting a fresh duplicate every time".
ImportedOnce == Cardinality({r \in RuleId : There(r) /\ rules[r].sigma}) <= 1

\* Drift means that "SigmaHQ's content has moved past the baseline".
DriftIsNews ==
    \A r \in RuleId : LET x == rules[r]
                    IN  x.there /\ x.text # x.default /\ x.upstream \notin {NoText, x.default}
                        => x.upstream > x.default
=============================================================================
