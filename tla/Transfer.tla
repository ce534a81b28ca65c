------------------------------- MODULE Transfer -------------------------------
(* What an import promises of the rows of one upload: they only ever come, and *)
(* they only go all at once, with the import itself, after which none comes.   *)
EXTENDS Integers

CONSTANT Line   \* the lines of the upload

VARIABLES
    there,   \* the lines that have left their row, or their error
    gone     \* the import has been deleted

vars == <<there, gone>>

Init == there = {} /\ gone = FALSE

Store(S) ==
    /\ ~gone
    /\ there' = there \cup S
    /\ UNCHANGED gone

Discard ==
    /\ ~gone
    /\ gone' = TRUE /\ there' = {}

Next == Discard \/ \E S \in SUBSET Line : Store(S)

Spec == Init /\ [][Next]_vars
=============================================================================
