-------------------------------- MODULE Facts --------------------------------
(* What the migrations and the start of the console know of the database: a    *)
(* fact is a pair, a table and an item of it, a column or seeded rows.         *)

Itself == "itself"          \* the item that says that the table is there
Second == "duplicates"      \* the table of the seeds that are there twice
==============================================================================
