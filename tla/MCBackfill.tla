----------------------------- MODULE MCBackfill -----------------------------
(***************************************************************************)
(* Instance of Backfill for TLC: a loop whose limit is below the number of *)
(* rows, and an admin call that takes more of them.                        *)
(***************************************************************************)
EXTENDS Backfill

MCLimit == [c \in Callers |-> IF c = "loop" THEN 1 ELSE 2]
============================================================================
