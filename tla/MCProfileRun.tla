---------------------------- MODULE MCProfileRun ----------------------------
(***************************************************************************)
(* ProfileRun for TLC.  The answers are those the tables can tell apart:   *)
(* one whose tier is not A and not even one the code knows, and three of   *)
(* tier A that differ in what they hold.                                   *)
(***************************************************************************)
EXTENDS ProfileRun, TLC

CONSTANTS u1, r1, r2

MCUser == {u1}
MCOwner == [e \in Exchange |-> u1]
MCResponseOf == [e \in Exchange |-> IF e = 1 THEN "assembled_stream_uri"
                                             ELSE "upstream_response_uri"]

Symmetry == Permutations(Run)

Ans(tier, rag, c, s) == [tier |-> tier, rag |-> rag, chunk |-> c, sft |-> s]

MCAnswers == {Ans("other", TRUE, TRUE, "none"),
              Ans("A", TRUE, TRUE, "none"),
              Ans("A", FALSE, FALSE, "eligible"),
              Ans("A", FALSE, FALSE, "ineligible")}
MCAnswerA == {Ans("A", TRUE, TRUE, "eligible")}
=============================================================================
