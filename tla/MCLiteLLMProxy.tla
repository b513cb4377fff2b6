--------------------------- MODULE MCLiteLLMProxy ---------------------------
(***************************************************************************)
(* LiteLLMProxy for TLC: two sites on the port of the shipped sites.json,  *)
(* two families, two terminals.                                            *)
(***************************************************************************)
EXTENDS LiteLLMProxy, TLC

CONSTANTS t1, t2, s1, s2, f1, f2

MCTerminals == {t1, t2}
MCSites == {s1, s2}
MCFamilies == {f1, f2}
MCPort == [s \in MCSites |-> 4000]
Symmetry == Permutations(MCTerminals) \cup Permutations(MCSites) \cup Permutations(MCFamilies)
============================================================================
