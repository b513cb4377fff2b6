---------------------------- MODULE MCTokenCache ----------------------------
(***************************************************************************)
(* TokenCache for TLC.  One token under its two spellings, and two         *)
(* connections, one of which sends it without "sk-": they share both       *)
(* entries and ask for them in different orders.                           *)
(***************************************************************************)
EXTENDS TokenCache

CONSTANTS long, short, l1, l2

MCKey == {long, short}
MCLookup == {l1, l2}
MCCandidates == [l \in MCLookup |-> IF l = l2 THEN <<short, long>> ELSE <<long, short>>]
============================================================================
