---------------------------- MODULE MCAttribution ----------------------------
(***************************************************************************)
(* Instantiates Attribution for TLC: three addresses against a table of    *)
(* two, so that the wholesale clear happens on both the insertion and the  *)
(* redundant path; two candidates per query, so that one query can both   *)
(* fill and clear the table; children 0 and 1 are Queued prefetchers and  *)
(* re-issue each other's addresses, child 2 is not.                       *)
(***************************************************************************)
EXTENDS Attribution

CONSTANTS a1, a2, a3

MCAddrs == {a1, a2, a3}

\* Addresses are only compared for equality.
AddrSymmetry == Permutations(MCAddrs)
=============================================================================
