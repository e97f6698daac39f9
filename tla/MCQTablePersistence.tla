------------------------ MODULE MCQTablePersistence ------------------------
(* Two child sets, two states, two row contents; symmetric in the child   *)
(* sets and in the row contents.                                          *)
EXTENDS QTablePersistence, TLC

CONSTANTS s1, s2, r1, r2

MCSigs == {s1, s2}
MCRows == {r1, r2}
MCSymmetry == Permutations(MCSigs) \cup Permutations(MCRows)
=============================================================================
