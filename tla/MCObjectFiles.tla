--------------------------- MODULE MCObjectFiles ----------------------------
(* ObjectFiles with one key, two versions of different length, two writers  *)
(* and one reader: readers change nothing another call reads, so one shows  *)
(* what any of them may see.                                                *)
EXTENDS ObjectFiles

CONSTANTS v1, v2

MCVersions == {v1, v2}
MCLength == [v \in MCVersions |-> IF v = v1 THEN 2 ELSE 1]

MCSymmetry == Permutations(Writers) \cup Permutations(Inodes)
=============================================================================
