--------------------------- MODULE MCSaveClients ----------------------------
(* SaveClients with small sets.                                             *)
EXTENDS SaveClients, TLC

MCSymmetry ==
  Permutations(Requests) \cup Permutations(Files) \cup Permutations(SaveIds)
=============================================================================
