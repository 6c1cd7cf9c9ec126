--------------------------- MODULE MCStaleSessions --------------------------
(* StaleSessions with small sets, the members of each interchangeable.      *)
EXTENDS StaleSessions, TLC

MCSymmetry ==
  Permutations(Requests) \cup Permutations(OpenIds)
    \cup Permutations(Tokens) \cup Permutations(ObjectIds)
=============================================================================
