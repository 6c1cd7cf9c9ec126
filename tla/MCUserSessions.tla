--------------------------- MODULE MCUserSessions ---------------------------
(* UserSessions with small sets: every race and every abort of any          *)
(* requests by any clients.  The members of every set are interchangeable.  *)
EXTENDS UserSessions, TLC

MCSymmetry ==
  Permutations(Requests) \cup Permutations(OpenIds)
    \cup Permutations(Tokens) \cup Permutations(ObjectIds)
=============================================================================
