----------------------------- MODULE MCUserQuota ----------------------------
(* UserQuota with three openids for two slots and two checks at once.       *)
EXTENDS UserQuota, TLC

MCSymmetry == Permutations(Requests) \cup Permutations(OpenIds)
=============================================================================
