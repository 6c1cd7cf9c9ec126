-------------------------- MODULE MCAccountEvents --------------------------
(* A careful client beside one that races and abandons its requests, and    *)
(* the webhook.                                                             *)
EXTENDS AccountEvents, TLC

MCSymmetry == Permutations(Tokens) \cup Permutations(ObjectIds) \cup Permutations(Requests)
=============================================================================
