---------------------------- MODULE MCGameSaves -----------------------------
(* GameSaves with small sets: any clients, any races, any aborts.           *)
EXTENDS GameSaves, TLC

MCSymmetry ==
  Permutations(Requests) \cup Permutations(Users)
    \cup Permutations(Files) \cup Permutations(SaveIds)
=============================================================================
