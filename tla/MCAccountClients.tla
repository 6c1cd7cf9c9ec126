-------------------------- MODULE MCAccountClients --------------------------
(* A careful client beside one that races and abandons its requests.  No    *)
(* symmetry: the property is a liveness property.                           *)
EXTENDS AccountClients
=============================================================================
