--------------------------- MODULE MCLocalUpload ----------------------------
(* LocalUpload with small sets: two calls at once on one upload of two      *)
(* parts.  (Two writers of one key are in ObjectFiles.)                     *)
EXTENDS LocalUpload, TLC

MCSymmetry == Permutations(Requests) \cup Permutations(Uploads)
=============================================================================
