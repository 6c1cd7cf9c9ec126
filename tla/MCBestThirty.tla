---------------------------- MODULE MCBestThirty ----------------------------
(* BestThirty with four charts and a song the song list does not know.  An  *)
(* AP of `second' is worth less than 99 percent of either chart of `first', *)
(* so that up to two plays that are no AP rank before the first one.        *)
EXTENDS BestThirty

MCSongs == <<"first", "unknown", "second">>
MCKinds == <<"at", "hd">>
MCCharts == [first |-> [at |-> 16, hd |-> 10], second |-> [at |-> 7, hd |-> 3]]
=============================================================================
