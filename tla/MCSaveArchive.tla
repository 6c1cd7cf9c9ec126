--------------------------- MODULE MCSaveArchive ----------------------------
(* SaveArchive with three fields and one file the editor does not know.     *)
EXTENDS SaveArchive

MCFields == <<"gameKey", "gameRecord", "user">>
=============================================================================
