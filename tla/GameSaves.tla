----------------------------- MODULE GameSaves -----------------------------
(***************************************************************************)
(* Save files, game saves and what refers to what: the handlers of          *)
(* file/handler.rs, game/handler.rs and extensions/save/handler.rs that     *)
(* write, and the part of user/handler.rs's handle_delete that removes a    *)
(* user's saves.  A save row points at a file; a file is a FileToken row    *)
(* plus an object in the bucket under the same key.                         *)
(*                                                                          *)
(* As in UserSessions a request is a chain of actions, one for each call of *)
(* the store or the bucket, `pc' names its next call, `local' are its        *)
(* variables and Abort ends it anywhere.  A session is only read here; the  *)
(* user a request acts for is an input.  Summaries, meta data and the bytes *)
(* of a save are left out, an upload is its last call, the one that creates *)
(* the object.                                                              *)
(***************************************************************************)
EXTENDS Naturals, FiniteSets, Sequences, KVStorage

CONSTANTS
  Users,             \* object ids of users
  Files,             \* keys random_id may return for a FileToken
  SaveIds,           \* ids random_id may return for a GameSave
  Requests,          \* how many handlers may be in flight at once
  DeleteNeedsObject  \* FileBucket::delete fails on an absent object: TRUE for
                     \* the local bucket of pcs_cli, FALSE for R2

ASSUME GameSavesAssumption ==
  /\ None \notin Users \cup Files \cup SaveIds
  /\ Files \cap SaveIds = {}
  /\ DeleteNeedsObject \in BOOLEAN

VARIABLES
  file_tokens,         \* keys with a row in table "file_tokens"
  objects,             \* keys with an object in the bucket
  game_saves,          \* table "game_saves": save id -> game_file_object_id
  game_saves_by_user,  \* table "game_saves_by_user": user -> save ids
  drawn,               \* ids random_id has returned
  pc,                  \* the call each request is about to make
  user,                \* whom its handler acts for
  save,                \* the save it works on
  file,                \* the file it writes, deletes or points the save at
  old,                 \* the file the save had when an edit read it
  ids                  \* the list of saves it read

files == <<file_tokens, objects>>
saves == <<game_saves, game_saves_by_user>>
local == <<user, save, file, old, ids>>
vars == <<files, saves, drawn, pc, local>>

Lists == Seq(SaveIds)
NoSaves == <<>>

Labels ==
  {"idle", "up_object", "fd_object", "fd_token",
   "gc_save", "gc_list", "gc_push", "gu_save",
   "xp_save", "xp_token", "xp_content", "xp_newtoken", "xp_newobject", "xp_put",
   "xp_delobject", "xp_deltoken",
   "du_next", "du_lookup", "du_object", "du_token", "du_save"}

(* The tables and the locals have their types.                              *)
TypeOK ==
  /\ file_tokens \subseteq Files
  /\ objects \subseteq Files
  /\ game_saves \in [SaveIds -> Files \cup {None}]
  /\ game_saves_by_user \in [Users -> Lists]
  /\ drawn \subseteq Files \cup SaveIds
  /\ pc \in [Requests -> Labels]
  /\ user \in [Requests -> Users \cup {None}]
  /\ save \in [Requests -> SaveIds \cup {None}]
  /\ file \in [Requests -> Files \cup {None}]
  /\ old \in [Requests -> Files \cup {None}]
  /\ ids \in [Requests -> Lists]

(* No list is stored as None or as an empty list; every reader takes None   *)
(* for an empty one, and NoSaves stands for both.                            *)
Init ==
  /\ file_tokens = {}
  /\ objects = {}
  /\ game_saves = EmptyTable(SaveIds)
  /\ game_saves_by_user = [u \in Users |-> NoSaves]
  /\ drawn = {}
  /\ pc = [r \in Requests |-> "idle"]
  /\ user = [r \in Requests |-> None]
  /\ save = [r \in Requests |-> None]
  /\ file = [r \in Requests |-> None]
  /\ old = [r \in Requests |-> None]
  /\ ids = [r \in Requests |-> NoSaves]

-----------------------------------------------------------------------------
FreshFiles == Files \ drawn

(* Mutant: an id is drawn again once no row bears it.                       *)
SaveIdsWithoutRow == {s \in SaveIds : ~Has(game_saves, s)}

FreshSaveIds == SaveIds \ drawn

(* Bound: an edit, which draws a file key late, starts while one is left.   *)
FileToSpare ==
  Cardinality(FreshFiles) >
    Cardinality({r \in Requests : pc[r] \in {"xp_save", "xp_token", "xp_content", "xp_newtoken"}})

Goto(r, label) == pc' = [pc EXCEPT ![r] = label]

(* The handler of r sets all its variables but `old'.                       *)
SetLocals(r, u, s, f, l) ==
  /\ user' = [user EXCEPT ![r] = u]
  /\ save' = [save EXCEPT ![r] = s]
  /\ file' = [file EXCEPT ![r] = f]
  /\ ids' = [ids EXCEPT ![r] = l]

Begin(r, label, u, s, f, l) ==
  /\ pc[r] = "idle"
  /\ Goto(r, label)
  /\ SetLocals(r, u, s, f, l)
  /\ UNCHANGED old

Finish(r) ==
  /\ Goto(r, "idle")
  /\ SetLocals(r, None, None, None, NoSaves)
  /\ old' = [old EXCEPT ![r] = None]

(* A request refused on its first lookup leaves no trace.                   *)
Rejected(r) == pc[r] = "idle" /\ UNCHANGED vars

ToSet(s) == {s[i] : i \in DOMAIN s}

-----------------------------------------------------------------------------
(* POST fileTokens                                                          *)
CreateToken(r, f) ==
  /\ pc[r] = "idle"
  /\ f \in FreshFiles
  /\ FileToSpare
  /\ file_tokens' = file_tokens \cup {f}
  /\ drawn' = drawn \cup {f}
  /\ UNCHANGED <<objects, saves, pc, local>>

(* POST buckets/_/objects/f/uploads/_: the token is looked up once, the     *)
(* object is written calls later.                                           *)
UploadLookup(r, f) ==
  \/ /\ f \in file_tokens
     /\ Begin(r, "up_object", None, None, f, NoSaves)
     /\ UNCHANGED <<files, saves, drawn>>
  \/ f \notin file_tokens /\ Rejected(r)

UploadWrite(r) ==
  /\ pc[r] = "up_object"
  /\ objects' = objects \cup {file[r]}
  /\ Finish(r)
  /\ UNCHANGED <<file_tokens, saves, drawn>>

(* Mutant: the token is not looked for.                                     *)
FileDeleteUnchecked(r, f) ==
  /\ Begin(r, "fd_object", None, None, f, NoSaves)
  /\ UNCHANGED <<files, saves, drawn>>

(* DELETE files/f                                                           *)
FileDeleteLookup(r, f) ==
  \/ /\ f \in file_tokens
     /\ Begin(r, "fd_object", None, None, f, NoSaves)
     /\ UNCHANGED <<files, saves, drawn>>
  \/ f \notin file_tokens /\ Rejected(r)

(* Whether FileBucket::delete of f succeeds.                                *)
CanDelete(f) == f \in objects \/ ~DeleteNeedsObject

FileDeleteObject(r) ==
  /\ pc[r] = "fd_object"
  /\ \/ /\ CanDelete(file[r])
        /\ objects' = objects \ {file[r]}
        /\ Goto(r, "fd_token")
        /\ UNCHANGED local
     \/ /\ ~CanDelete(file[r])
        /\ Finish(r)
        /\ UNCHANGED objects
  /\ UNCHANGED <<file_tokens, saves, drawn>>

FileDeleteToken(r) ==
  /\ pc[r] = "fd_token"
  /\ file_tokens' = file_tokens \ {file[r]}
  /\ Finish(r)
  /\ UNCHANGED <<objects, saves, drawn>>

-----------------------------------------------------------------------------
(* POST classes/_GameSave by u, for file f                                  *)
CreateLookup(r, u, f) ==
  \/ /\ f \in file_tokens
     /\ \E s \in FreshSaveIds :
          /\ Begin(r, "gc_save", u, s, f, NoSaves)
          /\ drawn' = drawn \cup {s}
     /\ UNCHANGED <<files, saves>>
  \/ f \notin file_tokens /\ Rejected(r)

CreatePutSave(r) ==
  /\ pc[r] = "gc_save"
  /\ game_saves' = Put(game_saves, save[r], file[r])
  /\ Goto(r, "gc_list")
  /\ UNCHANGED <<files, game_saves_by_user, drawn, local>>

CreateReadList(r) ==
  /\ pc[r] = "gc_list"
  /\ ids' = [ids EXCEPT ![r] = game_saves_by_user[user[r]]]
  /\ Goto(r, "gc_push")
  /\ UNCHANGED <<files, saves, drawn, user, save, file, old>>

(* Mutant: the list gets the id of the file.                                *)
CreatePutFileInList(r) ==
  /\ pc[r] = "gc_push"
  /\ game_saves_by_user' =
       [game_saves_by_user EXCEPT ![user[r]] = Append(ids[r], file[r])]
  /\ Finish(r)
  /\ UNCHANGED <<files, game_saves, drawn>>

(* The list read one call ago, with the new id at its end.                  *)
CreatePutList(r) ==
  /\ pc[r] = "gc_push"
  /\ game_saves_by_user' =
       [game_saves_by_user EXCEPT ![user[r]] = Append(ids[r], save[r])]
  /\ Finish(r)
  /\ UNCHANGED <<files, game_saves, drawn>>

(* Mutant: an unknown save id is taken for a new save.                      *)
UpdateUpsert(r, s, f) ==
  /\ Begin(r, "gu_save", None, s, f, NoSaves)
  /\ UNCHANGED <<files, saves, drawn>>

(* PUT classes/_GameSave/s: any session will do, and f is not looked up.    *)
UpdateLookup(r, s, f) ==
  \/ /\ Has(game_saves, s)
     /\ Begin(r, "gu_save", None, s, f, NoSaves)
     /\ UNCHANGED <<files, saves, drawn>>
  \/ ~Has(game_saves, s) /\ Rejected(r)

UpdatePutSave(r) ==
  /\ pc[r] = "gu_save"
  /\ game_saves' = Put(game_saves, save[r], file[r])
  /\ Finish(r)
  /\ UNCHANGED <<files, game_saves_by_user, drawn>>

-----------------------------------------------------------------------------
(* PUT extension/save/_ by u: edit the user's first save into a new file.   *)
EditLookup(r, u) ==
  \/ /\ game_saves_by_user[u] # NoSaves
     /\ FileToSpare
     /\ Begin(r, "xp_save", u, Head(game_saves_by_user[u]), None, NoSaves)
     /\ UNCHANGED <<files, saves, drawn>>
  \/ game_saves_by_user[u] = NoSaves /\ Rejected(r)

EditReadSave(r) ==
  /\ pc[r] = "xp_save"
  /\ \/ /\ Has(game_saves, save[r])
        /\ old' = [old EXCEPT ![r] = Get(game_saves, save[r])]
        /\ Goto(r, "xp_token")
        /\ UNCHANGED <<user, save, file, ids>>
     \/ /\ ~Has(game_saves, save[r])
        /\ Finish(r)
  /\ UNCHANGED <<files, saves, drawn>>

(* The old content is read only when some field is not given.               *)
EditReadToken(r) ==
  /\ pc[r] = "xp_token"
  /\ \/ /\ old[r] \in file_tokens
        /\ \E label \in {"xp_content", "xp_newtoken"} : Goto(r, label)
        /\ UNCHANGED local
     \/ /\ old[r] \notin file_tokens
        /\ Finish(r)
  /\ UNCHANGED <<files, saves, drawn>>

EditReadContent(r) ==
  /\ pc[r] = "xp_content"
  /\ \/ /\ old[r] \in objects
        /\ Goto(r, "xp_newtoken")
        /\ UNCHANGED local
     \/ Finish(r)   \* absent, or not a save
  /\ UNCHANGED <<files, saves, drawn>>

EditPutToken(r) ==
  /\ pc[r] = "xp_newtoken"
  /\ \E f \in FreshFiles :
       /\ file_tokens' = file_tokens \cup {f}
       /\ drawn' = drawn \cup {f}
       /\ file' = [file EXCEPT ![r] = f]
  /\ Goto(r, "xp_newobject")
  /\ UNCHANGED <<objects, saves, user, save, old, ids>>

(* Mutant: the old object makes room before the save points at the new one. *)
EditPutObjectOverOld(r) ==
  /\ pc[r] = "xp_newobject"
  /\ objects' = (objects \ {old[r]}) \cup {file[r]}
  /\ Goto(r, "xp_put")
  /\ UNCHANGED <<file_tokens, saves, drawn, local>>

EditPutObject(r) ==
  /\ pc[r] = "xp_newobject"
  /\ objects' = objects \cup {file[r]}
  /\ Goto(r, "xp_put")
  /\ UNCHANGED <<file_tokens, saves, drawn, local>>

EditPutSave(r) ==
  /\ pc[r] = "xp_put"
  /\ game_saves' = Put(game_saves, save[r], file[r])
  /\ Goto(r, "xp_delobject")
  /\ UNCHANGED <<files, game_saves_by_user, drawn, local>>

(* Mutant: when the old object cannot be deleted, the old row is restored.  *)
EditDeleteOrRestore(r) ==
  /\ pc[r] = "xp_delobject"
  /\ \/ objects' = objects \ {old[r]} /\ UNCHANGED game_saves
     \/ game_saves' = Put(game_saves, save[r], old[r]) /\ UNCHANGED objects
  /\ Goto(r, "xp_deltoken")
  /\ UNCHANGED <<file_tokens, game_saves_by_user, drawn, local>>

(* Both deletes may fail; their results are dropped.                        *)
EditDeleteObject(r) ==
  /\ pc[r] = "xp_delobject"
  /\ \/ objects' = objects \ {old[r]}
     \/ UNCHANGED objects
  /\ Goto(r, "xp_deltoken")
  /\ UNCHANGED <<file_tokens, saves, drawn, local>>

EditDeleteToken(r) ==
  /\ pc[r] = "xp_deltoken"
  /\ \/ file_tokens' = file_tokens \ {old[r]}
     \/ UNCHANGED file_tokens
  /\ Finish(r)
  /\ UNCHANGED <<objects, saves, drawn>>

-----------------------------------------------------------------------------
(* DELETE users/u, up to its session tables.                                *)
DeleteUserLookup(r, u) ==
  /\ Begin(r, "du_next", u, None, None, game_saves_by_user[u])
  /\ UNCHANGED <<files, saves, drawn>>

DeleteUserNext(r) ==
  /\ pc[r] = "du_next"
  /\ ids[r] # NoSaves
  /\ LET s == Head(ids[r]) IN
       /\ save' = [save EXCEPT ![r] = s]
       /\ file' = [file EXCEPT ![r] = Get(game_saves, s)]
       /\ Goto(r, IF Has(game_saves, s) THEN "du_lookup" ELSE "du_save")
  /\ UNCHANGED <<files, saves, drawn, user, old, ids>>

(* Mutant: a save whose file has no token is deleted without it.            *)
DeleteUserSkipMissing(r) ==
  /\ pc[r] = "du_lookup"
  /\ Goto(r, IF file[r] \in file_tokens THEN "du_object" ELSE "du_save")
  /\ UNCHANGED <<files, saves, drawn, local>>

(* file::handle_delete: a missing token or object ends the whole request.   *)
DeleteUserFileLookup(r) ==
  /\ pc[r] = "du_lookup"
  /\ \/ file[r] \in file_tokens /\ Goto(r, "du_object") /\ UNCHANGED local
     \/ file[r] \notin file_tokens /\ Finish(r)
  /\ UNCHANGED <<files, saves, drawn>>

DeleteUserObject(r) ==
  /\ pc[r] = "du_object"
  /\ \/ /\ CanDelete(file[r])
        /\ objects' = objects \ {file[r]}
        /\ Goto(r, "du_token")
        /\ UNCHANGED local
     \/ /\ ~CanDelete(file[r])
        /\ Finish(r)
        /\ UNCHANGED objects
  /\ UNCHANGED <<file_tokens, saves, drawn>>

(* Mutant: the token stays when the object is gone.                         *)
DeleteUserKeepToken(r) ==
  /\ pc[r] = "du_token"
  /\ Goto(r, "du_save")
  /\ UNCHANGED <<files, saves, drawn, local>>

DeleteUserToken(r) ==
  /\ pc[r] = "du_token"
  /\ file_tokens' = file_tokens \ {file[r]}
  /\ Goto(r, "du_save")
  /\ UNCHANGED <<objects, saves, drawn, local>>

DeleteUserSave(r) ==
  /\ pc[r] = "du_save"
  /\ game_saves' = Delete(game_saves, save[r])
  /\ ids' = [ids EXCEPT ![r] = Tail(ids[r])]
  /\ Goto(r, "du_next")
  /\ UNCHANGED <<files, game_saves_by_user, drawn, user, save, file, old>>

DeleteUserList(r) ==
  /\ pc[r] = "du_next"
  /\ ids[r] = NoSaves
  /\ game_saves_by_user' = [game_saves_by_user EXCEPT ![user[r]] = NoSaves]
  /\ Finish(r)
  /\ UNCHANGED <<files, game_saves, drawn>>

Abort(r) ==
  /\ pc[r] # "idle"
  /\ Finish(r)
  /\ UNCHANGED <<files, saves, drawn>>

-----------------------------------------------------------------------------
(* A client names only ids it was told.                                     *)
Start(r) ==
  \/ \E f \in Files : CreateToken(r, f)
  \/ \E f \in Files \cap drawn :
       \/ UploadLookup(r, f)
       \/ FileDeleteLookup(r, f)
       \/ \E u \in Users : CreateLookup(r, u, f)
       \/ \E s \in SaveIds \cap drawn : UpdateLookup(r, s, f)
  \/ \E u \in Users : EditLookup(r, u) \/ DeleteUserLookup(r, u)

Edit(r) ==
  \/ EditReadSave(r) \/ EditReadToken(r) \/ EditReadContent(r)
  \/ EditPutToken(r) \/ EditPutObject(r) \/ EditPutSave(r)
  \/ EditDeleteObject(r) \/ EditDeleteToken(r)

DeleteUser(r) ==
  \/ DeleteUserNext(r) \/ DeleteUserFileLookup(r) \/ DeleteUserObject(r)
  \/ DeleteUserToken(r) \/ DeleteUserSave(r) \/ DeleteUserList(r)

Step(r) ==
  \/ UploadWrite(r)
  \/ FileDeleteObject(r) \/ FileDeleteToken(r)
  \/ CreatePutSave(r) \/ CreateReadList(r) \/ CreatePutList(r)
  \/ UpdatePutSave(r)
  \/ Edit(r)
  \/ DeleteUser(r)

Next == \E r \in Requests : Start(r) \/ Step(r) \/ Abort(r)

Spec == Init /\ [][Next]_vars

-----------------------------------------------------------------------------
(* No save is in two lists, or twice in one, whatever lists of creates that *)
(* overlap replace one another: deleting one user never takes another's     *)
(* save.  (list.push and the put of a list read a call earlier in           *)
(* game/handler.rs, against the list's delete in user/handler.rs.)          *)
ListsAreApart ==
  /\ \A u \in Users : \A i, j \in DOMAIN game_saves_by_user[u] :
       game_saves_by_user[u][i] = game_saves_by_user[u][j] => i = j
  /\ \A u, v \in Users : u # v =>
       ToSet(game_saves_by_user[u]) \cap ToSet(game_saves_by_user[v]) = {}

(* Some handler is about to write the row of s.                             *)
PutPending(s) ==
  \E r \in Requests :
    /\ save[r] = s
    /\ pc[r] \in {"gc_save", "gu_save", "xp_token", "xp_content", "xp_newtoken",
                  "xp_newobject", "xp_put"}

Deleted(s) == s \in drawn /\ ~Has(game_saves, s) /\ ~PutPending(s)

(* A deleted save comes back only through a handler that had looked it up   *)
(* before it was deleted: handle_update and the extension's put write the   *)
(* row they read some calls ago, and nothing else does.                     *)
DeletedForGood == [][\A s \in SaveIds : Deleted(s) => Deleted(s)']_vars

(* A handler found f's token and may still delete f's object.               *)
RemovalPending(f) ==
  \E r \in Requests :
    \/ pc[r] \in {"fd_object", "du_object"} /\ file[r] = f
    \/ /\ pc[r] \in {"xp_content", "xp_newtoken", "xp_newobject", "xp_put", "xp_delobject"}
       /\ old[r] = f

(* An object without a token: left by the editor's put when its first       *)
(* delete fails, and by an upload that found its token before the file was  *)
(* deleted.                                                                 *)
Leaked(f) == f \in objects /\ f \notin file_tokens /\ ~RemovalPending(f)

(* Such an object stays for good: every handler that deletes objects looks  *)
(* the token up first, and no key is given a token twice.                   *)
LeaksStay == [][\A f \in Files : Leaked(f) => Leaked(f)']_vars

(* Some handler is about to point s at another file.                        *)
RepointPending(s) ==
  \E r \in Requests :
    /\ save[r] = s
    /\ pc[r] \in {"gc_save", "gu_save", "xp_content", "xp_newtoken", "xp_newobject", "xp_put"}

(* A user delete has found the file of s, or is done with it.               *)
DeletePending(s) ==
  \E r \in Requests :
    /\ save[r] = s
    /\ \/ pc[r] \in {"du_object", "du_token", "du_save"}
       \/ pc[r] = "du_lookup" /\ file[r] \in file_tokens

(* s points at a file whose token is gone: what a user delete that stops    *)
(* before it deletes the save leaves, or a file deleted under its save.     *)
Stranded(s) ==
  /\ Has(game_saves, s)
  /\ Get(game_saves, s) \notin file_tokens
  /\ ~RepointPending(s)
  /\ ~DeletePending(s)

(* No user delete gets past such a save, however often it is repeated: its  *)
(* file::handle_delete fails on the missing token, before the save's row.   *)
(* Only a rename that points the save at another file ends it; the editor,  *)
(* which fails on the same token, does not.                                 *)
StrandedUntilRepointed ==
  [][\A s \in SaveIds : Stranded(s) => (Stranded(s) \/ RepointPending(s))']_vars
=============================================================================
