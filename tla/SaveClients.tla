---------------------------- MODULE SaveClients ----------------------------
(***************************************************************************)
(* GameSaves as game clients and the save editor use it.  A device syncs:   *)
(* it lists the user's saves, creates a file token, uploads, points the     *)
(* save at the new file (or creates the save) and deletes the file it saw   *)
(* listed.  Editors edit.  Any number of devices and editors of one user    *)
(* run at once, and any of them stops anywhere.  A device that gives up     *)
(* starts over with a new file: it never sends the same pointer twice.      *)
(*                                                                          *)
(* The handlers that only read (the list, the editor's get, the b30 card)   *)
(* are here, row by row and file by file: they change none of the variables *)
(* of GameSaves, so `stage' says which call they are about to make.         *)
(*                                                                          *)
(* A device may also delete the user.  Of the account itself only one thing *)
(* counts here, whether it has a session: calls that ask for one are        *)
(* refused once delete_session_tables has begun.  (UserSessions has the     *)
(* rest of the account.)                                                    *)
(***************************************************************************)
EXTENDS GameSaves

VARIABLES
  stage,     \* how far the device behind each request slot has come
  player,    \* whose device it is
  target,    \* the save it syncs, None if it saw none listed
  seen,      \* the file it saw listed
  mine,      \* the file it created
  left,      \* the ids its read has yet to go through
  row,       \* the file in the row it read of the first of them
  gone,      \* users whose session is deleted
  leaving,   \* saves and their files that deletes of a user have set out to remove
  unquiet    \* users of whom a delete ran beside another call, or was given up

leave == <<gone, leaving, unquiet>>
reads == <<left, row>>
sync == <<stage, player, target, seen, mine, reads>>
svars == <<vars, sync, leave>>

(* About to read a row, and the token or the object of the file it names.   *)
RowStages == {"list_row", "get_row", "b30_row"}
ReadStages == RowStages \cup {"list_token", "get_token", "open_object"}

Stages == ReadStages \cup {"rest", "token", "upload", "point", "discard", "leave"}

(* What the devices remember, and what is remembered of deletes, has its    *)
(* type.                                                                    *)
SyncTypeOK ==
  /\ stage \in [Requests -> Stages]
  /\ player \in [Requests -> Users \cup {None}]
  /\ target \in [Requests -> SaveIds \cup {None}]
  /\ seen \in [Requests -> Files \cup {None}]
  /\ mine \in [Requests -> Files \cup {None}]
  /\ left \in [Requests -> Lists]
  /\ row \in [Requests -> Files \cup {None}]
  /\ gone \subseteq Users
  /\ leaving \in [Users -> SUBSET (SaveIds \X Files)]
  /\ unquiet \subseteq Users

SInit ==
  /\ Init
  /\ stage = [r \in Requests |-> "rest"]
  /\ player = [r \in Requests |-> None]
  /\ target = [r \in Requests |-> None]
  /\ seen = [r \in Requests |-> None]
  /\ mine = [r \in Requests |-> None]
  /\ left = [r \in Requests |-> NoSaves]
  /\ row = [r \in Requests |-> None]
  /\ gone = {}
  /\ leaving = [u \in Users |-> {}]
  /\ unquiet = {}

At(r, place) == pc[r] = "idle" /\ stage[r] = place

(* The device of r goes to another stage with what it remembers.            *)
Go(r, place) ==
  /\ stage' = [stage EXCEPT ![r] = place]
  /\ UNCHANGED <<player, target, seen, mine, reads>>

(* The device of r goes to another stage and forgets the rest.              *)
Restart(r, place, u, s, f) ==
  /\ stage' = [stage EXCEPT ![r] = place]
  /\ player' = [player EXCEPT ![r] = u]
  /\ target' = [target EXCEPT ![r] = s]
  /\ seen' = [seen EXCEPT ![r] = f]
  /\ mine' = [mine EXCEPT ![r] = None]
  /\ left' = [left EXCEPT ![r] = NoSaves]
  /\ row' = [row EXCEPT ![r] = None]

Rest(r) == Restart(r, "rest", None, None, None)

(* A session of u is there to call with.  Bound: once a delete of u ran     *)
(* beside another call, or was given up, nothing is promised of u's listed  *)
(* saves any more, and no further call of u begins.                         *)
CallsBegin(u) == u \notin gone /\ u \notin unquiet

(* Requests other than r that u's devices and editors are in the middle of. *)
Others(r, u) == {q \in Requests \ {r} : player[q] = u \/ user[q] = u}

Leaving(u) == \E q \in Requests : stage[q] = "leave" /\ player[q] = u

(* Another device of u begins something.                                    *)
Disturb(u) ==
  /\ unquiet' = IF Leaving(u) THEN unquiet \cup {u} ELSE unquiet
  /\ UNCHANGED <<gone, leaving>>

-----------------------------------------------------------------------------
(* The read of r goes on with the ids l, of the first of which it has read  *)
(* the row with file f.                                                     *)
ReadOn(r, place, l, f) ==
  /\ stage' = [stage EXCEPT ![r] = place]
  /\ left' = [left EXCEPT ![r] = l]
  /\ row' = [row EXCEPT ![r] = f]
  /\ UNCHANGED mine

ReadBegin(r, u, place, l) ==
  /\ At(r, "rest")
  /\ CallsBegin(u)
  /\ ReadOn(r, place, l, None)
  /\ player' = [player EXCEPT ![r] = u]
  /\ UNCHANGED <<vars, target, seen>>
  /\ Disturb(u)

(* With the last id read, the device of a sync goes on to its file token.   *)
AfterList(l) == IF l = NoSaves THEN "token" ELSE "list_row"

(* GET classes/_GameSave: the ids, then the row of each ...                 *)
ListIds(r, u) ==
  LET l == game_saves_by_user[u] IN ReadBegin(r, u, AfterList(l), l)

(* ... which is passed over when it is not there ...                        *)
ListRow(r) ==
  /\ At(r, "list_row")
  /\ LET s == Head(left[r]) IN
       \/ Has(game_saves, s) /\ ReadOn(r, "list_token", left[r], Get(game_saves, s))
       \/ ~Has(game_saves, s) /\ ReadOn(r, AfterList(Tail(left[r])), Tail(left[r]), None)
  /\ UNCHANGED <<vars, leave, player, target, seen>>

(* ... and the token of its file, without which the whole list fails.  Of   *)
(* the saves in the answer the device syncs one, with the file it was told. *)
ListToken(r) ==
  /\ At(r, "list_token")
  /\ \/ /\ row[r] \in file_tokens
        /\ ReadOn(r, AfterList(Tail(left[r])), Tail(left[r]), None)
        /\ \/ /\ target' = [target EXCEPT ![r] = Head(left[r])]
              /\ seen' = [seen EXCEPT ![r] = row[r]]
           \/ target[r] # None /\ UNCHANGED <<target, seen>>
        /\ UNCHANGED player
     \/ row[r] \notin file_tokens /\ Rest(r)
  /\ UNCHANGED <<vars, leave>>

(* GET extension/save and extension/b30: the first save of the ids.         *)
OpenIds(r, u) ==
  /\ game_saves_by_user[u] # NoSaves
  /\ \E place \in {"get_row", "b30_row"} :
       ReadBegin(r, u, place, <<Head(game_saves_by_user[u])>>)

(* The card goes from the row to the object, without the token.             *)
OpenRow(r) ==
  /\ At(r, "get_row") \/ At(r, "b30_row")
  /\ LET s == Head(left[r]) IN
       \/ /\ Has(game_saves, s)
          /\ ReadOn(r, IF stage[r] = "get_row" THEN "get_token" ELSE "open_object",
                    left[r], Get(game_saves, s))
          /\ UNCHANGED <<player, target, seen>>
       \/ ~Has(game_saves, s) /\ Rest(r)
  /\ UNCHANGED <<vars, leave>>

OpenToken(r) ==
  /\ At(r, "get_token")
  /\ \/ /\ row[r] \in file_tokens
        /\ ReadOn(r, "open_object", left[r], row[r])
        /\ UNCHANGED <<player, target, seen>>
     \/ row[r] \notin file_tokens /\ Rest(r)
  /\ UNCHANGED <<vars, leave>>

(* The object is read, or not found: either way the call is answered.       *)
OpenObject(r) ==
  /\ At(r, "open_object")
  /\ Rest(r)
  /\ UNCHANGED <<vars, leave>>

Read(r) == ListRow(r) \/ ListToken(r) \/ OpenRow(r) \/ OpenToken(r) \/ OpenObject(r)

-----------------------------------------------------------------------------
SyncToken(r) ==
  /\ At(r, "token")
  /\ player[r] \notin gone
  /\ \E f \in Files :
       /\ CreateToken(r, f)
       /\ mine' = [mine EXCEPT ![r] = f]
  /\ stage' = [stage EXCEPT ![r] = "upload"]
  /\ UNCHANGED <<leave, player, target, seen, reads>>

SyncUpload(r) ==
  /\ \/ At(r, "upload") /\ UploadLookup(r, mine[r]) /\ UNCHANGED sync
     \/ UploadWrite(r) /\ Go(r, "point")
  /\ UNCHANGED leave

SyncPoint(r) ==
  /\ \/ /\ At(r, "point")
        /\ player[r] \notin gone
        /\ \/ target[r] # None /\ UpdateLookup(r, target[r], mine[r])
           \/ target[r] = None /\ CreateLookup(r, player[r], mine[r])
        /\ UNCHANGED sync
     \/ (CreatePutSave(r) \/ CreateReadList(r)) /\ UNCHANGED sync
     \/ /\ UpdatePutSave(r) \/ CreatePutList(r)
        /\ Go(r, "discard")
  /\ UNCHANGED leave

(* However the delete ends, the device is done.                             *)
SyncDiscard(r) ==
  /\ \/ /\ At(r, "discard")
        /\ seen[r] # None
        /\ FileDeleteLookup(r, seen[r])
        /\ IF pc'[r] = "idle" THEN Rest(r) ELSE UNCHANGED sync
     \/ /\ FileDeleteObject(r) \/ FileDeleteToken(r)
        /\ IF pc'[r] = "idle" THEN Rest(r) ELSE UNCHANGED sync
  /\ UNCHANGED leave

(* The device stops, in the middle of a call or between two.                *)
SyncGiveUp(r) ==
  /\ Rest(r)
  /\ \/ Abort(r)
     \/ stage[r] # "rest" /\ pc[r] = "idle" /\ UNCHANGED vars
  /\ unquiet' = IF stage[r] = "leave" THEN unquiet \cup {player[r]} ELSE unquiet
  /\ UNCHANGED <<gone, leaving>>

EditBegin(r, u) ==
  /\ At(r, "rest")
  /\ CallsBegin(u)
  /\ EditLookup(r, u)
  /\ Disturb(u)
  /\ UNCHANGED sync

-----------------------------------------------------------------------------
(* The saves of u whose row is there.                                       *)
Listing(u) == {s \in ToSet(game_saves_by_user[u]) : Has(game_saves, s)}

(* DELETE users/u, the part before the session tables.                      *)
LeaveBegin(r, u) ==
  /\ At(r, "rest")
  /\ CallsBegin(u)
  /\ DeleteUserLookup(r, u)
  /\ Restart(r, "leave", u, None, None)
  /\ leaving' = [leaving EXCEPT ![u] = @ \cup {<<s, Get(game_saves, s)>> : s \in Listing(u)}]
  /\ unquiet' = IF Others(r, u) = {} THEN unquiet ELSE unquiet \cup {u}
  /\ UNCHANGED gone

(* A refused delete leaves the account as it is.                            *)
LeaveStep(r) ==
  /\ DeleteUser(r)
  /\ IF pc'[r] = "idle" /\ pc[r] # "du_next" THEN Rest(r) ELSE UNCHANGED sync
  /\ UNCHANGED leave

(* delete_session_tables.                                                   *)
LeaveSession(r) ==
  /\ At(r, "leave")
  /\ gone' = gone \cup {player[r]}
  /\ Rest(r)
  /\ UNCHANGED <<vars, leaving, unquiet>>

(* get_session of a deleted session: the call is refused.  (Calls beyond    *)
(* the bound are passed over the same way.)                                 *)
Refused(r, u) == ~CallsBegin(u) /\ pc[r] = "idle" /\ UNCHANGED svars

SNext ==
  \E r \in Requests :
    \/ \E u \in Users :
         \/ ListIds(r, u) \/ OpenIds(r, u)
         \/ EditBegin(r, u) \/ LeaveBegin(r, u) \/ Refused(r, u)
    \/ Read(r)
    \/ SyncToken(r) \/ SyncUpload(r) \/ SyncPoint(r) \/ SyncDiscard(r) \/ SyncGiveUp(r)
    \/ Edit(r) /\ UNCHANGED <<sync, leave>>
    \/ LeaveStep(r) \/ LeaveSession(r)

SSpec == SInit /\ [][SNext]_svars

-----------------------------------------------------------------------------
Loadable(f) == f \in file_tokens /\ f \in objects

(* No delete of its user has set out to remove s.                           *)
Kept(s) == \A u \in Users, f \in Files : <<s, f>> \notin leaving[u]

(* Every save can be loaded at every instant: its file has a token and an   *)
(* object, although devices and editors point the same save at new files    *)
(* and delete the old ones at the same time, and stop half-way.             *)
(* (handle_save_extension_put writes token, object, pointer and only then   *)
(* deletes; a device does the same over five requests.)  Only the delete of *)
(* the user takes the file before the save.                                 *)
SavesStayLoadable ==
  \A s \in SaveIds : Has(game_saves, s) /\ Kept(s) => Loadable(Get(game_saves, s))

(* The save a read is at was pointed at another file since its row was      *)
(* read, or is being deleted.                                               *)
Overtaken(r) ==
  LET s == Head(left[r]) IN
    \/ ~Kept(s)
    \/ row[r] # None /\ Get(game_saves, s) # row[r]

(* A list, a get of the editor and a b30 card find each row, token and      *)
(* object they ask for, however the devices, editors and reads of the user  *)
(* overlap and wherever they stop, unless somebody pointed that very save   *)
(* at another file after its row was read, or set out to delete it: only    *)
(* then does a list fail or leave a save out.  (handle_create stores the    *)
(* row before the list; handle_save_extension_put and devices delete a file *)
(* only after the pointer has left it.)                                     *)
ReadsFailOnlyOvertaken ==
  \A r \in Requests : stage[r] \in ReadStages /\ ~Overtaken(r) =>
    /\ stage[r] \in RowStages => Has(game_saves, Head(left[r]))
    /\ stage[r] \in {"list_token", "get_token"} => row[r] \in file_tokens
    /\ stage[r] = "open_object" => row[r] \in objects

(* A user delete that has the user's devices to itself is not refused,      *)
(* whatever races they ran before and wherever they gave up: no listed save *)
(* is without its token or object, and no two share a file.  (The `?' of    *)
(* file::handle_delete inside user::handle_delete.)  After a delete that    *)
(* was given up nothing is promised: see StrandedUntilRepointed.            *)
QuietDeleteSucceeds ==
  [][\A r \in Requests :
       (stage[r] = "leave" /\ pc[r] \in {"du_lookup", "du_object"} /\ pc'[r] = "idle")
         => player[r] \in unquiet']_svars

(* And it leaves nothing: the saves that were listed are gone, with their   *)
(* files' tokens and objects, and so is the list.                           *)
DeletedWithoutTrace ==
  \A u \in gone \ unquiet :
    /\ game_saves_by_user[u] = NoSaves
    /\ \A s \in SaveIds, f \in Files : <<s, f>> \in leaving[u] =>
         ~Has(game_saves, s) /\ f \notin file_tokens /\ f \notin objects

-----------------------------------------------------------------------------
(* Files that a device or an editor is about to point a save at.            *)
Drafts ==
  {f \in Files : \E r \in Requests :
     \/ /\ stage[r] \in {"upload", "point"} /\ mine[r] = f
        /\ pc[r] \notin {"gc_list", "gc_push"}
     \/ pc[r] \in {"xp_newobject", "xp_put"} /\ file[r] = f}

Content(s) ==
  IF Has(game_saves, s) /\ Loadable(Get(game_saves, s)) THEN Get(game_saves, s) ELSE None

Abstract == INSTANCE SaveVersions WITH
  Versions <- Files,
  current <- [s \in SaveIds |-> Content(s)],
  drafts <- Drafts,
  drawn <- drawn \cap Files,
  closing <- {s \in SaveIds : ~Kept(s)}

(* To its devices and editors a save is a register of whole versions: each  *)
(* sync and each edit, of several calls, takes effect at one instant or not *)
(* at all, a version that was replaced never comes back whatever rows the   *)
(* handlers read before, and no failed or late clean-up takes a content     *)
(* away.                                                                    *)
ImplementsVersions == Abstract!Spec
=============================================================================
