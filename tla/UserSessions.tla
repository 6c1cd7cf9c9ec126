---------------------------- MODULE UserSessions ----------------------------
(***************************************************************************)
(* The user component of pcs_core: handle_register (which also logs in),    *)
(* handle_update, handle_refresh_token and handle_delete of                 *)
(* user/handler.rs, over the three session tables of user/model.rs.         *)
(*                                                                          *)
(* Every request is a task of its own and yields at each call of the store, *)
(* so a handler is a chain of actions, one for each such call together with *)
(* the local computation that follows it.  `pc' names the call a request is *)
(* about to make; `held' and `session' are its local variables.  Abort      *)
(* stands for everything that ends a handler between two calls: the client  *)
(* closes its connection and the future is dropped, the store returns an    *)
(* error that `?' propagates, the process stops.  (A redb call already      *)
(* handed to the blocking pool still commits when its handler is dropped:   *)
(* that handler is aborted after the call.)                                 *)
(*                                                                          *)
(* An action whose call is a read is the operator named ...Reading, given   *)
(* what the read returns: the current row here, an older one in             *)
(* StaleSessions.                                                           *)
(*                                                                          *)
(* handle_get_current changes nothing and is the state function GetCurrent. *)
(* Time stamps, short_id and webhook payloads are left out.                 *)
(***************************************************************************)
EXTENDS Naturals, FiniteSets, KVStorage

CONSTANTS
  OpenIds,     \* identities vouched for by the platform (AuthData.openid)
  ObjectIds,   \* ids random_id may return for a user object
  Tokens,      \* ids random_id may return for a session token
  Nicknames,
  Requests     \* request slots: how many handlers may be in flight at once

Session ==
  [object_id: ObjectIds, nickname: Nicknames, openid: OpenIds, session_token: Tokens]

(* Whom an id was drawn for.                                                *)
Identity == [openid: OpenIds, object_id: ObjectIds]

ASSUME NoneAssumption ==
  /\ None \notin OpenIds \cup ObjectIds \cup Tokens
  /\ None \notin Session
  /\ None \notin Identity

VARIABLES
  sessions,            \* table "sessions": session token -> Session
  sessions_by_openid,  \* table "sessions_by_openid": openid -> session token
  sessions_by_objid,   \* table "sessions_by_objid": object id -> session token
  minted,              \* identity each token was drawn for, None if not drawn yet
  pc,                  \* the store call each request is about to make
  held,                \* token a request read from an index
  session              \* `session' of a handler

tables == <<sessions, sessions_by_openid, sessions_by_objid>>
locals == <<held, session>>
vars == <<tables, minted, pc, locals>>

Labels ==
  {"idle", "login",
   "reg_session", "reg_openid", "reg_objid",
   "upd_session", "upd_save",
   "ref_delete", "ref_session", "ref_objid", "ref_openid",
   "del_saves", "del_session", "del_openid", "del_objid",
   "reply", "del_reply"}

(* Where a handler keeps using its `session'.                               *)
Holding == Labels \ {"idle", "login", "upd_session"}

(* The tables hold rows of their type under keys of their type, the locals  *)
(* what the handlers put in them.                                           *)
TypeOK ==
  /\ sessions \in [Tokens -> Session \cup {None}]
  /\ sessions_by_openid \in [OpenIds -> Tokens \cup {None}]
  /\ sessions_by_objid \in [ObjectIds -> Tokens \cup {None}]
  /\ minted \in [Tokens -> Identity \cup {None}]
  /\ pc \in [Requests -> Labels]
  /\ held \in [Requests -> Tokens \cup {None}]
  /\ session \in [Requests -> Session \cup {None}]

Init ==
  /\ sessions = EmptyTable(Tokens)
  /\ sessions_by_openid = EmptyTable(OpenIds)
  /\ sessions_by_objid = EmptyTable(ObjectIds)
  /\ minted = [t \in Tokens |-> None]
  /\ pc = [r \in Requests |-> "idle"]
  /\ held = [r \in Requests |-> None]
  /\ session = [r \in Requests |-> None]

-----------------------------------------------------------------------------
(* Mutant: a token is drawn again once its row is gone.                     *)
TokensWithoutRow == {t \in Tokens : ~Has(sessions, t)}

(* random_id draws 128 random bits; two draws are taken never to collide.   *)
FreshTokens == {t \in Tokens : minted[t] = None}

(* Mutant: an object id is drawn again once no index entry bears it.        *)
UnindexedObjectIds == {x \in ObjectIds : ~Has(sessions_by_objid, x)}

FreshObjectIds ==
  {x \in ObjectIds : \A t \in Tokens : minted[t] # None => minted[t].object_id # x}

(* Bound: a request that will draw a token starts only while one is left    *)
(* for it.  The program never runs out of ids; the model has finitely many. *)
TokenToSpare ==
  Cardinality(FreshTokens) > Cardinality({r \in Requests : pc[r] = "ref_delete"})

IdentityOf(s) == [openid |-> s.openid, object_id |-> s.object_id]

Goto(r, label) == pc' = [pc EXCEPT ![r] = label]

(* The handler returns, or its future is dropped: its locals are gone.      *)
Finish(r) ==
  /\ Goto(r, "idle")
  /\ held' = [held EXCEPT ![r] = None]
  /\ session' = [session EXCEPT ![r] = None]

(* A call of the store by request r that only moves it on.                  *)
MoveOn(r, label) == Goto(r, label) /\ UNCHANGED <<minted, locals>>

(* A request that fails on its first lookup leaves no trace.                *)
Rejected(r) == pc[r] = "idle" /\ UNCHANGED vars

-----------------------------------------------------------------------------
(* POST users, after user_check has let the openid in.                      *)

(* The openid has a token: go on to log it in.                              *)
RegisterKnownReading(r, token) ==
  /\ pc[r] = "idle"
  /\ token # None
  /\ held' = [held EXCEPT ![r] = token]
  /\ Goto(r, "login")
  /\ UNCHANGED <<tables, minted, session>>

RegisterKnown(r, o) == RegisterKnownReading(r, Get(sessions_by_openid, o))

(* Mutant: a dangling index entry counts as unknown.                        *)
RegisterNewOrDangling(r, o, n) ==
  /\ pc[r] = "idle"
  /\ Has(sessions_by_openid, o) => ~Has(sessions, Get(sessions_by_openid, o))
  /\ TokenToSpare
  /\ \E t \in FreshTokens, x \in FreshObjectIds :
       /\ session' = [session EXCEPT ![r] =
            [object_id |-> x, nickname |-> n, openid |-> o, session_token |-> t]]
       /\ minted' = [minted EXCEPT ![t] = [openid |-> o, object_id |-> x]]
  /\ Goto(r, "reg_session")
  /\ UNCHANGED <<tables, held>>

(* The openid is unknown: build a Session with two new ids.                 *)
RegisterNewReading(r, o, n, token) ==
  /\ pc[r] = "idle"
  /\ token = None
  /\ TokenToSpare
  /\ \E t \in FreshTokens, x \in FreshObjectIds :
       /\ session' = [session EXCEPT ![r] =
            [object_id |-> x, nickname |-> n, openid |-> o, session_token |-> t]]
       /\ minted' = [minted EXCEPT ![t] = [openid |-> o, object_id |-> x]]
  /\ Goto(r, "reg_session")
  /\ UNCHANGED <<tables, held>>

RegisterNew(r, o, n) == RegisterNewReading(r, o, n, Get(sessions_by_openid, o))

(* Mutant: the row's absence is not checked.                                *)
LoginUnchecked(r, row) ==
  /\ pc[r] = "login"
  /\ session' = [session EXCEPT ![r] = row]
  /\ Goto(r, "reply")
  /\ UNCHANGED <<tables, minted, held>>

(* Mutant: a missing row is built anew under the token the index names.     *)
LoginRepairing(r, row) ==
  /\ pc[r] = "login"
  /\ session' = [session EXCEPT ![r] =
       IF row # None THEN row
       ELSE [object_id |-> minted[held[r]].object_id, nickname |-> CHOOSE n \in Nicknames : TRUE,
             openid |-> minted[held[r]].openid, session_token |-> held[r]]]
  /\ sessions' = Put(sessions, held[r], session'[r])
  /\ Goto(r, "reply")
  /\ UNCHANGED <<sessions_by_openid, sessions_by_objid, minted, held>>

(* get_session_by_token of the token the index named.                       *)
LoginReading(r, row) ==
  /\ pc[r] = "login"
  /\ \/ /\ row # None
        /\ session' = [session EXCEPT ![r] = row]
        /\ Goto(r, "reply")
        /\ UNCHANGED held
     \/ /\ row = None
        /\ Finish(r)
  /\ UNCHANGED <<tables, minted>>

Login(r) == pc[r] = "login" /\ LoginReading(r, Get(sessions, held[r]))

RegisterPutSession(r) ==
  /\ pc[r] = "reg_session"
  /\ sessions' = Put(sessions, session[r].session_token, session[r])
  /\ MoveOn(r, "reg_openid")
  /\ UNCHANGED <<sessions_by_openid, sessions_by_objid>>

(* Mutant: the openid index is forgotten.                                   *)
RegisterSkipOpenId(r) ==
  /\ pc[r] = "reg_openid"
  /\ MoveOn(r, "reg_objid")
  /\ UNCHANGED tables

RegisterPutOpenId(r) ==
  /\ pc[r] = "reg_openid"
  /\ sessions_by_openid' =
       Put(sessions_by_openid, session[r].openid, session[r].session_token)
  /\ MoveOn(r, "reg_objid")
  /\ UNCHANGED <<sessions, sessions_by_objid>>

RegisterPutObjId(r) ==
  /\ pc[r] = "reg_objid"
  /\ sessions_by_objid' =
       Put(sessions_by_objid, session[r].object_id, session[r].session_token)
  /\ MoveOn(r, "reply")
  /\ UNCHANGED <<sessions, sessions_by_openid>>

-----------------------------------------------------------------------------
(* PUT users/<object id>: change the nickname.                              *)

(* First half of get_session_by_object_id.                                  *)
UpdateLookupReading(r, token) ==
  \/ /\ pc[r] = "idle"
     /\ token # None
     /\ held' = [held EXCEPT ![r] = token]
     /\ Goto(r, "upd_session")
     /\ UNCHANGED <<tables, minted, session>>
  \/ token = None /\ Rejected(r)

UpdateLookup(r, x) == UpdateLookupReading(r, Get(sessions_by_objid, x))

(* Second half, and the new nickname.                                       *)
UpdateReadSessionReading(r, row) ==
  /\ pc[r] = "upd_session"
  /\ \/ /\ row # None
        /\ \E n \in Nicknames :
             session' = [session EXCEPT ![r] = [row EXCEPT !.nickname = n]]
        /\ Goto(r, "upd_save")
        /\ UNCHANGED held
     \/ /\ row = None
        /\ Finish(r)
  /\ UNCHANGED <<tables, minted>>

UpdateReadSession(r) ==
  pc[r] = "upd_session" /\ UpdateReadSessionReading(r, Get(sessions, held[r]))

(* Mutant: the row goes under the token the index names by now.             *)
UpdateSaveUnderIndex(r) ==
  /\ pc[r] = "upd_save"
  /\ Has(sessions_by_objid, session[r].object_id)
  /\ sessions' = Put(sessions, Get(sessions_by_objid, session[r].object_id), session[r])
  /\ MoveOn(r, "reply")
  /\ UNCHANGED <<sessions_by_openid, sessions_by_objid>>

(* save_session: the whole row is written back under the token it holds.    *)
UpdateSave(r) ==
  /\ pc[r] = "upd_save"
  /\ sessions' = Put(sessions, session[r].session_token, session[r])
  /\ MoveOn(r, "reply")
  /\ UNCHANGED <<sessions_by_openid, sessions_by_objid>>

-----------------------------------------------------------------------------
(* The row behind a token is a session of the user the path names.          *)
Authorised(row, x) == row # None /\ row.object_id = x

(* PUT users/<object id>/refreshSessionToken                                *)
RefreshLookupReading(r, x, row) ==
  \/ /\ pc[r] = "idle"
     /\ Authorised(row, x)
     /\ TokenToSpare
     /\ session' = [session EXCEPT ![r] = row]
     /\ Goto(r, "ref_delete")
     /\ UNCHANGED <<tables, minted, held>>
  \/ ~Authorised(row, x) /\ Rejected(r)

RefreshLookup(r, t, x) == RefreshLookupReading(r, x, Get(sessions, t))

(* Mutant: the new session starts from a default nickname.                  *)
RefreshDeleteRenaming(r) ==
  /\ pc[r] = "ref_delete"
  /\ sessions' = Delete(sessions, session[r].session_token)
  /\ \E t \in FreshTokens, n \in Nicknames :
       /\ session' = [session EXCEPT ![r].session_token = t, ![r].nickname = n]
       /\ minted' = [minted EXCEPT ![t] = IdentityOf(session[r])]
  /\ Goto(r, "ref_session")
  /\ UNCHANGED <<sessions_by_openid, sessions_by_objid, held>>

(* The old row goes first; the new token is drawn once it is gone.          *)
RefreshDelete(r) ==
  /\ pc[r] = "ref_delete"
  /\ sessions' = Delete(sessions, session[r].session_token)
  /\ \E t \in FreshTokens :
       /\ session' = [session EXCEPT ![r].session_token = t]
       /\ minted' = [minted EXCEPT ![t] = IdentityOf(session[r])]
  /\ Goto(r, "ref_session")
  /\ UNCHANGED <<sessions_by_openid, sessions_by_objid, held>>

RefreshPutSession(r) ==
  /\ pc[r] = "ref_session"
  /\ sessions' = Put(sessions, session[r].session_token, session[r])
  /\ MoveOn(r, "ref_objid")
  /\ UNCHANGED <<sessions_by_openid, sessions_by_objid>>

(* Mutant: the object id is stored where the token belongs.                 *)
RefreshPutOwnId(r) ==
  /\ pc[r] = "ref_objid"
  /\ sessions_by_objid' =
       Put(sessions_by_objid, session[r].object_id, session[r].object_id)
  /\ MoveOn(r, "ref_openid")
  /\ UNCHANGED <<sessions, sessions_by_openid>>

RefreshPutObjId(r) ==
  /\ pc[r] = "ref_objid"
  /\ sessions_by_objid' =
       Put(sessions_by_objid, session[r].object_id, session[r].session_token)
  /\ MoveOn(r, "ref_openid")
  /\ UNCHANGED <<sessions, sessions_by_openid>>

(* Mutant: the openid index keeps the old token.                            *)
RefreshSkipOpenId(r) ==
  /\ pc[r] = "ref_openid"
  /\ MoveOn(r, "reply")
  /\ UNCHANGED tables

RefreshPutOpenId(r) ==
  /\ pc[r] = "ref_openid"
  /\ sessions_by_openid' =
       Put(sessions_by_openid, session[r].openid, session[r].session_token)
  /\ MoveOn(r, "reply")
  /\ UNCHANGED <<sessions, sessions_by_objid>>

-----------------------------------------------------------------------------
(* DELETE users/<object id>                                                 *)
DeleteLookupReading(r, x, row) ==
  \/ /\ pc[r] = "idle"
     /\ Authorised(row, x)
     /\ session' = [session EXCEPT ![r] = row]
     /\ Goto(r, "del_saves")
     /\ UNCHANGED <<tables, minted, held>>
  \/ ~Authorised(row, x) /\ Rejected(r)

DeleteLookup(r, t, x) == DeleteLookupReading(r, x, Get(sessions, t))

(* The user's saves and their files are removed from other tables first;    *)
(* an error there ends the request before any session row is touched.       *)
DeleteSaves(r) ==
  /\ pc[r] = "del_saves"
  /\ \/ Goto(r, "del_session") /\ UNCHANGED locals
     \/ Finish(r)
  /\ UNCHANGED <<tables, minted>>

(* delete_session_tables, one call at a time.                               *)
DeleteSession(r) ==
  /\ pc[r] = "del_session"
  /\ sessions' = Delete(sessions, session[r].session_token)
  /\ MoveOn(r, "del_openid")
  /\ UNCHANGED <<sessions_by_openid, sessions_by_objid>>

(* Mutant: the openid index keeps the deleted user's token.                 *)
DeleteSkipOpenId(r) ==
  /\ pc[r] = "del_openid"
  /\ MoveOn(r, "del_objid")
  /\ UNCHANGED tables

DeleteOpenId(r) ==
  /\ pc[r] = "del_openid"
  /\ sessions_by_openid' = Delete(sessions_by_openid, session[r].openid)
  /\ MoveOn(r, "del_objid")
  /\ UNCHANGED <<sessions, sessions_by_objid>>

DeleteObjId(r) ==
  /\ pc[r] = "del_objid"
  /\ sessions_by_objid' = Delete(sessions_by_objid, session[r].object_id)
  /\ MoveOn(r, "del_reply")
  /\ UNCHANGED <<sessions, sessions_by_openid>>

-----------------------------------------------------------------------------
(* emit_event (its outcome is ignored) and the response.                    *)
Respond(r) ==
  /\ pc[r] \in {"reply", "del_reply"}
  /\ Finish(r)
  /\ UNCHANGED <<tables, minted>>

Abort(r) ==
  /\ pc[r] # "idle"
  /\ Finish(r)
  /\ UNCHANGED <<tables, minted>>

(* GET users/me: what a token shows, None for "data not found".             *)
GetCurrent(t) == Get(sessions, t)

Start(r) ==
  \/ \E o \in OpenIds : RegisterKnown(r, o) \/ \E n \in Nicknames : RegisterNew(r, o, n)
  \/ \E x \in ObjectIds : UpdateLookup(r, x)
  \/ \E t \in Tokens, x \in ObjectIds : RefreshLookup(r, t, x) \/ DeleteLookup(r, t, x)

Step(r) ==
  \/ Login(r)
  \/ RegisterPutSession(r) \/ RegisterPutOpenId(r) \/ RegisterPutObjId(r)
  \/ UpdateReadSession(r) \/ UpdateSave(r)
  \/ RefreshDelete(r) \/ RefreshPutSession(r) \/ RefreshPutObjId(r) \/ RefreshPutOpenId(r)
  \/ DeleteSaves(r) \/ DeleteSession(r) \/ DeleteOpenId(r) \/ DeleteObjId(r)
  \/ Respond(r)

Next == \E r \in Requests : Start(r) \/ Step(r) \/ Abort(r)

Spec == Init /\ [][Next]_vars

-----------------------------------------------------------------------------
(* What the tables promise however requests overlap and wherever they stop. *)

(* A row answers only to the token it holds, and to the user that token was *)
(* drawn for: no order of the puts and deletes of two handlers files one    *)
(* user's session under another user's token.  (The key and the value of    *)
(* kv.put::<Session> in handle_register, save_session, handle_refresh_token.) *)
RowsMatchTheirToken ==
  \A t \in Tokens : Has(sessions, t) =>
    /\ Get(sessions, t).session_token = t
    /\ IdentityOf(Get(sessions, t)) = minted[t]

(* A login or a rename may fail on a dangling index entry, but it never     *)
(* reaches the session of another openid or object id, even when refresh,   *)
(* delete and register leave the two indexes naming different tokens.       *)
IndexesMatchTheirKey ==
  /\ \A o \in OpenIds : Has(sessions_by_openid, o) =>
       LET i == minted[Get(sessions_by_openid, o)] IN i # None /\ i.openid = o
  /\ \A x \in ObjectIds : Has(sessions_by_objid, x) =>
       LET i == minted[Get(sessions_by_objid, x)] IN i # None /\ i.object_id = x

(* An object id belongs to one openid for good: every token ever drawn for  *)
(* it, by registration or by any chain of refreshes, was drawn for that     *)
(* openid.  (handle_refresh_token keeps both fields of the row it read.)    *)
ObjectsHaveOneOwner ==
  \A t, u \in Tokens :
    (minted[t] # None /\ minted[u] # None /\ minted[t].object_id = minted[u].object_id)
      => minted[t].openid = minted[u].openid

(* The row a handler holds while it waits, stale as it may be, and the      *)
(* token it is about to read concern one user, and are there when it goes   *)
(* on.  (`session' and `token' of the handlers, across every .await.)       *)
HandlersMatchTheirUser ==
  /\ \A r \in Requests :
       /\ pc[r] \in Holding => session[r] # None
       /\ pc[r] \in {"login", "upd_session"} => held[r] # None
  /\ \A r \in Requests : session[r] # None =>
       minted[session[r].session_token] = IdentityOf(session[r])

(* The row of t may still be written: some handler that read or built it    *)
(* has its put ahead.                                                       *)
PutPending(t) ==
  \E r \in Requests :
    /\ pc[r] \in {"reg_session", "upd_save", "ref_session"}
    /\ session[r].session_token = t

(* A token that was drawn, has no row and has no put pending.               *)
Revoked(t) == minted[t] # None /\ ~Has(sessions, t) /\ ~PutPending(t)

(* A revoked token stays revoked: no later request, whatever it reads from  *)
(* indexes that still name the token, gives it a session again.  Only a     *)
(* rename that read the row before the refresh or delete can bring it back  *)
(* (handle_update's save_session of a row read two calls earlier).          *)
RevokedForGood == [][\A t \in Tokens : Revoked(t) => Revoked(t)']_vars

(* No session of openid o exists and none is about to be stored, but the    *)
(* openid index still names a token: what a handle_refresh_token that stops *)
(* after its delete, or a delete racing a refresh, leaves behind.           *)
LockedOut(o) ==
  /\ Has(sessions_by_openid, o)
  /\ \A t \in Tokens : Has(sessions, t) => Get(sessions, t).openid # o
  /\ \A r \in Requests : session[r] # None => session[r].openid # o

(* Nothing the server offers ends a lockout: handle_register fails at       *)
(* get_session_by_token, and every other handler needs a row.  Operators    *)
(* have to repair the index by hand.                                        *)
LockoutIsPermanent == [][\A o \in OpenIds : LockedOut(o) => LockedOut(o)']_vars
=============================================================================
