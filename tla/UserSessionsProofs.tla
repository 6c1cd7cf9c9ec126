------------------------- MODULE UserSessionsProofs -------------------------
(***************************************************************************)
(* What UserSessions keeps for any number of requests, users, tokens and    *)
(* ids, over a store that answers reads with the last value put and, at the *)
(* end, over one that answers them from old caches, proved with TLAPS.      *)
(***************************************************************************)
EXTENDS StaleSessions, TLAPS

-----------------------------------------------------------------------------
(* Types.  A put stores the request's `session', a read follows its `held', *)
(* so the type of the tables rests on both being there when they are used.  *)

LocalsReady ==
  \A r \in Requests :
    /\ pc[r] \in Holding => session[r] # None
    /\ pc[r] \in {"login", "upd_session"} => held[r] # None

TypeInv == TypeOK /\ LocalsReady

USE NoneAssumption DEF Get, Has, Put, Delete, EmptyTable, Session, Identity, IdentityOf

LEMMA TypeInit == Init => TypeInv
  BY DEF Init, TypeInv, TypeOK, LocalsReady, Labels, Holding

LEMMA TypeStep == TypeInv /\ [Next]_vars => TypeInv'
<1> SUFFICES ASSUME TypeInv, [Next]_vars PROVE TypeInv'
  OBVIOUS
<1> USE DEF TypeInv, TypeOK, LocalsReady, Labels, Holding, tables, locals, Goto, MoveOn, Finish
<1>1. ASSUME NEW r \in Requests, NEW o \in OpenIds, RegisterKnown(r, o) PROVE TypeInv'
  BY <1>1 DEF RegisterKnown, RegisterKnownReading
<1>2. ASSUME NEW r \in Requests, NEW o \in OpenIds, NEW n \in Nicknames, RegisterNew(r, o, n)
      PROVE TypeInv'
  BY <1>2 DEF RegisterNew, RegisterNewReading, FreshTokens, FreshObjectIds
<1>3. ASSUME NEW r \in Requests, NEW x \in ObjectIds, UpdateLookup(r, x) PROVE TypeInv'
  BY <1>3 DEF UpdateLookup, UpdateLookupReading, Rejected, vars
<1>4. ASSUME NEW r \in Requests, NEW t \in Tokens, NEW x \in ObjectIds,
             RefreshLookup(r, t, x) \/ DeleteLookup(r, t, x)
      PROVE TypeInv'
  BY <1>4 DEF RefreshLookup, RefreshLookupReading, DeleteLookup, DeleteLookupReading, Authorised,
              Rejected, vars
<1>5. ASSUME NEW r \in Requests, Login(r) PROVE TypeInv'
  BY <1>5 DEF Login, LoginReading
<1>6. ASSUME NEW r \in Requests,
             RegisterPutSession(r) \/ RegisterPutOpenId(r) \/ RegisterPutObjId(r)
      PROVE TypeInv'
  BY <1>6 DEF RegisterPutSession, RegisterPutOpenId, RegisterPutObjId
<1>7. ASSUME NEW r \in Requests, UpdateReadSession(r) \/ UpdateSave(r) PROVE TypeInv'
  BY <1>7 DEF UpdateReadSession, UpdateReadSessionReading, UpdateSave
<1>8. ASSUME NEW r \in Requests, RefreshDelete(r) PROVE TypeInv'
  BY <1>8 DEF RefreshDelete, FreshTokens
<1>9. ASSUME NEW r \in Requests,
             RefreshPutSession(r) \/ RefreshPutObjId(r) \/ RefreshPutOpenId(r)
      PROVE TypeInv'
  BY <1>9 DEF RefreshPutSession, RefreshPutObjId, RefreshPutOpenId
<1>10. ASSUME NEW r \in Requests,
              DeleteSaves(r) \/ DeleteSession(r) \/ DeleteOpenId(r) \/ DeleteObjId(r)
       PROVE TypeInv'
  BY <1>10 DEF DeleteSaves, DeleteSession, DeleteOpenId, DeleteObjId
<1>11. ASSUME NEW r \in Requests, Respond(r) \/ Abort(r) PROVE TypeInv'
  BY <1>11 DEF Respond, Abort
<1>12. CASE UNCHANGED vars
  BY <1>12 DEF vars
<1>13. QED
  BY <1>1, <1>2, <1>3, <1>4, <1>5, <1>6, <1>7, <1>8, <1>9, <1>10, <1>11, <1>12
     DEF Next, Start, Step

(* The tables and the locals of the handlers keep their types.              *)
THEOREM TypeCorrect == Spec => []TypeOK
<1>1. TypeInv => TypeOK
  BY DEF TypeInv
<1>2. QED
  BY TypeInit, TypeStep, <1>1, PTL DEF Spec

-----------------------------------------------------------------------------
(* Identity.  The four invariants need each other: a put files a row under  *)
(* the token its handler holds (HandlersMatchTheirUser), that row came from *)
(* a table (RowsMatchTheirToken) or from a draw, and a draw touches only a  *)
(* token nobody holds, so what was drawn before stays as it was.            *)

IdentityInv ==
  /\ RowsMatchTheirToken
  /\ IndexesMatchTheirKey
  /\ ObjectsHaveOneOwner
  /\ HandlersMatchTheirUser

LEMMA IdentityInit == Init => IdentityInv
  BY DEF Init, IdentityInv, RowsMatchTheirToken, IndexesMatchTheirKey, ObjectsHaveOneOwner,
         HandlersMatchTheirUser, Holding

LEMMA IdentityStep == TypeInv /\ IdentityInv /\ [Next]_vars => IdentityInv'
<1> SUFFICES ASSUME TypeInv, IdentityInv, [Next]_vars PROVE IdentityInv'
  OBVIOUS
<1> USE DEF TypeInv, TypeOK, LocalsReady, Labels, Holding, tables, locals,
            Goto, MoveOn, Finish, IdentityInv, RowsMatchTheirToken, IndexesMatchTheirKey,
            ObjectsHaveOneOwner, HandlersMatchTheirUser
<1>1. ASSUME NEW r \in Requests, NEW o \in OpenIds, RegisterKnown(r, o) PROVE IdentityInv'
  BY <1>1 DEF RegisterKnown, RegisterKnownReading
<1>2. ASSUME NEW r \in Requests, NEW o \in OpenIds, NEW n \in Nicknames, RegisterNew(r, o, n)
      PROVE IdentityInv'
  BY <1>2 DEF RegisterNew, RegisterNewReading, FreshTokens, FreshObjectIds
<1>3. ASSUME NEW r \in Requests, NEW x \in ObjectIds, UpdateLookup(r, x) PROVE IdentityInv'
  BY <1>3 DEF UpdateLookup, UpdateLookupReading, Rejected, vars
<1>4. ASSUME NEW r \in Requests, NEW t \in Tokens, NEW x \in ObjectIds,
             RefreshLookup(r, t, x) \/ DeleteLookup(r, t, x)
      PROVE IdentityInv'
  <2>1. CASE RefreshLookup(r, t, x)
    BY <2>1 DEF RefreshLookup, RefreshLookupReading, Authorised, Rejected, vars
  <2>2. CASE DeleteLookup(r, t, x)
    BY <2>2 DEF DeleteLookup, DeleteLookupReading, Authorised, Rejected, vars
  <2>3. QED
    BY <1>4, <2>1, <2>2
<1>5. ASSUME NEW r \in Requests, Login(r) PROVE IdentityInv'
  BY <1>5 DEF Login, LoginReading
<1>6. ASSUME NEW r \in Requests,
             RegisterPutSession(r) \/ UpdateSave(r) \/ RefreshPutSession(r)
      PROVE IdentityInv'
  <2> DEFINE s == session[r]
  <2>1. /\ s \in Session
        /\ minted[s.session_token] = IdentityOf(s)
        /\ sessions' = [sessions EXCEPT ![s.session_token] = s]
        /\ UNCHANGED <<sessions_by_openid, sessions_by_objid, minted, locals>>
    BY <1>6 DEF RegisterPutSession, UpdateSave, RefreshPutSession
  <2>2. pc' = [pc EXCEPT ![r] = pc'[r]] /\ pc[r] \in Holding
    BY <1>6 DEF RegisterPutSession, UpdateSave, RefreshPutSession
  <2>3. RowsMatchTheirToken'
    BY <2>1
  <2>4. HandlersMatchTheirUser'
    BY <1>6, <2>1, <2>2 DEF RegisterPutSession, UpdateSave, RefreshPutSession
  <2>5. QED
    BY <2>1, <2>3, <2>4
<1>7. ASSUME NEW r \in Requests, UpdateReadSession(r) PROVE IdentityInv'
  BY <1>7 DEF UpdateReadSession, UpdateReadSessionReading
<1>8. ASSUME NEW r \in Requests, RefreshDelete(r) PROVE IdentityInv'
  BY <1>8 DEF RefreshDelete, FreshTokens
<1>9. ASSUME NEW r \in Requests,
             \/ RegisterPutOpenId(r) \/ RegisterPutObjId(r)
             \/ RefreshPutObjId(r) \/ RefreshPutOpenId(r)
      PROVE IdentityInv'
  <2> DEFINE s == session[r]
  <2>1. /\ s \in Session
        /\ minted[s.session_token] = IdentityOf(s)
        /\ UNCHANGED <<sessions, minted, locals>>
    BY <1>9 DEF RegisterPutOpenId, RegisterPutObjId, RefreshPutObjId, RefreshPutOpenId
  <2>2. \/ /\ sessions_by_openid' = [sessions_by_openid EXCEPT ![s.openid] = s.session_token]
           /\ UNCHANGED sessions_by_objid
        \/ /\ sessions_by_objid' = [sessions_by_objid EXCEPT ![s.object_id] = s.session_token]
           /\ UNCHANGED sessions_by_openid
    BY <1>9 DEF RegisterPutOpenId, RegisterPutObjId, RefreshPutObjId, RefreshPutOpenId
  <2>3. IndexesMatchTheirKey'
    <3>1. CASE /\ sessions_by_openid' = [sessions_by_openid EXCEPT ![s.openid] = s.session_token]
               /\ UNCHANGED sessions_by_objid
      BY <2>1, <3>1
    <3>2. CASE /\ sessions_by_objid' = [sessions_by_objid EXCEPT ![s.object_id] = s.session_token]
               /\ UNCHANGED sessions_by_openid
      BY <2>1, <3>2
    <3>3. QED
      BY <2>2, <3>1, <3>2
  <2>4. HandlersMatchTheirUser'
    BY <1>9, <2>1 DEF RegisterPutOpenId, RegisterPutObjId, RefreshPutObjId, RefreshPutOpenId
  <2>5. QED
    BY <2>1, <2>3, <2>4
<1>10. ASSUME NEW r \in Requests,
              DeleteSaves(r) \/ DeleteSession(r) \/ DeleteOpenId(r) \/ DeleteObjId(r)
       PROVE IdentityInv'
  <2>1. CASE DeleteSaves(r)
    BY <2>1 DEF DeleteSaves
  <2>2. CASE DeleteSession(r)
    BY <2>2 DEF DeleteSession
  <2>3. CASE DeleteOpenId(r)
    BY <2>3 DEF DeleteOpenId
  <2>4. CASE DeleteObjId(r)
    BY <2>4 DEF DeleteObjId
  <2>5. QED
    BY <1>10, <2>1, <2>2, <2>3, <2>4
<1>11. ASSUME NEW r \in Requests, Respond(r) \/ Abort(r) PROVE IdentityInv'
  <2>1. CASE Respond(r)
    BY <2>1 DEF Respond
  <2>2. CASE Abort(r)
    BY <2>2 DEF Abort
  <2>3. QED
    BY <1>11, <2>1, <2>2
<1>12. CASE UNCHANGED vars
  BY <1>12 DEF vars
<1>13. QED
  BY <1>1, <1>2, <1>3, <1>4, <1>5, <1>6, <1>7, <1>8, <1>9, <1>10, <1>11, <1>12
     DEF Next, Start, Step

(* No interleaving of handlers and no handler that stops half-way files a   *)
(* session under another user's token.                                      *)
THEOREM RowsCorrect == Spec => []RowsMatchTheirToken
<1>1. TypeInv /\ IdentityInv => RowsMatchTheirToken
  BY DEF IdentityInv
<1>2. QED
  BY TypeInit, TypeStep, IdentityInit, IdentityStep, <1>1, PTL DEF Spec

(* What an index entry leads to, live or revoked, is a token of its user.   *)
THEOREM IndexesCorrect == Spec => []IndexesMatchTheirKey
<1>1. TypeInv /\ IdentityInv => IndexesMatchTheirKey
  BY DEF IdentityInv
<1>2. QED
  BY TypeInit, TypeStep, IdentityInit, IdentityStep, <1>1, PTL DEF Spec

(* Chains of refreshes never give an object id to another openid.           *)
THEOREM OwnersCorrect == Spec => []ObjectsHaveOneOwner
<1>1. TypeInv /\ IdentityInv => ObjectsHaveOneOwner
  BY DEF IdentityInv
<1>2. QED
  BY TypeInit, TypeStep, IdentityInit, IdentityStep, <1>1, PTL DEF Spec

(* A handler's locals, however stale, never mix two users.                  *)
THEOREM HandlersCorrect == Spec => []HandlersMatchTheirUser
<1>1. TypeInv /\ IdentityInv => HandlersMatchTheirUser
  BY DEF IdentityInv
<1>2. QED
  BY TypeInit, TypeStep, IdentityInit, IdentityStep, <1>1, PTL DEF Spec

-----------------------------------------------------------------------------
(* Revocation.  A row is put under t only by a handler that holds t; a      *)
(* handler comes to hold t only by drawing it or by reading its row.        *)

LEMMA RevokedStep ==
  ASSUME TypeInv, IdentityInv, [Next]_vars, NEW t \in Tokens, Revoked(t)
  PROVE  Revoked(t)'
<1> USE DEF TypeInv, TypeOK, LocalsReady, Labels, Holding, tables, locals, Goto, MoveOn, Finish,
            IdentityInv, RowsMatchTheirToken, HandlersMatchTheirUser, Revoked, PutPending
<1>1. ASSUME NEW r \in Requests, NEW o \in OpenIds, RegisterKnown(r, o) PROVE Revoked(t)'
  BY <1>1 DEF RegisterKnown, RegisterKnownReading
<1>2. ASSUME NEW r \in Requests, NEW o \in OpenIds, NEW n \in Nicknames, RegisterNew(r, o, n)
      PROVE Revoked(t)'
  BY <1>2 DEF RegisterNew, RegisterNewReading, FreshTokens, FreshObjectIds
<1>3. ASSUME NEW r \in Requests, NEW x \in ObjectIds, UpdateLookup(r, x) PROVE Revoked(t)'
  BY <1>3 DEF UpdateLookup, UpdateLookupReading, Rejected, vars
<1>4. ASSUME NEW r \in Requests, NEW u \in Tokens, NEW x \in ObjectIds,
             RefreshLookup(r, u, x) \/ DeleteLookup(r, u, x)
      PROVE Revoked(t)'
  BY <1>4 DEF RefreshLookup, RefreshLookupReading, DeleteLookup, DeleteLookupReading, Authorised,
              Rejected, vars
<1>5. ASSUME NEW r \in Requests, Login(r) PROVE Revoked(t)'
  BY <1>5 DEF Login, LoginReading
<1>6. ASSUME NEW r \in Requests,
             RegisterPutSession(r) \/ UpdateSave(r) \/ RefreshPutSession(r)
      PROVE Revoked(t)'
  BY <1>6 DEF RegisterPutSession, UpdateSave, RefreshPutSession
<1>7. ASSUME NEW r \in Requests, UpdateReadSession(r) PROVE Revoked(t)'
  BY <1>7 DEF UpdateReadSession, UpdateReadSessionReading
<1>8. ASSUME NEW r \in Requests, RefreshDelete(r) PROVE Revoked(t)'
  BY <1>8 DEF RefreshDelete, FreshTokens
<1>9. ASSUME NEW r \in Requests,
             \/ RegisterPutOpenId(r) \/ RegisterPutObjId(r)
             \/ RefreshPutObjId(r) \/ RefreshPutOpenId(r)
      PROVE Revoked(t)'
  BY <1>9 DEF RegisterPutOpenId, RegisterPutObjId, RefreshPutObjId, RefreshPutOpenId
<1>10. ASSUME NEW r \in Requests,
              DeleteSaves(r) \/ DeleteSession(r) \/ DeleteOpenId(r) \/ DeleteObjId(r)
       PROVE Revoked(t)'
  BY <1>10 DEF DeleteSaves, DeleteSession, DeleteOpenId, DeleteObjId
<1>11. ASSUME NEW r \in Requests, Respond(r) \/ Abort(r) PROVE Revoked(t)'
  BY <1>11 DEF Respond, Abort
<1>12. CASE UNCHANGED vars
  BY <1>12 DEF vars
<1>13. QED
  BY <1>1, <1>2, <1>3, <1>4, <1>5, <1>6, <1>7, <1>8, <1>9, <1>10, <1>11, <1>12
     DEF Next, Start, Step

(* A token without a row and without a handler about to write one never     *)
(* opens a session again, for any number of requests racing and stopping.   *)
THEOREM RevocationCorrect == Spec => RevokedForGood
<1>1. TypeInv /\ IdentityInv /\ [Next]_vars
        => [\A t \in Tokens : Revoked(t) => Revoked(t)']_vars
  BY RevokedStep
<1>2. QED
  BY TypeInit, TypeStep, IdentityInit, IdentityStep, <1>1, PTL DEF Spec, RevokedForGood

-----------------------------------------------------------------------------
(* Lockout.  Rows and index entries of o are written only by a handler that *)
(* holds a session of o, which it can only have read from a row of o or     *)
(* built because the index had no entry.                                    *)

LEMMA LockoutStep ==
  ASSUME TypeInv, [Next]_vars, NEW o \in OpenIds, LockedOut(o)
  PROVE  LockedOut(o)'
<1> USE DEF TypeInv, TypeOK, LocalsReady, Labels, Holding, tables, locals, Goto, MoveOn, Finish,
            LockedOut
<1>1. ASSUME NEW r \in Requests, NEW p \in OpenIds, RegisterKnown(r, p) PROVE LockedOut(o)'
  BY <1>1 DEF RegisterKnown, RegisterKnownReading
<1>2. ASSUME NEW r \in Requests, NEW p \in OpenIds, NEW n \in Nicknames, RegisterNew(r, p, n)
      PROVE LockedOut(o)'
  BY <1>2 DEF RegisterNew, RegisterNewReading, FreshTokens, FreshObjectIds
<1>3. ASSUME NEW r \in Requests, NEW x \in ObjectIds, UpdateLookup(r, x) PROVE LockedOut(o)'
  BY <1>3 DEF UpdateLookup, UpdateLookupReading, Rejected, vars
<1>4. ASSUME NEW r \in Requests, NEW u \in Tokens, NEW x \in ObjectIds,
             RefreshLookup(r, u, x) \/ DeleteLookup(r, u, x)
      PROVE LockedOut(o)'
  BY <1>4 DEF RefreshLookup, RefreshLookupReading, DeleteLookup, DeleteLookupReading, Authorised,
              Rejected, vars
<1>5. ASSUME NEW r \in Requests, Login(r) PROVE LockedOut(o)'
  BY <1>5 DEF Login, LoginReading
<1>6. ASSUME NEW r \in Requests,
             RegisterPutSession(r) \/ UpdateSave(r) \/ RefreshPutSession(r)
      PROVE LockedOut(o)'
  BY <1>6 DEF RegisterPutSession, UpdateSave, RefreshPutSession
<1>7. ASSUME NEW r \in Requests, UpdateReadSession(r) PROVE LockedOut(o)'
  BY <1>7 DEF UpdateReadSession, UpdateReadSessionReading
<1>8. ASSUME NEW r \in Requests, RefreshDelete(r) PROVE LockedOut(o)'
  BY <1>8 DEF RefreshDelete, FreshTokens
<1>9. ASSUME NEW r \in Requests,
             \/ RegisterPutOpenId(r) \/ RegisterPutObjId(r)
             \/ RefreshPutObjId(r) \/ RefreshPutOpenId(r)
      PROVE LockedOut(o)'
  BY <1>9 DEF RegisterPutOpenId, RegisterPutObjId, RefreshPutObjId, RefreshPutOpenId
<1>10. ASSUME NEW r \in Requests,
              DeleteSaves(r) \/ DeleteSession(r) \/ DeleteOpenId(r) \/ DeleteObjId(r)
       PROVE LockedOut(o)'
  BY <1>10 DEF DeleteSaves, DeleteSession, DeleteOpenId, DeleteObjId
<1>11. ASSUME NEW r \in Requests, Respond(r) \/ Abort(r) PROVE LockedOut(o)'
  BY <1>11 DEF Respond, Abort
<1>12. CASE UNCHANGED vars
  BY <1>12 DEF vars
<1>13. QED
  BY <1>1, <1>2, <1>3, <1>4, <1>5, <1>6, <1>7, <1>8, <1>9, <1>10, <1>11, <1>12
     DEF Next, Start, Step

(* An openid whose index entry outlived all its rows is locked out for      *)
(* good, whatever requests follow.                                          *)
THEOREM LockoutCorrect == Spec => LockoutIsPermanent
<1>1. TypeInv /\ [Next]_vars => [\A o \in OpenIds : LockedOut(o) => LockedOut(o)']_vars
  BY LockoutStep
<1>2. QED
  BY TypeInit, TypeStep, <1>1, PTL DEF Spec, LockoutIsPermanent

-----------------------------------------------------------------------------
(* The user component over a store that answers reads from old caches.      *)
(*                                                                          *)
(* The handlers are those of UserSessions, so a step that reads nothing is  *)
(* a step of UserSessions and its lemmas apply.  What is new is the reads:  *)
(* they return anything the key ever had, and everything a key ever had     *)
(* agrees with the draw of its token, since no draw is ever changed.        *)

(* What caches may return has the type of the tables.                       *)
SeenTypes ==
  /\ seen_sessions \in [Tokens -> SUBSET Session]
  /\ seen_by_openid \in [OpenIds -> SUBSET Tokens]
  /\ seen_by_objid \in [ObjectIds -> SUBSET Tokens]

(* Every row a token ever had holds it and is of its user; every token an   *)
(* openid or an object id ever led to was drawn for it.                     *)
SeenMatches ==
  /\ \A t \in Tokens : \A s \in seen_sessions[t] :
       s.session_token = t /\ IdentityOf(s) = minted[t]
  /\ \A o \in OpenIds : \A t \in seen_by_openid[o] : minted[t] # None /\ minted[t].openid = o
  /\ \A x \in ObjectIds : \A t \in seen_by_objid[x] : minted[t] # None /\ minted[t].object_id = x

StaleInv == TypeInv /\ IdentityInv /\ SeenTypes /\ SeenMatches

(* A step that reads nothing, or is refused by what it read.                *)
Plain == [Next]_vars

(* A step that goes on with what a cache returned.                          *)
RegisterRead(r) ==
  \E o \in OpenIds : \E token \in Reads(seen_by_openid, o) :
    \/ RegisterKnownReading(r, token)
    \/ \E n \in Nicknames : RegisterNewReading(r, o, n, token)

UpdateLookupRead(r) ==
  \E x \in ObjectIds : \E token \in Reads(seen_by_objid, x) : UpdateLookupReading(r, token)

AuthorisedRead(r) ==
  \E t \in Tokens, x \in ObjectIds : \E row \in Reads(seen_sessions, t) :
    RefreshLookupReading(r, x, row) \/ DeleteLookupReading(r, x, row)

LEMMA StaleSteps ==
  ASSUME StaleNext
  PROVE  \/ Plain
         \/ \E r \in Requests :
              RegisterRead(r) \/ UpdateLookupRead(r) \/ AuthorisedRead(r) \/ StaleRead(r)
  BY DEF StaleNext, StaleStart, StaleStep, Plain, Next, Step,
         RegisterRead, UpdateLookupRead, AuthorisedRead

(* What a read returns, by type and by user.                                *)
LEMMA ReadTypes ==
  ASSUME SeenTypes
  PROVE  /\ \A t \in Tokens : Reads(seen_sessions, t) \subseteq Session \cup {None}
         /\ \A o \in OpenIds : Reads(seen_by_openid, o) \subseteq Tokens \cup {None}
         /\ \A x \in ObjectIds : Reads(seen_by_objid, x) \subseteq Tokens \cup {None}
  BY DEF SeenTypes, Reads

LEMMA ReadMatches ==
  ASSUME SeenMatches, NEW t \in Tokens, NEW row \in Reads(seen_sessions, t), row # None
  PROVE  row.session_token = t /\ IdentityOf(row) = minted[t]
  BY DEF SeenMatches, Reads

-----------------------------------------------------------------------------
LEMMA StaleTypeStep == StaleInv /\ StaleNext => TypeInv'
<1> SUFFICES ASSUME StaleInv, StaleNext PROVE TypeInv'
  OBVIOUS
<1>1. SeenTypes /\ TypeInv
  BY DEF StaleInv
<1> USE DEF TypeInv, TypeOK, LocalsReady, Labels, Holding, tables, locals, Goto, MoveOn, Finish
<1>2. CASE Plain
  BY <1>1, <1>2, TypeStep DEF Plain
<1>3. ASSUME NEW r \in Requests, RegisterRead(r) PROVE TypeInv'
  <2>1. PICK o \in OpenIds, token \in Tokens \cup {None} :
          \/ RegisterKnownReading(r, token)
          \/ \E n \in Nicknames : RegisterNewReading(r, o, n, token)
    BY <1>1, <1>3, ReadTypes DEF RegisterRead
  <2>2. CASE RegisterKnownReading(r, token)
    BY <1>1, <2>1, <2>2 DEF RegisterKnownReading
  <2>3. ASSUME NEW n \in Nicknames, RegisterNewReading(r, o, n, token) PROVE TypeInv'
    BY <1>1, <2>3 DEF RegisterNewReading, FreshTokens, FreshObjectIds
  <2>4. QED
    BY <2>1, <2>2, <2>3
<1>4. ASSUME NEW r \in Requests, UpdateLookupRead(r) PROVE TypeInv'
  <2>1. PICK token \in Tokens \cup {None} : UpdateLookupReading(r, token)
    BY <1>1, <1>4, ReadTypes DEF UpdateLookupRead
  <2>2. QED
    BY <1>1, <2>1 DEF UpdateLookupReading, Rejected, vars
<1>5. ASSUME NEW r \in Requests, AuthorisedRead(r) PROVE TypeInv'
  <2>1. PICK x \in ObjectIds, row \in Session \cup {None} :
          RefreshLookupReading(r, x, row) \/ DeleteLookupReading(r, x, row)
    BY <1>1, <1>5, ReadTypes DEF AuthorisedRead
  <2>2. QED
    BY <1>1, <2>1 DEF RefreshLookupReading, DeleteLookupReading, Authorised, Rejected, vars
<1>6. ASSUME NEW r \in Requests, StaleRead(r) PROVE TypeInv'
  <2>1. held[r] \in Tokens
    BY <1>1, <1>6 DEF StaleRead
  <2>2. PICK row \in Session \cup {None} : LoginReading(r, row) \/ UpdateReadSessionReading(r, row)
    BY <1>1, <1>6, <2>1, ReadTypes DEF StaleRead
  <2>3. QED
    BY <1>1, <2>2 DEF LoginReading, UpdateReadSessionReading
<1>7. QED
  BY <1>2, <1>3, <1>4, <1>5, <1>6, StaleSteps

LEMMA StaleIdentityStep == StaleInv /\ StaleNext => IdentityInv'
<1> SUFFICES ASSUME StaleInv, StaleNext PROVE IdentityInv'
  OBVIOUS
<1>1. SeenTypes /\ SeenMatches /\ TypeInv /\ IdentityInv
  BY DEF StaleInv
<1> USE DEF TypeInv, TypeOK, LocalsReady, Labels, Holding, tables, locals,
            Goto, MoveOn, Finish, IdentityInv, RowsMatchTheirToken, IndexesMatchTheirKey,
            ObjectsHaveOneOwner, HandlersMatchTheirUser
<1>2. CASE Plain
  BY <1>1, <1>2, IdentityStep DEF Plain
<1>3. ASSUME NEW r \in Requests, RegisterRead(r) PROVE IdentityInv'
  <2>1. PICK o \in OpenIds, token \in Tokens \cup {None} :
          \/ RegisterKnownReading(r, token)
          \/ \E n \in Nicknames : RegisterNewReading(r, o, n, token)
    BY <1>1, <1>3, ReadTypes DEF RegisterRead
  <2>2. CASE RegisterKnownReading(r, token)
    BY <1>1, <2>1, <2>2 DEF RegisterKnownReading
  <2>3. ASSUME NEW n \in Nicknames, RegisterNewReading(r, o, n, token) PROVE IdentityInv'
    BY <1>1, <2>3 DEF RegisterNewReading, FreshTokens, FreshObjectIds
  <2>4. QED
    BY <2>1, <2>2, <2>3
<1>4. ASSUME NEW r \in Requests, UpdateLookupRead(r) PROVE IdentityInv'
  <2>1. PICK token \in Tokens \cup {None} : UpdateLookupReading(r, token)
    BY <1>1, <1>4, ReadTypes DEF UpdateLookupRead
  <2>2. QED
    BY <1>1, <2>1 DEF UpdateLookupReading, Rejected, vars
<1>5. ASSUME NEW r \in Requests, AuthorisedRead(r) PROVE IdentityInv'
  <2>0. PICK t \in Tokens, x \in ObjectIds : \E row \in Reads(seen_sessions, t) :
          RefreshLookupReading(r, x, row) \/ DeleteLookupReading(r, x, row)
    BY <1>5 DEF AuthorisedRead
  <2>1. PICK row \in Reads(seen_sessions, t) :
          RefreshLookupReading(r, x, row) \/ DeleteLookupReading(r, x, row)
    BY <2>0
  <2>2. row \in Session \cup {None}
    BY <1>1, ReadTypes
  <2>3. row # None => row.session_token = t /\ IdentityOf(row) = minted[t]
    BY <1>1, ReadMatches
  <2>4. QED
    BY <1>1, <2>1, <2>2, <2>3
       DEF RefreshLookupReading, DeleteLookupReading, Authorised, Rejected, vars
<1>6. ASSUME NEW r \in Requests, StaleRead(r) PROVE IdentityInv'
  <2>1. held[r] \in Tokens
    BY <1>1, <1>6 DEF StaleRead
  <2>2. PICK row \in Reads(seen_sessions, held[r]) :
          LoginReading(r, row) \/ UpdateReadSessionReading(r, row)
    BY <1>6 DEF StaleRead
  <2>3. row \in Session \cup {None}
    BY <1>1, <2>1, ReadTypes
  <2>4. row # None => row.session_token = held[r] /\ IdentityOf(row) = minted[held[r]]
    BY <1>1, <2>1, ReadMatches
  <2>5. CASE LoginReading(r, row)
    BY <1>1, <2>1, <2>3, <2>4, <2>5 DEF LoginReading
  <2>6. CASE UpdateReadSessionReading(r, row)
    BY <1>1, <2>1, <2>3, <2>4, <2>6 DEF UpdateReadSessionReading
  <2>7. QED
    BY <2>2, <2>5, <2>6
<1>7. QED
  BY <1>2, <1>3, <1>4, <1>5, <1>6, StaleSteps

(* Once drawn, a token stays drawn for the same user.                       *)
LEMMA DrawsStay ==
  ASSUME StaleInv, StaleNext, NEW t \in Tokens, minted[t] # None
  PROVE  minted'[t] = minted[t]
<1> USE DEF FreshTokens
<1> DEFINE Drawn == UNCHANGED minted \/ \E u \in FreshTokens : \E i : minted' = [minted EXCEPT ![u] = i]
<1>1. TypeOK
  BY DEF StaleInv, TypeInv
<1>2. CASE UNCHANGED minted
  BY <1>2
<1>3. CASE \E u \in FreshTokens : \E i : minted' = [minted EXCEPT ![u] = i]
  BY <1>1, <1>3 DEF TypeOK
<1>4. Drawn
  <2>1. ASSUME NEW r \in Requests, StaleStart(r) PROVE Drawn
    BY <2>1 DEF StaleStart, RegisterKnownReading, RegisterNewReading, UpdateLookupReading,
                RefreshLookupReading, DeleteLookupReading, Rejected, vars
  <2>2. ASSUME NEW r \in Requests, StaleStep(r) PROVE Drawn
    BY <2>2 DEF StaleStep, StaleRead, LoginReading, UpdateReadSessionReading, RegisterPutSession,
                RegisterPutOpenId, RegisterPutObjId, UpdateSave, RefreshDelete, RefreshPutSession,
                RefreshPutObjId, RefreshPutOpenId, DeleteSaves, DeleteSession, DeleteOpenId,
                DeleteObjId, Respond, MoveOn
  <2>3. ASSUME NEW r \in Requests, Abort(r) PROVE Drawn
    BY <2>3 DEF Abort
  <2>4. QED
    BY <2>1, <2>2, <2>3 DEF StaleNext
<1>5. QED
  BY <1>2, <1>3, <1>4

LEMMA SeenStep == StaleInv /\ StaleNext => SeenTypes' /\ SeenMatches'
<1> SUFFICES ASSUME StaleInv, StaleNext PROVE SeenTypes' /\ SeenMatches'
  OBVIOUS
<1>1. TypeOK' /\ RowsMatchTheirToken' /\ IndexesMatchTheirKey'
  BY StaleTypeStep, StaleIdentityStep DEF TypeInv, IdentityInv
<1>2. /\ seen_sessions' = Remember(seen_sessions, sessions')
      /\ seen_by_openid' = Remember(seen_by_openid, sessions_by_openid')
      /\ seen_by_objid' = Remember(seen_by_objid, sessions_by_objid')
  BY DEF StaleNext
<1>3. SeenTypes /\ SeenMatches
  BY DEF StaleInv
<1>4. SeenTypes'
  BY <1>1, <1>2, <1>3 DEF SeenTypes, TypeOK, Remember
<1>5. /\ \A t \in Tokens : seen_sessions'[t] = seen_sessions[t] \cup ({sessions'[t]} \ {None})
      /\ \A o \in OpenIds :
           seen_by_openid'[o] = seen_by_openid[o] \cup ({sessions_by_openid'[o]} \ {None})
      /\ \A x \in ObjectIds :
           seen_by_objid'[x] = seen_by_objid[x] \cup ({sessions_by_objid'[x]} \ {None})
  BY <1>2, <1>3 DEF SeenTypes, Remember
<1>6. ASSUME NEW t \in Tokens, NEW s \in seen_sessions'[t]
      PROVE  s.session_token = t /\ IdentityOf(s) = minted'[t]
  <2>1. CASE s \in seen_sessions[t]
    <3>1. s.session_token = t /\ IdentityOf(s) = minted[t] /\ s \in Session
      BY <1>3, <2>1 DEF SeenMatches, SeenTypes
    <3>2. minted[t] # None
      BY <3>1
    <3>3. QED
      BY <3>1, <3>2, DrawsStay
  <2>2. CASE s = sessions'[t] /\ s # None
    BY <1>1, <2>2 DEF RowsMatchTheirToken
  <2>3. QED
    BY <1>5, <1>6, <2>1, <2>2
<1>7. ASSUME NEW o \in OpenIds, NEW t \in seen_by_openid'[o]
      PROVE  minted'[t] # None /\ minted'[t].openid = o
  <2>1. CASE t \in seen_by_openid[o]
    BY <1>3, <2>1, DrawsStay DEF SeenMatches, SeenTypes
  <2>2. CASE t = sessions_by_openid'[o] /\ t # None
    BY <1>1, <2>2 DEF IndexesMatchTheirKey
  <2>3. QED
    BY <1>5, <1>7, <2>1, <2>2
<1>8. ASSUME NEW x \in ObjectIds, NEW t \in seen_by_objid'[x]
      PROVE  minted'[t] # None /\ minted'[t].object_id = x
  <2>1. CASE t \in seen_by_objid[x]
    BY <1>3, <2>1, DrawsStay DEF SeenMatches, SeenTypes
  <2>2. CASE t = sessions_by_objid'[x] /\ t # None
    BY <1>1, <2>2 DEF IndexesMatchTheirKey
  <2>3. QED
    BY <1>5, <1>8, <2>1, <2>2
<1>9. QED
  BY <1>4, <1>6, <1>7, <1>8 DEF SeenMatches

-----------------------------------------------------------------------------
LEMMA StaleInvInit == StaleInit => StaleInv
  BY TypeInit, IdentityInit DEF StaleInit, StaleInv, SeenTypes, SeenMatches

LEMMA StaleInvStep == StaleInv /\ [StaleNext]_<<vars, seen>> => StaleInv'
<1> SUFFICES ASSUME StaleInv, [StaleNext]_<<vars, seen>> PROVE StaleInv'
  OBVIOUS
<1>1. CASE StaleNext
  BY <1>1, StaleTypeStep, StaleIdentityStep, SeenStep DEF StaleInv
<1>2. CASE UNCHANGED <<vars, seen>>
  <2>1. UNCHANGED vars /\ UNCHANGED <<minted, seen>>
    BY <1>2 DEF vars
  <2>2. TypeInv' /\ IdentityInv'
    BY <2>1, TypeStep, IdentityStep DEF StaleInv
  <2>3. QED
    BY <2>1, <2>2 DEF StaleInv, SeenTypes, SeenMatches, seen
<1>3. QED
  BY <1>1, <1>2

(* With arbitrarily old reads, tables and locals still keep their types.    *)
THEOREM StaleTypeCorrect == StaleSpec => []TypeOK
<1>1. StaleInv => TypeOK
  BY DEF StaleInv, TypeInv
<1>2. QED
  BY StaleInvInit, StaleInvStep, <1>1, PTL DEF StaleSpec

(* No stale read, in whatever order the caches of different keys catch up,  *)
(* files a session under another token or another user's token.             *)
THEOREM StaleRowsCorrect == StaleSpec => []RowsMatchTheirToken
<1>1. StaleInv => RowsMatchTheirToken
  BY DEF StaleInv, IdentityInv
<1>2. QED
  BY StaleInvInit, StaleInvStep, <1>1, PTL DEF StaleSpec

(* Nor does it make an index name a token of someone else.                  *)
THEOREM StaleIndexesCorrect == StaleSpec => []IndexesMatchTheirKey
<1>1. StaleInv => IndexesMatchTheirKey
  BY DEF StaleInv, IdentityInv
<1>2. QED
  BY StaleInvInit, StaleInvStep, <1>1, PTL DEF StaleSpec

(* An object id keeps its openid through refreshes of stale rows as well.   *)
THEOREM StaleOwnersCorrect == StaleSpec => []ObjectsHaveOneOwner
<1>1. StaleInv => ObjectsHaveOneOwner
  BY DEF StaleInv, IdentityInv
<1>2. QED
  BY StaleInvInit, StaleInvStep, <1>1, PTL DEF StaleSpec

(* A handler that reads its index and its row from caches of different age  *)
(* still concerns one user.                                                 *)
THEOREM StaleHandlersCorrect == StaleSpec => []HandlersMatchTheirUser
<1>1. StaleInv => HandlersMatchTheirUser
  BY DEF StaleInv, IdentityInv
<1>2. QED
  BY StaleInvInit, StaleInvStep, <1>1, PTL DEF StaleSpec

-----------------------------------------------------------------------------
(* Revocation.  Of the reads only UpdateReadSession leads to a put under    *)
(* the token that was read; registration puts under a new one.              *)

LEMMA RevivedStep ==
  ASSUME StaleInv, StaleNext, NEW t \in Tokens, Revoked(t)
  PROVE  \/ Revoked(t)'
         \/ \E r \in Requests : pc'[r] = "upd_save" /\ session'[r].session_token = t
<1> DEFINE Renamed == \E r \in Requests : pc'[r] = "upd_save" /\ session'[r].session_token = t
<1>1. SeenTypes /\ TypeInv /\ IdentityInv
  BY DEF StaleInv
<1> USE DEF TypeInv, TypeOK, LocalsReady, Labels, Holding, tables, locals, Goto, MoveOn, Finish,
            Revoked, PutPending
<1>2. CASE Plain
  BY <1>1, <1>2, RevokedStep DEF Plain
<1>3. ASSUME NEW r \in Requests, RegisterRead(r) PROVE Revoked(t)'
  <2>1. PICK o \in OpenIds, token \in Tokens \cup {None} :
          \/ RegisterKnownReading(r, token)
          \/ \E n \in Nicknames : RegisterNewReading(r, o, n, token)
    BY <1>1, <1>3, ReadTypes DEF RegisterRead
  <2>2. CASE RegisterKnownReading(r, token)
    BY <1>1, <2>1, <2>2 DEF RegisterKnownReading
  <2>3. ASSUME NEW n \in Nicknames, RegisterNewReading(r, o, n, token) PROVE Revoked(t)'
    BY <1>1, <2>3 DEF RegisterNewReading, FreshTokens, FreshObjectIds
  <2>4. QED
    BY <2>1, <2>2, <2>3
<1>4. ASSUME NEW r \in Requests, UpdateLookupRead(r) PROVE Revoked(t)'
  <2>1. PICK token \in Tokens \cup {None} : UpdateLookupReading(r, token)
    BY <1>1, <1>4, ReadTypes DEF UpdateLookupRead
  <2>2. QED
    BY <1>1, <2>1 DEF UpdateLookupReading, Rejected, vars
<1>5. ASSUME NEW r \in Requests, AuthorisedRead(r) PROVE Revoked(t)'
  <2>1. PICK x \in ObjectIds, row \in Session \cup {None} :
          RefreshLookupReading(r, x, row) \/ DeleteLookupReading(r, x, row)
    BY <1>1, <1>5, ReadTypes DEF AuthorisedRead
  <2>2. QED
    BY <1>1, <2>1 DEF RefreshLookupReading, DeleteLookupReading, Authorised, Rejected, vars
<1>6. ASSUME NEW r \in Requests, StaleRead(r) PROVE Revoked(t)' \/ Renamed
  <2>1. held[r] \in Tokens
    BY <1>1, <1>6 DEF StaleRead
  <2>2. PICK row \in Session \cup {None} : LoginReading(r, row) \/ UpdateReadSessionReading(r, row)
    BY <1>1, <1>6, <2>1, ReadTypes DEF StaleRead
  <2>3. CASE LoginReading(r, row)
    BY <1>1, <2>2, <2>3 DEF LoginReading
  <2>4. CASE UpdateReadSessionReading(r, row)
    BY <1>1, <2>2, <2>4 DEF UpdateReadSessionReading
  <2>5. QED
    BY <2>2, <2>3, <2>4
<1>7. QED
  BY <1>2, <1>3, <1>4, <1>5, <1>6, StaleSteps

(* However old the rows that logins, refreshes and deletes work from, a     *)
(* revoked token comes back by a rename or not at all.                      *)
THEOREM RevivalCorrect == StaleSpec => RevivedByRenamesOnly
<1>1. StaleInv /\ [StaleNext]_<<vars, seen>>
        => [\A t \in Tokens : Revoked(t) =>
              \/ Revoked(t)'
              \/ \E r \in Requests :
                   pc'[r] = "upd_save" /\ session'[r].session_token = t]_<<vars, seen>>
  BY RevivedStep
<1>2. QED
  BY StaleInvInit, StaleInvStep, <1>1, PTL DEF StaleSpec, RevivedByRenamesOnly
=============================================================================
