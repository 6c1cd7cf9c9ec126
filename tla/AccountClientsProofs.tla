------------------------ MODULE AccountClientsProofs ------------------------
(***************************************************************************)
(* What a client that makes one call at a time sees of its account, whoever *)
(* else races and abandons requests, proved with TLAPS for any number of    *)
(* clients, requests and ids.                                               *)
(***************************************************************************)
EXTENDS AccountEvents, UserSessionsProofs

USE NoneAssumption DEF Get, Has, Put, Delete, EmptyTable, Session, Identity, IdentityOf

-----------------------------------------------------------------------------
(* Callers.  A request works for the same openid from its first call to its *)
(* last, and nobody else's step changes what it holds.                      *)

LocalsClean ==
  \A r \in Requests :
    /\ pc[r] = "idle" => held[r] = None /\ session[r] = None
    /\ pc[r] \in {"login", "upd_session"} => session[r] = None
    /\ held[r] # None => minted[held[r]] # None

LEMMA CleanInit == Init => LocalsClean
  BY DEF Init, LocalsClean

SessionInv == TypeInv /\ IdentityInv /\ LocalsClean

(* What request q leaves alone of the others.                               *)
OthersKept(q) ==
  /\ \A r \in Requests \ {q} :
       pc'[r] = pc[r] /\ held'[r] = held[r] /\ session'[r] = session[r]
  /\ \A t \in Tokens : minted[t] # None => minted'[t] = minted[t]

LEMMA CleanStep == SessionInv /\ [Next]_vars => LocalsClean'
<1> SUFFICES ASSUME SessionInv, [Next]_vars PROVE LocalsClean'
  OBVIOUS
<1> USE DEF SessionInv, TypeInv, TypeOK, LocalsReady, LocalsClean, Holding, Labels, tables, locals,
            Goto, MoveOn, Finish, IdentityInv, RowsMatchTheirToken, IndexesMatchTheirKey
<1>1. ASSUME NEW r \in Requests, NEW o \in OpenIds, RegisterKnown(r, o)
      PROVE  LocalsClean'
  BY <1>1 DEF RegisterKnown, RegisterKnownReading
<1>2. ASSUME NEW r \in Requests, NEW o \in OpenIds, NEW n \in Nicknames,
             RegisterNew(r, o, n)
      PROVE  LocalsClean'
  BY <1>2 DEF RegisterNew, RegisterNewReading, FreshTokens, FreshObjectIds
<1>3. ASSUME NEW r \in Requests, NEW x \in ObjectIds, UpdateLookup(r, x)
      PROVE  LocalsClean'
  BY <1>3 DEF UpdateLookup, UpdateLookupReading, Rejected, vars
<1>4. ASSUME NEW r \in Requests, NEW t \in Tokens, NEW x \in ObjectIds,
             RefreshLookup(r, t, x) \/ DeleteLookup(r, t, x)
      PROVE  LocalsClean'
  BY <1>4
     DEF RefreshLookup, RefreshLookupReading, DeleteLookup, DeleteLookupReading, Authorised,
         Rejected, vars
<1>5. ASSUME NEW r \in Requests, Login(r)
      PROVE  LocalsClean'
  BY <1>5 DEF Login, LoginReading
<1>6. ASSUME NEW r \in Requests,
             RegisterPutSession(r) \/ UpdateSave(r) \/ RefreshPutSession(r)
      PROVE  LocalsClean'
  BY <1>6 DEF RegisterPutSession, UpdateSave, RefreshPutSession
<1>7. ASSUME NEW r \in Requests, UpdateReadSession(r)
      PROVE  LocalsClean'
  BY <1>7 DEF UpdateReadSession, UpdateReadSessionReading
<1>8. ASSUME NEW r \in Requests, RefreshDelete(r)
      PROVE  LocalsClean'
  BY <1>8 DEF RefreshDelete, FreshTokens
<1>9. ASSUME NEW r \in Requests,
             \/ RegisterPutOpenId(r) \/ RegisterPutObjId(r)
             \/ RefreshPutObjId(r) \/ RefreshPutOpenId(r)
      PROVE  LocalsClean'
  BY <1>9 DEF RegisterPutOpenId, RegisterPutObjId, RefreshPutObjId, RefreshPutOpenId
<1>10. ASSUME NEW r \in Requests,
              \/ DeleteSaves(r) \/ DeleteSession(r)
              \/ DeleteOpenId(r) \/ DeleteObjId(r)
       PROVE  LocalsClean'
  BY <1>10 DEF DeleteSaves, DeleteSession, DeleteOpenId, DeleteObjId
<1>11. ASSUME NEW r \in Requests, Respond(r) \/ Abort(r)
       PROVE  LocalsClean'
  BY <1>11 DEF Respond, Abort
<1>12. CASE UNCHANGED vars
  BY <1>12 DEF vars
<1>13. QED
  BY <1>1, <1>2, <1>3, <1>4, <1>5, <1>6, <1>7, <1>8, <1>9, <1>10, <1>11, <1>12 DEF Next, Start, Step

LEMMA SessionStep == SessionInv /\ [Next]_vars => SessionInv'
  BY TypeStep, IdentityStep, CleanStep DEF SessionInv

(* A request goes on working for whom it works for, or is done.             *)
LEMMA CallerStep ==
  ASSUME SessionInv, NEW r \in Requests, Step(r) \/ Abort(r)
  PROVE  /\ pc[r] # "idle" /\ Caller(r) \in OpenIds
         /\ Caller(r)' = IF pc'[r] = "idle" THEN None ELSE Caller(r)
         /\ OthersKept(r)
<1> USE DEF SessionInv, TypeInv, TypeOK, LocalsReady, LocalsClean, Holding, Labels, tables, locals,
            Goto, MoveOn, Finish, IdentityInv, RowsMatchTheirToken, HandlersMatchTheirUser
<1> DEFINE Goal ==
      /\ pc[r] # "idle" /\ Caller(r) \in OpenIds
      /\ Caller(r)' = IF pc'[r] = "idle" THEN None ELSE Caller(r)
      /\ OthersKept(r)
<1> USE DEF OthersKept, Caller
<1>1. ASSUME Login(r)
      PROVE  Goal
  BY <1>1 DEF Login, LoginReading
<1>2. ASSUME RegisterPutSession(r) \/ UpdateSave(r) \/ RefreshPutSession(r)
      PROVE  Goal
  BY <1>2 DEF RegisterPutSession, UpdateSave, RefreshPutSession
<1>3. ASSUME UpdateReadSession(r)
      PROVE  Goal
  BY <1>3 DEF UpdateReadSession, UpdateReadSessionReading
<1>4. ASSUME RefreshDelete(r)
      PROVE  Goal
  BY <1>4 DEF RefreshDelete, FreshTokens
<1>5. ASSUME \/ RegisterPutOpenId(r) \/ RegisterPutObjId(r)
             \/ RefreshPutObjId(r) \/ RefreshPutOpenId(r)
      PROVE  Goal
  BY <1>5 DEF RegisterPutOpenId, RegisterPutObjId, RefreshPutObjId, RefreshPutOpenId
<1>6. ASSUME \/ DeleteSaves(r) \/ DeleteSession(r)
             \/ DeleteOpenId(r) \/ DeleteObjId(r)
      PROVE  Goal
  BY <1>6 DEF DeleteSaves, DeleteSession, DeleteOpenId, DeleteObjId
<1>7. ASSUME Respond(r) \/ Abort(r)
      PROVE  Goal
  BY <1>7 DEF Respond, Abort
<1>8. QED
  BY <1>1, <1>2, <1>3, <1>4, <1>5, <1>6, <1>7 DEF Step

(* What belongs to openid o in the tables.                                  *)
OwnKept(o) ==
  /\ \A t \in Tokens :
       \/ sessions[t] # None /\ sessions[t].openid = o
       \/ sessions'[t] # None /\ sessions'[t].openid = o
       => sessions'[t] = sessions[t]
  /\ sessions_by_openid'[o] = sessions_by_openid[o]
  /\ \A t \in Tokens : minted[t] # None /\ minted[t].openid = o =>
       sessions_by_objid'[minted[t].object_id] = sessions_by_objid[minted[t].object_id]

(* A request leaves alone what belongs to anybody but its caller: tokens,   *)
(* and so object ids, were each drawn for one openid.                       *)
LEMMA OwnStep ==
  ASSUME SessionInv, NEW r \in Requests, Step(r) \/ Abort(r),
         NEW o \in OpenIds, Caller(r) # o
  PROVE  OwnKept(o)
<1> USE DEF SessionInv, TypeInv, TypeOK, LocalsReady, LocalsClean, Holding, Labels, tables, locals,
            Goto, MoveOn, Finish, IdentityInv, RowsMatchTheirToken, HandlersMatchTheirUser,
            ObjectsHaveOneOwner
<1> USE DEF OwnKept, Caller
<1>1. ASSUME Login(r)
      PROVE  OwnKept(o)
  BY <1>1 DEF Login, LoginReading
<1>2. ASSUME RegisterPutSession(r) \/ UpdateSave(r) \/ RefreshPutSession(r)
      PROVE  OwnKept(o)
  <2>1. /\ session[r] \in Session /\ session[r].openid # o /\ session[r].openid \in OpenIds
        /\ session[r].session_token \in Tokens /\ session[r].object_id \in ObjectIds
        /\ minted[session[r].session_token] = IdentityOf(session[r])
    BY <1>2 DEF RegisterPutSession, UpdateSave, RefreshPutSession
  <2>2. /\ \A t \in Tokens : sessions[t] # None /\ sessions[t].openid = o => t # session[r].session_token
        /\ \A t \in Tokens : minted[t] # None /\ minted[t].openid = o =>
             minted[t].object_id # session[r].object_id
    BY <2>1
  <2>3. /\ UNCHANGED <<sessions_by_openid, sessions_by_objid>>
        /\ sessions' = [sessions EXCEPT ![session[r].session_token] = session[r]]
    BY <1>2 DEF RegisterPutSession, UpdateSave, RefreshPutSession
  <2>4. QED
    BY <2>1, <2>2, <2>3
<1>3. ASSUME UpdateReadSession(r)
      PROVE  OwnKept(o)
  BY <1>3 DEF UpdateReadSession, UpdateReadSessionReading
<1>4. ASSUME RefreshDelete(r)
      PROVE  OwnKept(o)
  BY <1>4 DEF RefreshDelete, FreshTokens
<1>5. ASSUME \/ RegisterPutOpenId(r) \/ RegisterPutObjId(r)
             \/ RefreshPutObjId(r) \/ RefreshPutOpenId(r)
      PROVE  OwnKept(o)
  <2>1. /\ session[r] \in Session /\ session[r].openid # o /\ session[r].openid \in OpenIds
        /\ session[r].session_token \in Tokens /\ session[r].object_id \in ObjectIds
        /\ minted[session[r].session_token] = IdentityOf(session[r])
    BY <1>5 DEF RegisterPutOpenId, RegisterPutObjId, RefreshPutObjId, RefreshPutOpenId
  <2>2. /\ \A t \in Tokens : sessions[t] # None /\ sessions[t].openid = o => t # session[r].session_token
        /\ \A t \in Tokens : minted[t] # None /\ minted[t].openid = o =>
             minted[t].object_id # session[r].object_id
    BY <2>1
  <2>3. CASE RegisterPutOpenId(r) \/ RefreshPutOpenId(r)
    BY <2>1, <2>3 DEF RegisterPutOpenId, RefreshPutOpenId
  <2>4. CASE RegisterPutObjId(r) \/ RefreshPutObjId(r)
    BY <2>1, <2>2, <2>4 DEF RegisterPutObjId, RefreshPutObjId
  <2>5. QED
    BY <1>5, <2>3, <2>4
<1>6. ASSUME \/ DeleteSaves(r) \/ DeleteSession(r)
             \/ DeleteOpenId(r) \/ DeleteObjId(r)
      PROVE  OwnKept(o)
  <2>1. /\ session[r] \in Session /\ session[r].openid # o /\ session[r].openid \in OpenIds
        /\ session[r].session_token \in Tokens /\ session[r].object_id \in ObjectIds
        /\ minted[session[r].session_token] = IdentityOf(session[r])
    BY <1>6 DEF DeleteSaves, DeleteSession, DeleteOpenId, DeleteObjId
  <2>2. /\ \A t \in Tokens : sessions[t] # None /\ sessions[t].openid = o => t # session[r].session_token
        /\ \A t \in Tokens : minted[t] # None /\ minted[t].openid = o =>
             minted[t].object_id # session[r].object_id
    BY <2>1
  <2>3. CASE DeleteSaves(r)
    BY <2>3 DEF DeleteSaves
  <2>4. CASE DeleteSession(r)
    <3>1. sessions' = [sessions EXCEPT ![session[r].session_token] = None]
      BY <2>4 DEF DeleteSession
    <3>2. UNCHANGED <<sessions_by_openid, sessions_by_objid>>
      BY <2>4 DEF DeleteSession
    <3>3. QED
      BY <2>1, <2>2, <3>1, <3>2
  <2>5. CASE DeleteOpenId(r)
    BY <2>1, <2>5 DEF DeleteOpenId
  <2>6. CASE DeleteObjId(r)
    BY <2>1, <2>2, <2>6 DEF DeleteObjId
  <2>7. QED
    BY <1>6, <2>3, <2>4, <2>5, <2>6
<1>7. ASSUME Respond(r) \/ Abort(r)
      PROVE  OwnKept(o)
  BY <1>7 DEF Respond, Abort
<1>8. QED
  BY <1>1, <1>2, <1>3, <1>4, <1>5, <1>6, <1>7 DEF Step

-----------------------------------------------------------------------------
(* Careful clients.  While nobody calls for a careful client its account is *)
(* whole: one row, both indexes at it, and the client knows its token.      *)
(* While a call is under way the tables are as the call has made them.      *)

CredOK == cred \in [Careful -> Credential \cup {None}]

OneCall ==
  \A r, q \in Requests : Caller(r) \in Careful /\ Caller(q) = Caller(r) => q = r

NoRow(o) == \A t \in Tokens : Has(sessions, t) => Get(sessions, t).openid # o

OnlyRow(o, t) == \A u \in Tokens : Has(sessions, u) /\ Get(sessions, u).openid = o => u = t

Absent(o) == NoRow(o) /\ ~Has(sessions_by_openid, o)

Intact(o, c) ==
  /\ c # None
  /\ Has(sessions, c.session_token)
  /\ Get(sessions, c.session_token).object_id = c.object_id
  /\ Get(sessions, c.session_token).openid = o
  /\ OnlyRow(o, c.session_token)
  /\ Get(sessions_by_openid, o) = c.session_token
  /\ Get(sessions_by_objid, c.object_id) = c.session_token

Filed(o, s) == Get(sessions, s.session_token) = s /\ OnlyRow(o, s.session_token)

IdleOK(o) == IF cred[o] = None THEN Absent(o) ELSE Intact(o, cred[o])

CallOK(r, o) ==
  /\ pc[r] \in {"login", "upd_session"} =>
       Intact(o, cred[o]) /\ held[r] = cred[o].session_token
  /\ pc[r] \in {"upd_save", "ref_delete", "del_saves", "del_session"} =>
       Intact(o, cred[o]) /\ CredOf(session[r]) = cred[o]
  /\ pc[r] = "reg_session" => Absent(o)
  /\ pc[r] \in {"ref_session", "del_openid"} => NoRow(o)
  /\ pc[r] \in {"del_objid", "del_reply"} => Absent(o)
  /\ pc[r] \in {"ref_delete", "del_saves", "del_session",
                "reg_openid", "reg_objid", "ref_objid", "ref_openid", "reply"} =>
       Filed(o, session[r])
  /\ pc[r] \in {"reg_objid", "reply"} =>
       Get(sessions_by_openid, o) = session[r].session_token
  /\ pc[r] \in {"ref_openid", "reply"} =>
       Get(sessions_by_objid, session[r].object_id) = session[r].session_token

CarefulInv ==
  /\ CredOK
  /\ OneCall
  /\ \A o \in Careful : ~Busy(o) => IdleOK(o)
  /\ \A r \in Requests, o \in Careful : Caller(r) = o => CallOK(r, o)

LEMMA CarefulAreKnown == Careful \subseteq OpenIds
  BY CarefulAssumption

LEMMA NoneIsNoRecord ==
  /\ \A s \in Session : CredOf(s) \in Credential /\ CredOf(s) # None
  /\ \A s \in Session : AccountOf(s) \in AccountRow /\ AccountOf(s) # None
  BY CarefulAssumption DEF CredOf, AccountOf, Credential, AccountRow

(* Whoever keeps what belongs to o keeps it intact, or absent.              *)
LEMMA KeptIntact ==
  ASSUME SessionInv, CredOK, NEW o \in Careful, OwnKept(o), cred'[o] = cred[o]
  PROVE  /\ NoRow(o) => NoRow(o)'
         /\ Absent(o) => Absent(o)'
         /\ cred[o] # None /\ Intact(o, cred[o]) => Intact(o, cred[o])'
         /\ \A r \in Requests :
              session'[r] = session[r] /\ session[r] # None /\ session[r].openid = o
              => /\ Filed(o, session[r]) => Filed(o, session[r])'
                 /\ sessions_by_objid'[session[r].object_id] = sessions_by_objid[session[r].object_id]
<1> USE CarefulAreKnown DEF OwnKept, TypeOK, RowsMatchTheirToken
<1>0. TypeOK /\ RowsMatchTheirToken /\ HandlersMatchTheirUser
  BY DEF SessionInv, TypeInv, IdentityInv
<1>1. \A u \in Tokens : sessions'[u] # None /\ sessions'[u].openid = o =>
        sessions[u] # None /\ sessions[u].openid = o
  BY <1>0
<1>2. (NoRow(o) => NoRow(o)') /\ (Absent(o) => Absent(o)')
  BY <1>0, <1>1 DEF NoRow, Absent
<1>3. \A t \in Tokens : OnlyRow(o, t) => OnlyRow(o, t)'
  BY <1>0, <1>1 DEF OnlyRow
<1>4. ASSUME cred[o] # None, Intact(o, cred[o]) PROVE Intact(o, cred[o])'
  <2>1. cred[o].session_token \in Tokens /\ cred[o].object_id \in ObjectIds
    BY <1>4 DEF CredOK, Credential
  <2>2. minted[cred[o].session_token] = [openid |-> o, object_id |-> cred[o].object_id]
    BY <1>0, <1>4, <2>1 DEF Intact
  <2>3. sessions'[cred[o].session_token] = sessions[cred[o].session_token]
    BY <1>0, <1>4, <2>1 DEF Intact
  <2>4. sessions_by_objid'[cred[o].object_id] = sessions_by_objid[cred[o].object_id]
    BY <2>1, <2>2
  <2>5. sessions_by_openid'[o] = sessions_by_openid[o]
    OBVIOUS
  <2>6. OnlyRow(o, cred[o].session_token)'
    BY <1>3, <1>4, <2>1 DEF Intact, OnlyRow
  <2>7. QED
    BY <1>4, <2>3, <2>4, <2>5, <2>6 DEF Intact
<1>5. ASSUME NEW r \in Requests, session'[r] = session[r], session[r] # None,
             session[r].openid = o
      PROVE  /\ Filed(o, session[r]) => Filed(o, session[r])'
             /\ sessions_by_objid'[session[r].object_id] = sessions_by_objid[session[r].object_id]
  <2>1. /\ session[r] \in Session /\ session[r].session_token \in Tokens
        /\ minted[session[r].session_token] = IdentityOf(session[r])
    BY <1>0, <1>5 DEF HandlersMatchTheirUser
  <2>2. sessions_by_objid'[session[r].object_id] = sessions_by_objid[session[r].object_id]
    BY <1>5, <2>1
  <2>3. ASSUME Filed(o, session[r]) PROVE Filed(o, session[r])'
    BY <1>3, <1>5, <2>1, <2>3 DEF Filed, OnlyRow
  <2>4. QED
    BY <2>2, <2>3
<1>6. QED
  BY <1>2, <1>4, <1>5

LEMMA KeptIdle ==
  ASSUME SessionInv, CredOK, NEW o \in Careful, OwnKept(o), cred'[o] = cred[o], IdleOK(o)
  PROVE  IdleOK(o)'
  BY KeptIntact DEF IdleOK

LEMMA KeptCall ==
  ASSUME SessionInv, CredOK, NEW o \in Careful, OwnKept(o), cred'[o] = cred[o],
         NEW r \in Requests, Caller(r) = o, CallOK(r, o),
         pc'[r] = pc[r], held'[r] = held[r], session'[r] = session[r]
  PROVE  CallOK(r, o)'
<1>1. CASE pc[r] \in {"idle", "login", "upd_session"}
  BY <1>1, KeptIntact DEF CallOK, Intact
<1>2. CASE pc[r] \notin {"idle", "login", "upd_session"}
  <2>1. session[r] # None /\ session[r].openid = o
    BY <1>2, CarefulAreKnown DEF SessionInv, TypeInv, TypeOK, LocalsReady, Holding, Caller
  <2>2. sessions_by_openid'[o] = sessions_by_openid[o]
    BY DEF OwnKept
  <2>3. (Absent(o) => Absent(o)') /\ (NoRow(o) => NoRow(o)')
    BY KeptIntact
  <2>4. /\ Filed(o, session[r]) => Filed(o, session[r])'
        /\ sessions_by_objid'[session[r].object_id] = sessions_by_objid[session[r].object_id]
    BY <2>1, KeptIntact
  <2>5. pc[r] \in {"upd_save", "ref_delete", "del_saves", "del_session"} => Intact(o, cred[o])'
    BY KeptIntact DEF CallOK, Intact
  <2>6. QED
    BY <1>2, <2>2, <2>3, <2>4, <2>5 DEF CallOK, CredOf
<1>3. QED
  BY <1>1, <1>2

(* A careful client's own call: each step leaves the tables as the next     *)
(* expects them, and the last leaves the account whole.                     *)
LEMMA OwnCallStep ==
  ASSUME SessionInv, CredOK, NEW o \in Careful, NEW r \in Requests,
         CarefulStep(r, o), CallOK(r, o)
  PROVE  /\ pc'[r] # "idle" => CallOK(r, o)'
         /\ pc'[r] = "idle" => IdleOK(o)'
         /\ CredOK'
<1> DEFINE Goal == /\ pc'[r] # "idle" => CallOK(r, o)'
                   /\ pc'[r] = "idle" => IdleOK(o)'
                   /\ CredOK'
<1>a. /\ TypeOK /\ LocalsReady /\ RowsMatchTheirToken /\ IndexesMatchTheirKey
      /\ LocalsClean /\ HandlersMatchTheirUser
  BY DEF SessionInv, TypeInv, IdentityInv
<1>b. Caller(r) = o /\ Step(r) /\ pc[r] # "idle" /\ o \in OpenIds
  BY CallerStep, CarefulAreKnown DEF CarefulStep
<1>c. pc[r] \notin {"reply", "del_reply"} => cred' = cred
  BY DEF CarefulStep
<1>d. /\ session[r] # None => session[r].openid = o
      /\ session[r] = None => minted[held[r]].openid = o
  BY <1>b DEF Caller, SessionInv, TypeInv, TypeOK
<1> USE DEF TypeOK, LocalsReady, LocalsClean, Holding, tables, locals,
            Goto, MoveOn, Finish, RowsMatchTheirToken, HandlersMatchTheirUser
<1> USE DEF CallOK, IdleOK, Intact, Absent, NoRow, OnlyRow, Filed, CredOf, CredOK, Credential
<1>1. ASSUME Login(r)
      PROVE  Goal
  BY <1>1, <1>a, <1>b, <1>c, <1>d DEF Login, LoginReading
<1>2. ASSUME RegisterPutSession(r) \/ UpdateSave(r) \/ RefreshPutSession(r)
      PROVE  Goal
  BY <1>2, <1>a, <1>b, <1>c, <1>d DEF RegisterPutSession, UpdateSave, RefreshPutSession
<1>3. ASSUME UpdateReadSession(r)
      PROVE  Goal
  BY <1>3, <1>a, <1>b, <1>c, <1>d DEF UpdateReadSession, UpdateReadSessionReading
<1>4. ASSUME RefreshDelete(r)
      PROVE  Goal
  BY <1>4, <1>a, <1>b, <1>c, <1>d DEF RefreshDelete, FreshTokens
<1>5. ASSUME \/ RegisterPutOpenId(r) \/ RegisterPutObjId(r)
             \/ RefreshPutObjId(r) \/ RefreshPutOpenId(r)
      PROVE  Goal
  BY <1>5, <1>a, <1>b, <1>c, <1>d
     DEF RegisterPutOpenId, RegisterPutObjId, RefreshPutObjId, RefreshPutOpenId
<1>6. ASSUME \/ DeleteSaves(r) \/ DeleteSession(r)
             \/ DeleteOpenId(r) \/ DeleteObjId(r)
      PROVE  Goal
  BY <1>6, <1>a, <1>b, <1>c, <1>d DEF DeleteSaves, DeleteSession, DeleteOpenId, DeleteObjId
<1>7. ASSUME Respond(r)
      PROVE  Goal
  <2>1. CASE pc[r] = "reply"
    <3>1. /\ session[r] \in Session /\ session[r] # None
          /\ cred' = [cred EXCEPT ![o] = CredOf(session[r])]
          /\ CredOf(session[r]) # None /\ CredOf(session[r]) \in Credential
      BY <1>a, <1>b, <2>1, NoneIsNoRecord DEF CarefulStep
    <3>2. QED
      BY <1>a, <1>b, <1>d, <1>7, <2>1, <3>1 DEF Respond
  <2>2. CASE pc[r] = "del_reply"
    <3>1. cred' = [cred EXCEPT ![o] = None]
      BY <2>2 DEF CarefulStep
    <3>2. QED
      BY <1>a, <1>b, <1>7, <2>2, <3>1 DEF Respond
  <2>3. QED
    BY <1>7, <2>1, <2>2 DEF Respond
<1>8. QED
  BY <1>b, <1>1, <1>2, <1>3, <1>4, <1>5, <1>6, <1>7 DEF Step

-----------------------------------------------------------------------------
(* The account of a careful client, in terms of what its call holds.        *)

Shows(r, o) ==
  IF pc[r] \in {"login", "upd_session", "upd_save"}
  THEN AccountOf(Get(sessions, cred[o].session_token))
  ELSE IF pc[r] \in {"del_openid", "del_objid", "del_reply"} THEN None
  ELSE AccountOf(session[r])

AccountsShown ==
  \A o \in Careful :
    /\ ~Busy(o) => Account(o) = IF cred[o] = None THEN None
                                ELSE AccountOf(Get(sessions, cred[o].session_token))
    /\ \A r \in Requests : Caller(r) = o => Account(o) = Shows(r, o)

LEMMA StoredIs ==
  ASSUME SessionInv, NEW o \in OpenIds
  PROVE  /\ \A c \in Credential : Intact(o, c) =>
              Stored(o) = Get(sessions, c.session_token) /\ Stored(o) # None
         /\ NoRow(o) => Stored(o) = None
<1>0. TypeOK /\ RowsMatchTheirToken /\ IndexesMatchTheirKey
  BY DEF SessionInv, TypeInv, IdentityInv
<1>1. ASSUME NEW c \in Credential, Intact(o, c)
      PROVE  Stored(o) = Get(sessions, c.session_token) /\ Stored(o) # None
  <2>1. c.session_token \in Tokens
    BY DEF Credential
  <2>2. /\ sessions_by_openid[o] = c.session_token
        /\ sessions[c.session_token] # None
    BY <1>1 DEF Intact
  <2>3. QED
    BY <2>1, <2>2 DEF Stored
<1>2. ASSUME NoRow(o), sessions_by_openid[o] # None PROVE Stored(o) = None
  <2>1. sessions_by_openid[o] \in Tokens
    BY <1>0, <1>2 DEF TypeOK
  <2>2. minted[sessions_by_openid[o]].openid = o
    BY <1>0, <1>2 DEF IndexesMatchTheirKey
  <2>3. ASSUME sessions[sessions_by_openid[o]] # None PROVE FALSE
    <3>1. [openid |-> sessions[sessions_by_openid[o]].openid,
           object_id |-> sessions[sessions_by_openid[o]].object_id] = minted[sessions_by_openid[o]]
      BY <1>0, <2>1, <2>3 DEF RowsMatchTheirToken
    <3>2. sessions[sessions_by_openid[o]].openid = o
      BY <2>2, <3>1
    <3>3. QED
      BY <1>2, <2>1, <2>3, <3>2 DEF NoRow
  <2>4. QED
    BY <1>2, <2>3 DEF Stored
<1>3. ASSUME sessions_by_openid[o] = None PROVE Stored(o) = None
  BY <1>3 DEF Stored
<1>4. QED
  BY <1>1, <1>2, <1>3

LEMMA AccountsAre == SessionInv /\ CarefulInv => AccountsShown
<1> SUFFICES ASSUME SessionInv, CarefulInv, NEW o \in Careful
             PROVE  /\ ~Busy(o) => Account(o) = IF cred[o] = None THEN None
                                     ELSE AccountOf(Get(sessions, cred[o].session_token))
                    /\ \A r \in Requests : Caller(r) = o => Account(o) = Shows(r, o)
  BY DEF AccountsShown
<1>0. /\ TypeOK /\ LocalsReady /\ LocalsClean /\ CredOK /\ OneCall /\ o \in OpenIds
  BY CarefulAreKnown DEF SessionInv, TypeInv, IdentityInv, CarefulInv
<1> DEFINE Writers == {r \in Requests : pc[r] \in Writing /\ session[r].openid = o}
<1>a. Account(o) =
        LET row == IF Writers # {} THEN session[CHOOSE r \in Writers : TRUE] ELSE Stored(o)
        IN  IF row = None THEN None ELSE AccountOf(row)
  BY Zenon DEF Account
<1>b. \A r \in Requests : r \in Writers <=> pc[r] \in Writing /\ session[r].openid = o
  OBVIOUS
<1>c. \A r \in Requests : pc[r] \in Writing => session[r] # None
  BY <1>0 DEF LocalsReady, Writing, Holding, Labels
<1>d. Writers \subseteq Requests
  OBVIOUS
<1>e. Writers # {} => (CHOOSE r \in Writers : TRUE) \in Writers
  BY Zenon
<1> HIDE DEF Writers
<1>1. \A r \in Writers : Caller(r) = o
  BY <1>b, <1>c, <1>d DEF Caller
<1>2. ASSUME NEW r \in Requests, Caller(r) = o, pc[r] \in Writing
      PROVE  Account(o) = AccountOf(session[r])
  <2>1. r \in Writers
    BY <1>b, <1>c, <1>2 DEF Caller
  <2>2. \A q \in Writers : q = r
    BY <1>0, <1>1, <1>2, <1>d DEF OneCall
  <2>3. (CHOOSE q \in Writers : TRUE) = r
    BY <1>e, <2>1, <2>2
  <2>4. session[r] # None /\ Writers # {}
    BY <1>c, <1>2, <2>1
  <2>5. QED
    BY <1>a, <2>3, <2>4
<1>3. ASSUME Writers = {}
      PROVE  Account(o) = IF Stored(o) = None THEN None ELSE AccountOf(Stored(o))
  BY <1>a, <1>3
<1>4. Intact(o, cred[o]) => Stored(o) = Get(sessions, cred[o].session_token) /\ Stored(o) # None
  <2>1. Intact(o, cred[o]) => cred[o] \in Credential
    BY <1>0 DEF Intact, CredOK
  <2>2. QED
    BY <1>0, <2>1, StoredIs
<1>5. NoRow(o) => Stored(o) = None
  BY <1>0, StoredIs
<1>6. ASSUME ~Busy(o)
      PROVE  Account(o) = IF cred[o] = None THEN None
                          ELSE AccountOf(Get(sessions, cred[o].session_token))
  <2>1. Writers = {} /\ IdleOK(o)
    BY <1>1, <1>6, <1>d DEF Busy, CarefulInv
  <2>2. QED
    BY <1>3, <1>4, <1>5, <2>1 DEF IdleOK, Absent
<1>7. ASSUME NEW r \in Requests, Caller(r) = o
      PROVE  Account(o) = Shows(r, o)
  <2>1. CallOK(r, o)
    BY <1>7 DEF CarefulInv
  <2>2. CASE pc[r] \in Writing
    BY <1>2, <1>7, <2>2 DEF Writing, Shows
  <2>3. CASE pc[r] \notin Writing
    <3>1. Writers = {}
      BY <1>0, <1>1, <1>7, <1>b, <1>d, <2>3 DEF OneCall
    <3>2. CASE pc[r] \in {"login", "upd_session", "upd_save"}
      BY <1>3, <1>4, <2>1, <3>1, <3>2 DEF CallOK, Shows
    <3>3. CASE pc[r] \in {"ref_delete", "del_saves", "del_session"}
      <4>1. Get(sessions, cred[o].session_token) = session[r]
        BY <2>1, <3>3 DEF CallOK, Filed, CredOf
      <4>2. Intact(o, cred[o])
        BY <2>1, <3>3 DEF CallOK
      <4>3. QED
        BY <1>3, <1>4, <3>1, <3>3, <4>1, <4>2 DEF Shows
    <3>4. CASE pc[r] = "reply"
      <4>1. session[r] # None /\ session[r] \in Session
        BY <1>0, <3>4 DEF LocalsReady, Holding, Labels, TypeOK
      <4>2. Stored(o) = session[r]
        BY <1>0, <2>1, <3>4, <4>1 DEF CallOK, Filed, Stored
      <4>3. QED
        BY <1>3, <3>1, <3>4, <4>1, <4>2 DEF Shows
    <3>5. CASE pc[r] \in {"del_openid", "del_objid", "del_reply"}
      BY <1>3, <1>5, <2>1, <3>1, <3>5 DEF CallOK, Shows, Absent
    <3>6. pc[r] # "idle"
      BY <1>0, <1>7, NoneAssumption DEF LocalsClean, Caller
    <3>7. QED
      BY <1>0, <2>3, <3>2, <3>3, <3>4, <3>5, <3>6 DEF TypeOK, Labels, Writing
  <2>4. QED
    BY <2>2, <2>3
<1>8. QED
  BY <1>6, <1>7

(* A row of a careful client is the row of its account.                     *)
LEMMA RowIsAccount ==
  ASSUME SessionInv, CarefulInv, NEW o \in Careful,
         NEW t \in Tokens, sessions[t] # None, sessions[t].openid = o
  PROVE  Account(o) # None /\ Account(o).session_token = t
<1>0. TypeOK /\ LocalsReady /\ LocalsClean /\ RowsMatchTheirToken /\ CredOK /\ AccountsShown
  BY AccountsAre DEF SessionInv, TypeInv, IdentityInv, CarefulInv
<1>1. sessions[t] \in Session /\ sessions[t].session_token = t
  BY <1>0 DEF TypeOK, RowsMatchTheirToken
<1>2. \A c : Intact(o, c) => c.session_token = t
  BY DEF Intact, OnlyRow
<1>3. ~NoRow(o)
  BY DEF NoRow
<1>4. AccountOf(sessions[t]) # None /\ AccountOf(sessions[t]).session_token = t
  BY <1>1, NoneIsNoRecord DEF AccountOf
<1>5. CASE ~Busy(o)
  <2>1. cred[o] # None /\ Intact(o, cred[o])
    BY <1>3, <1>5 DEF CarefulInv, IdleOK, Absent
  <2>2. QED
    BY <1>0, <1>2, <1>4, <1>5, <2>1 DEF AccountsShown
<1>6. CASE Busy(o)
  <2>1. PICK r \in Requests : Caller(r) = o
    BY <1>6 DEF Busy
  <2>2. CallOK(r, o) /\ Account(o) = Shows(r, o)
    BY <1>0, <2>1 DEF CarefulInv, AccountsShown
  <2>3. CASE pc[r] \in {"login", "upd_session", "upd_save"}
    BY <1>2, <1>4, <2>2, <2>3 DEF CallOK, Shows
  <2>4. CASE pc[r] \notin {"login", "upd_session", "upd_save"}
    <3>1. pc[r] \notin {"idle", "reg_session", "ref_session", "del_openid", "del_objid", "del_reply"}
      BY <1>0, <1>3, <2>1, <2>2, CarefulAreKnown, NoneAssumption
         DEF CallOK, Absent, LocalsClean, Caller
    <3>2. Filed(o, session[r])
      BY <1>0, <2>2, <2>4, <3>1 DEF CallOK, TypeOK, Labels
    <3>3. session[r] = sessions[t]
      BY <3>2 DEF Filed, OnlyRow
    <3>4. QED
      BY <1>4, <2>2, <2>4, <3>1, <3>3 DEF Shows
  <2>5. QED
    BY <2>3, <2>4
<1>7. QED
  BY <1>5, <1>6

-----------------------------------------------------------------------------
(* Steps.                                                                   *)

LEMMA SameTables == ASSUME UNCHANGED tables, NEW o PROVE OwnKept(o)
  BY DEF OwnKept, tables

LEMMA CallersKept ==
  ASSUME SessionInv, NEW r \in Requests, OthersKept(r)
  PROVE  \A q \in Requests \ {r} : Caller(q)' = Caller(q)
  BY DEF SessionInv, TypeInv, TypeOK, LocalsClean, OthersKept, Caller

(* A careful client starts its call on an account that is whole.            *)
LEMMA CarefulStarts ==
  ASSUME SessionInv, CarefulInv, NEW o \in Careful, NEW r \in Requests, CarefulStart(r, o)
  PROVE  /\ UNCHANGED <<tables, cred>> /\ OthersKept(r) /\ pc[r] = "idle" /\ ~Busy(o)
         /\ \/ UNCHANGED cvars
            \/ pc'[r] # "idle" /\ Caller(r)' = o /\ CallOK(r, o)'
<1> DEFINE Goal == /\ UNCHANGED <<tables, cred>> /\ OthersKept(r) /\ pc[r] = "idle" /\ ~Busy(o)
                   /\ \/ UNCHANGED cvars
                      \/ pc'[r] # "idle" /\ Caller(r)' = o /\ CallOK(r, o)'
<1>0. /\ TypeOK /\ LocalsClean /\ RowsMatchTheirToken /\ IndexesMatchTheirKey
      /\ CredOK /\ ~Busy(o) /\ IdleOK(o) /\ cred' = cred /\ o \in OpenIds
  BY CarefulAreKnown DEF SessionInv, TypeInv, IdentityInv, CarefulInv, CarefulStart
<1> USE DEF TypeOK, LocalsClean, RowsMatchTheirToken, IndexesMatchTheirKey, tables, locals, cvars, Goto,
            CallOK, IdleOK, Intact, Absent, NoRow, OnlyRow, Filed, CredOf, CredOK, Credential,
            OthersKept, Caller
<1>1. ASSUME RegisterKnown(r, o) PROVE Goal
  BY <1>0, <1>1 DEF RegisterKnown, RegisterKnownReading
<1>2. ASSUME NEW n \in Nicknames, RegisterNew(r, o, n) PROVE Goal
  BY <1>0, <1>2 DEF RegisterNew, RegisterNewReading, FreshTokens, FreshObjectIds
<1>3. ASSUME cred[o] # None, UpdateLookup(r, cred[o].object_id) PROVE Goal
  BY <1>0, <1>3 DEF UpdateLookup, UpdateLookupReading, Rejected
<1>4. ASSUME cred[o] # None, RefreshLookup(r, cred[o].session_token, cred[o].object_id) PROVE Goal
  BY <1>0, <1>4 DEF RefreshLookup, RefreshLookupReading, Authorised, Rejected
<1>5. ASSUME cred[o] # None, DeleteLookup(r, cred[o].session_token, cred[o].object_id) PROVE Goal
  BY <1>0, <1>5 DEF DeleteLookup, DeleteLookupReading, Authorised, Rejected
<1>6. QED
  BY <1>1, <1>2, <1>3, <1>4, <1>5 DEF CarefulStart

(* Whatever anybody else starts with, it is not the call of a careful       *)
(* client.                                                                  *)
LEMMA OthersStart ==
  ASSUME SessionInv, CarefulInv, NEW r \in Requests, OtherStart(r)
  PROVE  /\ UNCHANGED <<tables, cred>> /\ OthersKept(r) /\ pc[r] = "idle"
         /\ UNCHANGED cvars \/ Caller(r)' \notin Careful
<1> DEFINE Goal == /\ UNCHANGED <<tables, cred>> /\ OthersKept(r) /\ pc[r] = "idle"
                   /\ UNCHANGED cvars \/ Caller(r)' \notin Careful
<1>0. /\ TypeOK /\ LocalsClean /\ RowsMatchTheirToken /\ IndexesMatchTheirKey /\ cred' = cred
  BY DEF SessionInv, TypeInv, IdentityInv, OtherStart
<1> USE DEF TypeOK, LocalsClean, RowsMatchTheirToken, IndexesMatchTheirKey, tables, locals, cvars, Goto,
            OthersKept, Caller
<1>1. ASSUME NEW o \in OpenIds \ Careful, RegisterKnown(r, o) PROVE Goal
  BY <1>0, <1>1 DEF RegisterKnown, RegisterKnownReading
<1>2. ASSUME NEW o \in OpenIds \ Careful, NEW n \in Nicknames, RegisterNew(r, o, n) PROVE Goal
  BY <1>0, <1>2 DEF RegisterNew, RegisterNewReading, FreshTokens, FreshObjectIds
<1>3. ASSUME NEW x \in ObjectIds, ~OwnedByCareful(x), UpdateLookup(r, x) PROVE Goal
  <2>1. CASE sessions_by_objid[x] = None
    BY <1>0, <1>3, <2>1 DEF UpdateLookup, UpdateLookupReading, Rejected, vars
  <2>2. CASE sessions_by_objid[x] # None
    <3> DEFINE t == sessions_by_objid[x]
    <3>1. t \in Tokens /\ minted[t] # None /\ minted[t].object_id = x
      BY <1>0, <2>2
    <3>2. minted[t].openid \notin Careful
      BY <1>3, <3>1 DEF OwnedByCareful
    <3>3. /\ pc[r] = "idle" /\ UNCHANGED <<tables, minted, session>>
          /\ held' = [held EXCEPT ![r] = t] /\ pc' = [pc EXCEPT ![r] = "upd_session"]
      BY <1>3, <2>2 DEF UpdateLookup, UpdateLookupReading, Rejected
    <3> HIDE DEF t
    <3>4. QED
      BY <1>0, <3>1, <3>2, <3>3
  <2>3. QED
    BY <2>1, <2>2
<1>4. ASSUME NEW t \in Tokens, NEW x \in ObjectIds,
             \A o \in Careful : Account(o) # None => Account(o).session_token # t,
             RefreshLookup(r, t, x) \/ DeleteLookup(r, t, x)
      PROVE  Goal
  <2>1. sessions[t] # None => sessions[t].openid \notin Careful
    BY <1>4, RowIsAccount
  <2>2. CASE ~Authorised(sessions[t], x)
    BY <1>0, <1>4, <2>2 DEF RefreshLookup, RefreshLookupReading, DeleteLookup, DeleteLookupReading,
                            Rejected, vars
  <2>3. CASE Authorised(sessions[t], x)
    <3>1. sessions[t] # None
      BY <2>3 DEF Authorised
    <3>2. /\ pc[r] = "idle" /\ UNCHANGED <<tables, minted, held>>
          /\ session' = [session EXCEPT ![r] = sessions[t]]
          /\ \A q \in Requests \ {r} : pc'[q] = pc[q]
      BY <1>0, <1>4, <2>3 DEF RefreshLookup, RefreshLookupReading, DeleteLookup, DeleteLookupReading
    <3>3. QED
      BY <1>0, <2>1, <3>1, <3>2
  <2>4. QED
    BY <2>2, <2>3
<1>5. QED
  BY <1>1, <1>2, <1>3, <1>4 DEF OtherStart

(* A step of r keeps the accounts of all careful clients in order when it   *)
(* keeps that of its caller in order and leaves the others alone.           *)
LEMMA OthersInOrder ==
  ASSUME SessionInv, CarefulInv, NEW r \in Requests, OthersKept(r), CredOK',
         \A o \in Careful : o # Caller(r) => OwnKept(o) /\ cred'[o] = cred[o],
         \A o \in Careful : Caller(r)' = o => CallOK(r, o)' /\ (Caller(r) = o \/ ~Busy(o)),
         \A o \in Careful : Caller(r) = o /\ Caller(r)' # o => IdleOK(o)'
  PROVE  CarefulInv'
<1>1. \A q \in Requests \ {r} :
        Caller(q)' = Caller(q) /\ pc'[q] = pc[q] /\ held'[q] = held[q] /\ session'[q] = session[q]
  BY CallersKept DEF OthersKept
<1>2. CredOK /\ OneCall
  BY DEF CarefulInv
<1>3. OneCall'
  BY <1>1, <1>2 DEF OneCall, Busy
<1>4. ASSUME NEW o \in Careful, ~Busy(o)' PROVE IdleOK(o)'
  <2>1. CASE Caller(r) = o
    BY <1>4, <2>1 DEF Busy
  <2>2. CASE Caller(r) # o
    <3>1. ~Busy(o)
      BY <1>1, <1>4, <2>2 DEF Busy
    <3>2. IdleOK(o)
      BY <3>1 DEF CarefulInv
    <3>3. QED
      BY <1>2, <2>2, <3>2, KeptIdle
  <2>3. QED
    BY <2>1, <2>2
<1>5. ASSUME NEW q \in Requests, NEW o \in Careful, Caller(q)' = o PROVE CallOK(q, o)'
  <2>1. CASE q = r
    BY <1>5, <2>1
  <2>2. CASE q # r
    <3>1. Caller(q) = o /\ Caller(r) # o
      BY <1>1, <1>2, <1>5, <2>2 DEF OneCall
    <3>2. CallOK(q, o)
      BY <3>1 DEF CarefulInv
    <3>3. QED
      BY <1>1, <1>2, <2>2, <3>1, <3>2, KeptCall
  <2>3. QED
    BY <2>1, <2>2
<1>6. QED
  BY <1>3, <1>4, <1>5 DEF CarefulInv

LEMMA NobodyIsCareful == None \notin Careful
  BY CarefulAreKnown

LEMMA CarefulStepOK ==
  ASSUME SessionInv, CarefulInv, NEW r \in Requests, CRequest(r)
  PROVE  CarefulInv'
<1>0. CredOK /\ OneCall /\ LocalsClean
  BY DEF CarefulInv, SessionInv
<1>i. pc[r] = "idle" => Caller(r) = None
  BY <1>0 DEF LocalsClean, Caller
<1>1. ASSUME UNCHANGED cvars PROVE CarefulInv'
  BY <1>1 DEF CarefulInv, CredOK, OneCall, Busy, Caller, IdleOK, CallOK, Absent, Intact, Filed,
              NoRow, OnlyRow, cvars, vars, tables, locals
<1>2. ASSUME NEW o \in Careful, CarefulStart(r, o) PROVE CarefulInv'
  <2>1. /\ UNCHANGED <<tables, cred>> /\ OthersKept(r) /\ pc[r] = "idle" /\ ~Busy(o)
        /\ \/ UNCHANGED cvars
           \/ pc'[r] # "idle" /\ Caller(r)' = o /\ CallOK(r, o)'
    BY <1>2, CarefulStarts
  <2>2. CredOK'
    BY <1>0, <2>1 DEF CredOK
  <2>3. \A p \in Careful : OwnKept(p) /\ cred'[p] = cred[p]
    BY <2>1, SameTables
  <2>4. QED
    BY <1>1, <1>i, <2>1, <2>2, <2>3, OthersInOrder, NobodyIsCareful
<1>3. ASSUME OtherStart(r) PROVE CarefulInv'
  <2>1. /\ UNCHANGED <<tables, cred>> /\ OthersKept(r) /\ pc[r] = "idle"
        /\ UNCHANGED cvars \/ Caller(r)' \notin Careful
    BY <1>3, OthersStart
  <2>2. CredOK'
    BY <1>0, <2>1 DEF CredOK
  <2>3. \A p \in Careful : OwnKept(p) /\ cred'[p] = cred[p]
    BY <2>1, SameTables
  <2>4. QED
    BY <1>1, <1>i, <2>1, <2>2, <2>3, OthersInOrder, NobodyIsCareful
<1>4. ASSUME NEW o \in Careful, CarefulStep(r, o) PROVE CarefulInv'
  <2>1. Caller(r) = o /\ Step(r) /\ CallOK(r, o)
    BY <1>4 DEF CarefulStep, CarefulInv
  <2>2. /\ Caller(r)' = IF pc'[r] = "idle" THEN None ELSE o
        /\ OthersKept(r)
    BY <2>1, CallerStep
  <2>3. /\ pc'[r] # "idle" => CallOK(r, o)'
        /\ pc'[r] = "idle" => IdleOK(o)'
        /\ CredOK'
    BY <1>0, <1>4, <2>1, OwnCallStep
  <2>4. ASSUME NEW p \in Careful, p # o PROVE OwnKept(p) /\ cred'[p] = cred[p]
    <3>1. OwnKept(p)
      BY <2>1, <2>4, OwnStep, CarefulAreKnown
    <3>2. cred'[p] = cred[p]
      BY <1>0, <1>4, <2>4 DEF CarefulStep, CredOK
    <3>3. QED
      BY <3>1, <3>2
  <2>5. QED
    BY <2>1, <2>2, <2>3, <2>4, OthersInOrder, NobodyIsCareful
<1>5. ASSUME OtherStep(r) PROVE CarefulInv'
  <2>1. Caller(r) \notin Careful /\ (Step(r) \/ Abort(r)) /\ cred' = cred
    BY <1>5 DEF OtherStep
  <2>2. /\ Caller(r)' = IF pc'[r] = "idle" THEN None ELSE Caller(r)
        /\ OthersKept(r)
    BY <2>1, CallerStep
  <2>3. \A p \in Careful : OwnKept(p)
    BY <2>1, OwnStep, CarefulAreKnown
  <2>4. CredOK'
    BY <1>0, <2>1 DEF CredOK
  <2>5. QED
    BY <2>1, <2>2, <2>3, <2>4, OthersInOrder, NobodyIsCareful
<1>6. QED
  BY <1>2, <1>3, <1>4, <1>5 DEF CRequest

(* Clients use the API and nothing else.                                    *)
LEMMA ClientsCall ==
  ASSUME SessionInv, CarefulInv, NEW r \in Requests, CRequest(r)
  PROVE  [Next]_vars
<1>1. \A o \in Careful : cred[o] # None =>
        cred[o].object_id \in ObjectIds /\ cred[o].session_token \in Tokens
  BY DEF CarefulInv, CredOK, Credential
<1>2. QED
  BY <1>1, CarefulAreKnown
     DEF CRequest, CarefulStart, CarefulStep, OtherStart, OtherStep, Next, Start

ClientInv == SessionInv /\ CarefulInv

LEMMA ClientInit == CInit => ClientInv
<1> SUFFICES ASSUME CInit PROVE ClientInv
  OBVIOUS
<1>1. SessionInv
  BY TypeInit, IdentityInit, CleanInit DEF CInit, SessionInv
<1>2. CarefulInv
  BY CarefulAreKnown, NobodyIsCareful
     DEF CInit, Init, CarefulInv, CredOK, OneCall, Caller, IdleOK, Absent, NoRow
<1>3. QED
  BY <1>1, <1>2 DEF ClientInv

LEMMA ClientStep == ClientInv /\ [CNext]_cvars => ClientInv'
<1> SUFFICES ASSUME ClientInv, [CNext]_cvars PROVE ClientInv'
  OBVIOUS
<1>1. ASSUME NEW r \in Requests, CRequest(r) PROVE ClientInv'
  BY <1>1, ClientsCall, SessionStep, CarefulStepOK DEF ClientInv
<1>2. CASE UNCHANGED cvars
  <2>1. SessionInv'
    BY <1>2, SessionStep DEF ClientInv, cvars
  <2>2. CarefulInv'
    BY <1>2
     DEF ClientInv, CarefulInv, CredOK, OneCall, Busy, Caller, IdleOK, CallOK, Absent, Intact,
                Filed, NoRow, OnlyRow, cvars, vars, tables, locals
  <2>3. QED
    BY <2>1, <2>2 DEF ClientInv
<1>3. QED
  BY <1>1, <1>2 DEF CNext

(* Between its calls a careful client's token works for everything, beside  *)
(* any number of clients that race and abandon their requests.              *)
THEOREM CredentialsCorrect == CSpec => []CredentialsWork
<1>1. ClientInv => CredentialsWork
  BY DEF ClientInv, CarefulInv, IdleOK, Intact, CredentialsWork, Authorised
<1>2. QED
  BY ClientInit, ClientStep, <1>1, PTL DEF CSpec

(* No login or rename of a careful client is refused half-way.              *)
THEOREM NeverRefused == CSpec => CarefulNeverRefused
<1> DEFINE Unrefused == \A r \in Requests :
             (pc[r] \in {"login", "upd_session"} /\ Caller(r) \in Careful) => pc'[r] # "idle"
<1>1. ASSUME ClientInv, NEW q \in Requests, CRequest(q) PROVE Unrefused
  <2> SUFFICES ASSUME NEW r \in Requests, pc[r] \in {"login", "upd_session"}, Caller(r) \in Careful
               PROVE  pc'[r] # "idle"
    OBVIOUS
  <2>0. SessionInv /\ CarefulInv /\ TypeOK
    BY <1>1 DEF ClientInv, SessionInv, TypeInv
  <2>1. CASE q # r
    <3>1. OthersKept(q)
      BY <1>1, <2>0, CarefulStarts, OthersStart, CallerStep
         DEF CRequest, CarefulStep, OtherStep
    <3>2. QED
      BY <2>1, <3>1 DEF OthersKept
  <2>2. CASE q = r
    <3>1. Step(r) /\ CallOK(r, Caller(r))
      BY <1>1, <2>0, <2>2, CarefulStarts, OthersStart
         DEF CRequest, CarefulStep, OtherStep, CarefulInv
    <3>2. sessions[held[r]] # None
      BY <3>1 DEF CallOK, Intact
    <3>3. Login(r) \/ UpdateReadSession(r)
      BY <3>1 DEF Step, RegisterPutSession, RegisterPutOpenId, RegisterPutObjId, UpdateSave,
                  RefreshDelete, RefreshPutSession, RefreshPutObjId, RefreshPutOpenId, DeleteSaves,
                  DeleteSession, DeleteOpenId, DeleteObjId, Respond
    <3>4. QED
      BY <2>0, <3>2, <3>3
       DEF Login, LoginReading, UpdateReadSession, UpdateReadSessionReading, Goto,
                              TypeOK
  <2>3. QED
    BY <2>1, <2>2
<1>2. ClientInv /\ [CNext]_cvars => [Unrefused]_cvars
  BY <1>1 DEF CNext
<1>3. QED
  BY ClientInit, ClientStep, <1>2, PTL DEF CSpec, CarefulNeverRefused

-----------------------------------------------------------------------------
(* AccountClients implements Accounts.                                      *)

Accs == [o \in Careful |-> Account(o)]

AtomicStep == Atomic!Next \/ UNCHANGED Atomic!vars

(* Only o's account may change.                                             *)
OthersAccounts(o) == \A p \in Careful \ {o} : Account(p)' = Account(p)

SameAccounts == \A p \in Careful : Account(p)' = Account(p)

SameDrawn == DrawnTokens' = DrawnTokens /\ DrawnObjectIds' = DrawnObjectIds

LEMMA SaysNothing ==
  ASSUME SameAccounts, SameDrawn, cred' = cred
  PROVE  AtomicStep
  BY DEF AtomicStep, Atomic!vars, SameAccounts, SameDrawn

LEMMA SaysRegister ==
  ASSUME NEW o \in Careful, Account(o) = None, OthersAccounts(o), cred' = cred,
         NEW t \in Tokens \ DrawnTokens, NEW x \in ObjectIds \ DrawnObjectIds, NEW n \in Nicknames,
         Account(o)' = [object_id |-> x, nickname |-> n, session_token |-> t],
         DrawnTokens' = DrawnTokens \cup {t}, DrawnObjectIds' = DrawnObjectIds \cup {x}
  PROVE  AtomicStep
<1>1. Accs' = [Accs EXCEPT ![o] = [object_id |-> x, nickname |-> n, session_token |-> t]]
  BY DEF Accs, OthersAccounts
<1>2. QED
  BY <1>1 DEF AtomicStep, Atomic!Next, Atomic!Register, Accs

LEMMA SaysRename ==
  ASSUME NEW o \in Careful, Account(o) # None, OthersAccounts(o), SameDrawn, cred' = cred,
         NEW n \in Nicknames, Account(o)' = [Account(o) EXCEPT !.nickname = n]
  PROVE  AtomicStep
<1>1. Accs' = [Accs EXCEPT ![o].nickname = n]
  BY DEF Accs, OthersAccounts
<1>2. QED
  BY <1>1 DEF AtomicStep, Atomic!Next, Atomic!Rename, Accs, SameDrawn

LEMMA SaysRefresh ==
  ASSUME NEW o \in Careful, Account(o) # None, OthersAccounts(o), cred' = cred,
         NEW t \in Tokens \ DrawnTokens, Account(o)' = [Account(o) EXCEPT !.session_token = t],
         DrawnTokens' = DrawnTokens \cup {t}, DrawnObjectIds' = DrawnObjectIds
  PROVE  AtomicStep
<1>1. Accs' = [Accs EXCEPT ![o].session_token = t]
  BY DEF Accs, OthersAccounts
<1>2. QED
  BY <1>1 DEF AtomicStep, Atomic!Next, Atomic!Refresh, Accs

LEMMA SaysClose ==
  ASSUME NEW o \in Careful, Account(o) # None, OthersAccounts(o), SameDrawn, cred' = cred,
         Account(o)' = None
  PROVE  AtomicStep
<1> DEFINE After(p) == IF p = o THEN None ELSE Account(p)
<1>0. \A p \in Careful : Account(p)' = After(p)
  BY DEF OthersAccounts
<1>1. Accs' = [Accs EXCEPT ![o] = None]
  BY <1>0 DEF Accs
<1>2. QED
  BY <1>1 DEF AtomicStep, Atomic!Next, Atomic!Close, Accs, SameDrawn

LEMMA SaysAnswer ==
  ASSUME NEW o \in Careful, SameAccounts, SameDrawn,
         cred' = [cred EXCEPT ![o] = IF Account(o) = None THEN None ELSE CredOf(Account(o))]
  PROVE  AtomicStep
  BY DEF AtomicStep, Atomic!Next, Atomic!Answer, SameAccounts, SameDrawn, CredOf

LEMMA SaysOthers ==
  ASSUME SameAccounts, cred' = cred,
         NEW t \in Tokens \ DrawnTokens, DrawnTokens' = DrawnTokens \cup {t},
         \/ DrawnObjectIds' = DrawnObjectIds
         \/ \E x \in ObjectIds \ DrawnObjectIds : DrawnObjectIds' = DrawnObjectIds \cup {x}
  PROVE  AtomicStep
  BY DEF AtomicStep, Atomic!Next, Atomic!Others, SameAccounts

(* Which ids are drawn.                                                     *)
LEMMA DrawnSame == minted' = minted => SameDrawn
  BY DEF SameDrawn, DrawnTokens, DrawnObjectIds

LEMMA DrawnMore ==
  ASSUME TypeOK, NEW t \in FreshTokens, NEW i \in Identity, minted' = [minted EXCEPT ![t] = i]
  PROVE  /\ t \in Tokens \ DrawnTokens
         /\ DrawnTokens' = DrawnTokens \cup {t}
         /\ DrawnObjectIds' = DrawnObjectIds \cup {i.object_id}
<1>1. t \in Tokens /\ minted[t] = None /\ i # None /\ DOMAIN minted = Tokens
  BY DEF FreshTokens, TypeOK
<1>2. \A u \in Tokens : minted'[u] = IF u = t THEN i ELSE minted[u]
  BY <1>1, Zenon
<1>3. DrawnTokens' = DrawnTokens \cup {t}
  BY <1>1, <1>2 DEF DrawnTokens
<1>4. DrawnObjectIds' = DrawnObjectIds \cup {i.object_id}
  <2>1. t \notin DrawnTokens
    BY <1>1 DEF DrawnTokens
  <2>2. \A u \in DrawnTokens : u \in Tokens /\ minted'[u] = minted[u]
    BY <1>2, <2>1 DEF DrawnTokens
  <2>3. minted'[t] = i
    BY <1>1, <1>2
  <2>4. DrawnObjectIds' = {minted'[u].object_id : u \in DrawnTokens \cup {t}}
    BY <1>3 DEF DrawnObjectIds
  <2>5. QED
    BY <2>2, <2>3, <2>4 DEF DrawnObjectIds
<1>5. QED
  BY <1>1, <1>3, <1>4 DEF DrawnTokens

LEMMA FreshAreNotDrawn ==
  ASSUME NEW x \in FreshObjectIds PROVE x \in ObjectIds \ DrawnObjectIds
  BY DEF FreshObjectIds, DrawnObjectIds, DrawnTokens

LEMMA ClientAccounts == ClientInv => AccountsShown
  BY AccountsAre DEF ClientInv

(* An account nobody calls for, or whose call does not move, stays.         *)
LEMMA AccountsKept ==
  ASSUME ClientInv, ClientInv', NEW r \in Requests, OthersKept(r), NEW p \in Careful,
         OwnKept(p), cred'[p] = cred[p], Caller(r) # p, Caller(r)' # p
  PROVE  Account(p)' = Account(p)
<1>1. AccountsShown /\ SessionInv /\ CarefulInv /\ CredOK /\ TypeOK
  BY AccountsAre DEF ClientInv, CarefulInv, SessionInv, TypeInv
<1>3. AccountsShown'
  BY ClientAccounts, PTL
<1>4. \A q \in Requests \ {r} :
        Caller(q)' = Caller(q) /\ pc'[q] = pc[q] /\ held'[q] = held[q] /\ session'[q] = session[q]
  BY <1>1, CallersKept DEF OthersKept
<1>5. Intact(p, cred[p]) => sessions'[cred[p].session_token] = sessions[cred[p].session_token]
  <2>1. Intact(p, cred[p]) => cred[p].session_token \in Tokens
    BY <1>1 DEF Intact, CredOK, Credential
  <2>2. QED
    BY <2>1 DEF Intact, OwnKept
<1>6. CASE Busy(p)
  <2>1. PICK q \in Requests : Caller(q) = p
    BY <1>6 DEF Busy
  <2>2. q # r /\ Caller(q)' = p
    BY <1>4, <2>1
  <2>3. Account(p) = Shows(q, p) /\ Account(p)' = Shows(q, p)'
    BY <1>1, <1>3, <2>1, <2>2 DEF AccountsShown
  <2>4. CallOK(q, p)
    BY <1>1, <2>1 DEF CarefulInv
  <2>5. pc[q] \in {"login", "upd_session", "upd_save"} =>
          sessions'[cred[p].session_token] = sessions[cred[p].session_token]
    BY <1>5, <2>4 DEF CallOK
  <2>6. pc'[q] = pc[q] /\ session'[q] = session[q]
    BY <1>4, <2>2
  <2>7. Shows(q, p)' = Shows(q, p)
    BY <2>5, <2>6 DEF Shows, AccountOf
  <2>8. QED
    BY <2>3, <2>7
<1>7. CASE ~Busy(p)
  <2>1. ~Busy(p)'
    BY <1>4, <1>7 DEF Busy
  <2>2. /\ Account(p) = IF cred[p] = None THEN None ELSE AccountOf(sessions[cred[p].session_token])
        /\ Account(p)' = IF cred'[p] = None THEN None
                         ELSE AccountOf(sessions'[cred'[p].session_token])
    BY <1>1, <1>3, <1>7, <2>1 DEF AccountsShown, AccountOf
  <2>3. IdleOK(p)
    BY <1>1, <1>7 DEF CarefulInv
  <2>4. QED
    BY <1>5, <2>2, <2>3 DEF IdleOK, AccountOf
<1>8. QED
  BY <1>6, <1>7

(* What a careful client's own step makes of its account.                   *)
LEMMA OwnAccount ==
  ASSUME ClientInv, ClientInv', NEW r \in Requests, NEW o \in Careful, CarefulStep(r, o)
  PROVE  /\ Account(o) = Shows(r, o)
         /\ pc'[r] # "idle" => Account(o)' = Shows(r, o)'
         /\ pc'[r] = "idle" => Account(o)' = IF cred'[o] = None THEN None
                                            ELSE AccountOf(sessions'[cred'[o].session_token])
         /\ OthersAccounts(o)
<1>0. /\ SessionInv /\ CarefulInv /\ OneCall /\ CredOK /\ AccountsShown
      /\ o \in OpenIds /\ None \notin Careful
  BY AccountsAre, CarefulAreKnown, NobodyIsCareful DEF ClientInv, CarefulInv
<1>1. AccountsShown'
  BY ClientAccounts, PTL
<1>2. Caller(r) = o /\ Step(r)
  BY DEF CarefulStep
<1>3. Caller(r)' = (IF pc'[r] = "idle" THEN None ELSE o) /\ OthersKept(r)
  BY <1>0, <1>2, CallerStep
<1>4. \A q \in Requests \ {r} : Caller(q)' = Caller(q)
  BY <1>0, <1>3, CallersKept
<1>5. Account(o) = Shows(r, o)
  BY <1>0, <1>2 DEF AccountsShown
<1>6. pc'[r] # "idle" => Account(o)' = Shows(r, o)'
  BY <1>1, <1>3 DEF AccountsShown
<1>7. ASSUME pc'[r] = "idle"
      PROVE  Account(o)' = IF cred'[o] = None THEN None ELSE AccountOf(sessions'[cred'[o].session_token])
  <2>1. \A q \in Requests : Caller(q)' # o
    BY <1>0, <1>2, <1>3, <1>4, <1>7 DEF OneCall
  <2>2. ~Busy(o)'
    BY <2>1 DEF Busy
  <2>3. QED
    BY <1>1, <2>2 DEF AccountsShown, AccountOf
<1>8. ASSUME NEW p \in Careful \ {o} PROVE Account(p)' = Account(p)
  <2>1. OwnKept(p)
    BY <1>0, <1>2, OwnStep, CarefulAreKnown
  <2>2. cred'[p] = cred[p]
    BY <1>0 DEF CarefulStep, CredOK
  <2>3. Caller(r) # p /\ Caller(r)' # p
    BY <1>0, <1>2, <1>3
  <2>4. QED
    BY <1>3, <2>1, <2>2, <2>3, AccountsKept
<1>9. QED
  BY <1>5, <1>6, <1>7, <1>8 DEF OthersAccounts

LEMMA CarefulStepSays ==
  ASSUME ClientInv, ClientInv', NEW r \in Requests, NEW o \in Careful, CarefulStep(r, o)
  PROVE  AtomicStep
<1>0. /\ SessionInv /\ CarefulInv /\ CredOK /\ TypeOK /\ LocalsReady /\ RowsMatchTheirToken
      /\ HandlersMatchTheirUser /\ CallOK(r, o)
  BY DEF ClientInv, CarefulInv, SessionInv, TypeInv, IdentityInv, CarefulStep
<1>1. /\ Account(o) = Shows(r, o)
      /\ pc'[r] # "idle" => Account(o)' = Shows(r, o)'
      /\ pc'[r] = "idle" => Account(o)' = IF cred'[o] = None THEN None
                                         ELSE AccountOf(sessions'[cred'[o].session_token])
      /\ OthersAccounts(o)
  BY OwnAccount
<1>2. pc[r] \notin {"reply", "del_reply"} => cred' = cred
  BY DEF CarefulStep
<1>3. Account(o)' = Account(o) => SameAccounts
  BY <1>1 DEF SameAccounts, OthersAccounts
<1>4. pc[r] \notin {"idle", "login", "upd_session"} => session[r] # None /\ session[r] \in Session
  BY <1>0 DEF TypeOK, LocalsReady, Holding
<1>5. cred[o] # None => cred[o].session_token \in Tokens
  BY <1>0 DEF CredOK, Credential
<1> USE DEF TypeOK, tables, locals, Goto, MoveOn, Finish
<1>6. ASSUME Login(r) PROVE AtomicStep
  <2>1. held[r] = cred[o].session_token /\ sessions[held[r]] # None
    BY <1>0, <1>6 DEF Login, CallOK, Intact
  <2>2. pc[r] = "login" /\ pc'[r] = "reply" /\ session'[r] = sessions[held[r]] /\ minted' = minted
    BY <1>0, <1>6, <2>1 DEF Login, LoginReading
  <2>3. Account(o)' = Account(o)
    BY <1>1, <2>1, <2>2 DEF Shows
  <2>4. QED
    BY <1>2, <1>3, <2>2, <2>3, DrawnSame, SaysNothing
<1>7. ASSUME \/ RegisterPutSession(r) \/ RegisterPutOpenId(r) \/ RegisterPutObjId(r)
             \/ RefreshPutSession(r) \/ RefreshPutObjId(r) \/ RefreshPutOpenId(r)
      PROVE  AtomicStep
  <2>1. /\ pc[r] \in {"reg_session", "reg_openid", "reg_objid", "ref_session", "ref_objid", "ref_openid"}
        /\ pc'[r] \in {"reg_openid", "reg_objid", "ref_objid", "ref_openid", "reply"}
        /\ session'[r] = session[r] /\ minted' = minted
    BY <1>0, <1>7
       DEF RegisterPutSession, RegisterPutOpenId, RegisterPutObjId,
           RefreshPutSession, RefreshPutObjId, RefreshPutOpenId
  <2>2. Account(o)' = Account(o)
    BY <1>1, <2>1 DEF Shows, AccountOf
  <2>3. QED
    BY <1>2, <1>3, <2>1, <2>2, DrawnSame, SaysNothing
<1>8. ASSUME UpdateReadSession(r) PROVE AtomicStep
  <2>1. held[r] = cred[o].session_token /\ sessions[held[r]] # None
    BY <1>0, <1>8 DEF UpdateReadSession, CallOK, Intact
  <2>2. /\ pc[r] = "upd_session" /\ pc'[r] = "upd_save"
        /\ sessions' = sessions /\ minted' = minted /\ cred' = cred
    BY <1>0, <1>2, <1>8, <2>1 DEF UpdateReadSession, UpdateReadSessionReading
  <2>3. Account(o)' = Account(o)
    BY <1>1, <2>1, <2>2 DEF Shows
  <2>4. QED
    BY <1>3, <2>2, <2>3, DrawnSame, SaysNothing
<1>9. ASSUME UpdateSave(r) PROVE AtomicStep
  <2>1. /\ pc[r] = "upd_save" /\ pc'[r] = "reply" /\ minted' = minted /\ cred' = cred
        /\ session'[r] = session[r]
    BY <1>0, <1>2, <1>9 DEF UpdateSave
  <2>2. /\ session[r] \in Session /\ cred[o] # None
        /\ session[r].session_token = cred[o].session_token
        /\ session[r].object_id = cred[o].object_id
        /\ sessions[cred[o].session_token] # None
        /\ sessions[cred[o].session_token].object_id = cred[o].object_id
    BY <1>0, <1>4, <2>1 DEF CallOK, Intact, CredOf
  <2>3. /\ sessions[cred[o].session_token].session_token = cred[o].session_token
        /\ sessions[cred[o].session_token] \in Session
    BY <1>0, <1>5, <2>2 DEF RowsMatchTheirToken
  <2>4. /\ Account(o) = AccountOf(sessions[cred[o].session_token])
        /\ Account(o)' = AccountOf(session[r])
    BY <1>1, <2>1 DEF Shows, AccountOf
  <2>5. Account(o)' = [Account(o) EXCEPT !.nickname = session[r].nickname]
    BY <2>2, <2>3, <2>4 DEF AccountOf
  <2>6. Account(o) # None /\ session[r].nickname \in Nicknames
    BY <2>2, <2>3, <2>4, NoneIsNoRecord
  <2>7. QED
    BY <1>1, <2>1, <2>5, <2>6, DrawnSame, SaysRename
<1>10. ASSUME RefreshDelete(r) PROVE AtomicStep
  <2>1. PICK t \in FreshTokens : /\ session' = [session EXCEPT ![r].session_token = t]
                               /\ minted' = [minted EXCEPT ![t] = IdentityOf(session[r])]
    BY <1>10 DEF RefreshDelete
  <2>2. pc[r] = "ref_delete" /\ pc'[r] = "ref_session" /\ cred' = cred
    BY <1>0, <1>2, <1>10 DEF RefreshDelete
  <2>3. session[r] \in Session /\ session[r] # None
    BY <1>4, <2>2
  <2>4. session'[r] = [session[r] EXCEPT !.session_token = t]
    BY <1>0, <2>1, <2>3
  <2>5. Account(o) = AccountOf(session[r]) /\ Account(o)' = AccountOf(session[r])'
    BY <1>1, <2>2 DEF Shows, AccountOf
  <2>6. Account(o)' = [Account(o) EXCEPT !.session_token = t]
    BY <2>3, <2>4, <2>5 DEF AccountOf
  <2>7. IdentityOf(session[r]) \in Identity
    BY <2>3
  <2>8. /\ t \in Tokens \ DrawnTokens
        /\ DrawnTokens' = DrawnTokens \cup {t}
        /\ DrawnObjectIds' = DrawnObjectIds \cup {session[r].object_id}
    <3> DEFINE i == IdentityOf(session[r])
    <3>1. i \in Identity /\ minted' = [minted EXCEPT ![t] = i] /\ i.object_id = session[r].object_id
      BY <2>1, <2>7
    <3> HIDE DEF i
    <3>2. TypeOK /\ t \in FreshTokens
      BY <1>0
    <3>3. /\ t \in Tokens \ DrawnTokens
          /\ DrawnTokens' = DrawnTokens \cup {t}
          /\ DrawnObjectIds' = DrawnObjectIds \cup {i.object_id}
      BY <3>1, <3>2, DrawnMore
    <3>4. QED
      BY <3>1, <3>3
  <2>9. session[r].object_id \in DrawnObjectIds
    <3>1. session[r].session_token \in Tokens /\ minted[session[r].session_token] = IdentityOf(session[r])
      BY <1>0, <2>3 DEF HandlersMatchTheirUser
    <3>2. session[r].session_token \in DrawnTokens
      BY <2>7, <3>1 DEF DrawnTokens
    <3>3. minted[session[r].session_token].object_id = session[r].object_id
      BY <3>1
    <3>4. QED
      BY <3>2, <3>3 DEF DrawnObjectIds
  <2>10. Account(o) # None
    BY <2>3, <2>5, NoneIsNoRecord
  <2>11. DrawnObjectIds' = DrawnObjectIds
    BY <2>8, <2>9
  <2>12. QED
    BY <1>1, <2>2, <2>6, <2>8, <2>10, <2>11, SaysRefresh
<1>11. ASSUME DeleteSaves(r) PROVE AtomicStep
  <2>1. /\ pc[r] = "del_saves" /\ UNCHANGED <<sessions, minted>> /\ cred' = cred
        /\ \/ pc'[r] = "del_session" /\ session'[r] = session[r]
           \/ pc'[r] = "idle"
    BY <1>0, <1>2, <1>11 DEF DeleteSaves
  <2>2. cred[o] # None /\ sessions[cred[o].session_token] = session[r]
    BY <1>0, <2>1 DEF CallOK, Intact, Filed, CredOf
  <2>3. Account(o)' = Account(o)
    BY <1>1, <2>1, <2>2 DEF Shows, AccountOf
  <2>4. QED
    BY <1>3, <2>1, <2>3, DrawnSame, SaysNothing
<1>12. ASSUME DeleteSession(r) PROVE AtomicStep
  <2>1. pc[r] = "del_session" /\ pc'[r] = "del_openid" /\ minted' = minted /\ cred' = cred
    BY <1>0, <1>2, <1>12 DEF DeleteSession
  <2>2. Account(o) = AccountOf(session[r]) /\ Account(o)' = None
    BY <1>1, <2>1 DEF Shows
  <2>3. Account(o) # None
    BY <1>4, <2>1, <2>2, NoneIsNoRecord
  <2>4. QED
    BY <1>1, <2>1, <2>2, <2>3, DrawnSame, SaysClose
<1>13. ASSUME DeleteOpenId(r) \/ DeleteObjId(r) PROVE AtomicStep
  <2>1. /\ pc[r] \in {"del_openid", "del_objid"} /\ pc'[r] \in {"del_objid", "del_reply"}
        /\ minted' = minted /\ cred' = cred
    BY <1>0, <1>2, <1>13 DEF DeleteOpenId, DeleteObjId
  <2>2. Account(o)' = Account(o)
    BY <1>1, <2>1 DEF Shows
  <2>3. QED
    BY <1>3, <2>1, <2>2, DrawnSame, SaysNothing
<1>14. ASSUME Respond(r) PROVE AtomicStep
  <2>1. pc'[r] = "idle" /\ UNCHANGED <<sessions, minted>>
    BY <1>0, <1>14 DEF Respond
  <2>2. CASE pc[r] = "reply"
    <3>1. cred' = [cred EXCEPT ![o] = CredOf(session[r])] /\ session[r] \in Session
      BY <1>4, <2>2 DEF CarefulStep
    <3>2. cred'[o] = CredOf(session[r]) /\ CredOf(session[r]) # None
      BY <1>0, <3>1, NoneIsNoRecord DEF CredOK
    <3>3. sessions[session[r].session_token] = session[r]
      BY <1>0, <2>2 DEF CallOK, Filed
    <3>4. Account(o) = AccountOf(session[r]) /\ Account(o)' = AccountOf(session[r])
      BY <1>1, <2>1, <2>2, <3>2, <3>3 DEF Shows, CredOf
    <3>5. Account(o) # None /\ CredOf(Account(o)) = CredOf(session[r])
      BY <3>1, <3>4, NoneIsNoRecord DEF CredOf, AccountOf
    <3>6. QED
      BY <1>3, <2>1, <3>1, <3>4, <3>5, DrawnSame, SaysAnswer
  <2>3. CASE pc[r] = "del_reply"
    <3>1. cred' = [cred EXCEPT ![o] = None]
      BY <2>3 DEF CarefulStep
    <3>2. cred'[o] = None
      BY <1>0, <3>1 DEF CredOK
    <3>3. Account(o) = None /\ Account(o)' = None
      BY <1>1, <2>1, <2>3, <3>2 DEF Shows
    <3>4. QED
      BY <1>3, <2>1, <3>1, <3>3, DrawnSame, SaysAnswer
  <2>4. QED
    BY <1>14, <2>2, <2>3 DEF Respond
<1>15. QED
  BY <1>6, <1>7, <1>8, <1>9, <1>10, <1>11, <1>12, <1>13, <1>14 DEF CarefulStep, Step

LEMMA CarefulStartSays ==
  ASSUME ClientInv, ClientInv', NEW r \in Requests, NEW o \in Careful, CarefulStart(r, o)
  PROVE  AtomicStep
<1>0. /\ SessionInv /\ CarefulInv /\ CredOK /\ TypeOK /\ LocalsClean /\ AccountsShown
      /\ o \in OpenIds /\ None \notin Careful
  BY AccountsAre, CarefulAreKnown, NobodyIsCareful
     DEF ClientInv, CarefulInv, SessionInv, TypeInv, IdentityInv
<1>1. AccountsShown'
  BY ClientAccounts, PTL
<1>2. /\ UNCHANGED tables /\ cred' = cred /\ OthersKept(r) /\ pc[r] = "idle" /\ ~Busy(o)
      /\ UNCHANGED cvars \/ (pc'[r] # "idle" /\ Caller(r)' = o)
  BY <1>0, CarefulStarts
<1>3. Caller(r) = None /\ IdleOK(o)
  BY <1>0, <1>2 DEF LocalsClean, Caller, CarefulInv
<1>4. Account(o) = IF cred[o] = None THEN None ELSE AccountOf(sessions[cred[o].session_token])
  BY <1>0, <1>2 DEF AccountsShown, AccountOf
<1>5. cred[o] # None =>
        cred[o] \in Credential /\ Intact(o, cred[o])
  BY <1>0, <1>3 DEF CredOK, IdleOK
<1>6. CASE UNCHANGED cvars
  BY <1>6 DEF AtomicStep, Atomic!vars, cvars, vars, tables, locals, Account, Stored, DrawnTokens,
              DrawnObjectIds
<1>7. CASE pc'[r] # "idle" /\ Caller(r)' = o
  <2>1. Account(o)' = Shows(r, o)'
    BY <1>1, <1>7 DEF AccountsShown
  <2>2. OthersAccounts(o)
    <3> SUFFICES ASSUME NEW p \in Careful \ {o} PROVE Account(p)' = Account(p)
      BY DEF OthersAccounts
    <3>1. OwnKept(p) /\ cred'[p] = cred[p] /\ Caller(r) # p /\ Caller(r)' # p
      BY <1>0, <1>2, <1>3, <1>7, SameTables
    <3>2. QED
      BY <1>2, <3>1, AccountsKept
  <2>3. Account(o)' = Account(o) => SameAccounts
    BY <2>2 DEF SameAccounts, OthersAccounts
  <2> USE DEF TypeOK, tables, locals, Goto
  <2>4. ASSUME RegisterKnown(r, o) PROVE AtomicStep
    <3>1. pc'[r] = "login" /\ minted' = minted /\ sessions_by_openid[o] # None
      BY <1>0, <2>4 DEF RegisterKnown, RegisterKnownReading
    <3>2. cred[o] # None
      BY <1>3, <3>1 DEF IdleOK, Absent
    <3>3. Account(o)' = Account(o)
      BY <1>2, <1>4, <2>1, <3>1, <3>2 DEF Shows, AccountOf
    <3>4. QED
      BY <1>2, <2>3, <3>1, <3>3, DrawnSame, SaysNothing
  <2>5. ASSUME NEW n \in Nicknames, RegisterNew(r, o, n) PROVE AtomicStep
    <3>1. PICK t \in FreshTokens, x \in FreshObjectIds :
            /\ session' = [session EXCEPT ![r] =
                 [object_id |-> x, nickname |-> n, openid |-> o, session_token |-> t]]
            /\ minted' = [minted EXCEPT ![t] = [openid |-> o, object_id |-> x]]
      BY <2>5 DEF RegisterNew, RegisterNewReading
    <3>2. pc'[r] = "reg_session" /\ sessions_by_openid[o] = None
      BY <1>0, <2>5 DEF RegisterNew, RegisterNewReading
    <3>3. cred[o] = None
      BY <1>0, <1>5, <3>2 DEF Intact, Credential
    <3>4. Account(o) = None
      BY <1>4, <3>3
    <3>5. session'[r] = [object_id |-> x, nickname |-> n, openid |-> o, session_token |-> t]
      BY <1>0, <3>1
    <3>6. Account(o)' = [object_id |-> x, nickname |-> n, session_token |-> t]
      BY <2>1, <3>2, <3>5 DEF Shows, AccountOf
    <3>7. x \in ObjectIds \ DrawnObjectIds
      BY FreshAreNotDrawn
    <3>8. [openid |-> o, object_id |-> x] \in Identity
      BY <1>0, <3>7
    <3>9. /\ t \in Tokens \ DrawnTokens
          /\ DrawnTokens' = DrawnTokens \cup {t}
          /\ DrawnObjectIds' = DrawnObjectIds \cup {x}
      <4>1. minted' = [minted EXCEPT ![t] = [openid |-> o, object_id |-> x]]
        BY <3>1
      <4> HIDE DEF TypeOK
      <4>2. TypeOK
        BY <1>0
      <4>3. QED
        BY <3>8, <4>1, <4>2, DrawnMore
    <3>10. QED
      BY <1>2, <2>2, <3>4, <3>6, <3>7, <3>9, SaysRegister
  <2>6. ASSUME cred[o] # None, UpdateLookup(r, cred[o].object_id) PROVE AtomicStep
    <3>1. pc'[r] = "upd_session" /\ minted' = minted
      BY <1>0, <1>2, <1>7, <2>6 DEF UpdateLookup, UpdateLookupReading, Rejected, vars
    <3>2. Account(o)' = Account(o)
      BY <1>2, <1>4, <2>1, <2>6, <3>1 DEF Shows, AccountOf
    <3>3. QED
      BY <1>2, <2>3, <3>1, <3>2, DrawnSame, SaysNothing
  <2>7. ASSUME cred[o] # None,
               \/ RefreshLookup(r, cred[o].session_token, cred[o].object_id)
               \/ DeleteLookup(r, cred[o].session_token, cred[o].object_id)
        PROVE  AtomicStep
    <3>1. /\ pc'[r] \in {"ref_delete", "del_saves"} /\ minted' = minted
          /\ session'[r] = sessions[cred[o].session_token]
      BY <1>0, <1>2, <1>7, <2>7
         DEF RefreshLookup, RefreshLookupReading, DeleteLookup, DeleteLookupReading, Rejected, vars
    <3>2. Account(o)' = Account(o)
      BY <1>4, <2>1, <2>7, <3>1 DEF Shows, AccountOf
    <3>3. QED
      BY <1>2, <2>3, <3>1, <3>2, DrawnSame, SaysNothing
  <2>8. QED
    BY <2>4, <2>5, <2>6, <2>7 DEF CarefulStart
<1>8. QED
  BY <1>2, <1>6, <1>7

(* Everybody else can only use up ids.                                      *)
LEMMA OthersSay ==
  ASSUME ClientInv, ClientInv', NEW r \in Requests, OtherStart(r) \/ OtherStep(r)
  PROVE  AtomicStep
<1>0. /\ SessionInv /\ CarefulInv /\ TypeOK /\ LocalsReady /\ LocalsClean
      /\ HandlersMatchTheirUser /\ None \notin Careful
  BY NobodyIsCareful DEF ClientInv, CarefulInv, SessionInv, TypeInv, IdentityInv
<1>1. CASE UNCHANGED cvars
  BY <1>1 DEF AtomicStep, Atomic!vars, cvars, vars, tables, locals, Account, Stored, DrawnTokens,
              DrawnObjectIds
<1>2. CASE ~UNCHANGED cvars
  <2>1. /\ cred' = cred /\ OthersKept(r) /\ Caller(r) \notin Careful /\ Caller(r)' \notin Careful
        /\ \A p \in Careful : OwnKept(p)
    <3>1. CASE OtherStart(r)
      <4>1. /\ UNCHANGED <<tables, cred>> /\ OthersKept(r) /\ pc[r] = "idle"
            /\ Caller(r)' \notin Careful
        BY <1>0, <1>2, <3>1, OthersStart
      <4>2. Caller(r) = None
        BY <1>0, <4>1 DEF LocalsClean, Caller
      <4>3. \A p \in Careful : OwnKept(p)
        BY <4>1, SameTables
      <4>4. QED
        BY <1>0, <4>1, <4>2, <4>3
    <3>2. CASE OtherStep(r)
      <4>1. Caller(r) \notin Careful /\ (Step(r) \/ Abort(r)) /\ cred' = cred
        BY <3>2 DEF OtherStep
      <4>2. Caller(r)' = (IF pc'[r] = "idle" THEN None ELSE Caller(r)) /\ OthersKept(r)
        BY <1>0, <4>1, CallerStep
      <4>3. \A p \in Careful : OwnKept(p)
        BY <1>0, <4>1, OwnStep, CarefulAreKnown
      <4>4. QED
        BY <1>0, <4>1, <4>2, <4>3
    <3>3. QED
      BY <3>1, <3>2
  <2>2. ASSUME NEW p \in Careful PROVE Account(p)' = Account(p)
    <3>1. OwnKept(p) /\ cred'[p] = cred[p] /\ Caller(r) # p /\ Caller(r)' # p
      BY <2>1
    <3>2. QED
      BY <2>1, <3>1, AccountsKept
  <2>3. SameAccounts
    BY <2>2 DEF SameAccounts
  <2>4. \/ minted' = minted
        \/ \E o \in OpenIds, n \in Nicknames : RegisterNew(r, o, n)
        \/ RefreshDelete(r)
    <3>1. CASE OtherStart(r)
      BY <3>1
         DEF OtherStart, RegisterKnown, RegisterKnownReading, UpdateLookup, UpdateLookupReading,
             RefreshLookup, RefreshLookupReading, DeleteLookup, DeleteLookupReading, Rejected, vars
    <3>2. CASE OtherStep(r)
      BY <3>2
         DEF OtherStep, Step, Abort, Login, LoginReading, RegisterPutSession, RegisterPutOpenId,
             RegisterPutObjId, UpdateReadSession, UpdateReadSessionReading, UpdateSave,
             RefreshPutSession, RefreshPutObjId, RefreshPutOpenId, DeleteSaves, DeleteSession,
             DeleteOpenId, DeleteObjId, Respond, MoveOn
    <3>3. QED
      BY <3>1, <3>2
  <2>5. CASE minted' = minted
    BY <2>1, <2>3, <2>5, DrawnSame, SaysNothing
  <2>6. ASSUME NEW o \in OpenIds, NEW n \in Nicknames, RegisterNew(r, o, n) PROVE AtomicStep
    <3>1. PICK t \in FreshTokens, x \in FreshObjectIds :
            minted' = [minted EXCEPT ![t] = [openid |-> o, object_id |-> x]]
      BY <2>6 DEF RegisterNew, RegisterNewReading
    <3>2. x \in ObjectIds \ DrawnObjectIds
      BY FreshAreNotDrawn
    <3>3. [openid |-> o, object_id |-> x] \in Identity
      BY <3>2
    <3>4. /\ t \in Tokens \ DrawnTokens
          /\ DrawnTokens' = DrawnTokens \cup {t}
          /\ DrawnObjectIds' = DrawnObjectIds \cup {x}
      BY <1>0, <3>1, <3>3, DrawnMore
    <3>5. QED
      BY <2>1, <2>3, <3>2, <3>4, SaysOthers
  <2>7. ASSUME RefreshDelete(r) PROVE AtomicStep
    <3>1. PICK t \in FreshTokens : minted' = [minted EXCEPT ![t] = IdentityOf(session[r])]
      BY <2>7 DEF RefreshDelete
    <3>2. session[r] \in Session /\ session[r] # None
      BY <1>0, <2>7 DEF RefreshDelete, TypeOK, LocalsReady, Holding
    <3>3. IdentityOf(session[r]) \in Identity
      BY <3>2
    <3>4. /\ t \in Tokens \ DrawnTokens
          /\ DrawnTokens' = DrawnTokens \cup {t}
          /\ DrawnObjectIds' = DrawnObjectIds \cup {session[r].object_id}
      BY <1>0, <3>1, <3>3, DrawnMore
    <3>5. /\ session[r].session_token \in Tokens
          /\ minted[session[r].session_token] = IdentityOf(session[r])
      BY <1>0, <3>2 DEF HandlersMatchTheirUser
    <3>6. session[r].session_token \in DrawnTokens
      BY <3>3, <3>5 DEF DrawnTokens
    <3>7. minted[session[r].session_token].object_id = session[r].object_id
      BY <3>5
    <3>8. session[r].object_id \in DrawnObjectIds
      BY <3>6, <3>7 DEF DrawnObjectIds
    <3>9. DrawnObjectIds' = DrawnObjectIds
      BY <3>4, <3>8
    <3>10. QED
      BY <2>1, <2>3, <3>4, <3>9, SaysOthers
  <2>8. QED
    BY <2>4, <2>5, <2>6, <2>7
<1>3. QED
  BY <1>1, <1>2

LEMMA AtomicInit == CInit => Atomic!Init
<1> SUFFICES ASSUME CInit PROVE Atomic!Init
  OBVIOUS
<1>1. ClientInv /\ AccountsShown
  BY ClientInit, ClientAccounts
<1>2. \A o \in Careful : cred[o] = None /\ ~Busy(o)
  BY CarefulAreKnown, NobodyIsCareful DEF CInit, Init, Busy, Caller
<1>3. \A o \in Careful : Account(o) = None
  BY <1>1, <1>2 DEF AccountsShown
<1>4. DrawnTokens = {} /\ DrawnObjectIds = {}
  BY DEF CInit, Init, DrawnTokens, DrawnObjectIds
<1>5. QED
  BY <1>3, <1>4 DEF Atomic!Init, CInit

LEMMA ClientsImplement == ClientInv /\ ClientInv' /\ [CNext]_cvars => AtomicStep
<1> SUFFICES ASSUME ClientInv, ClientInv', [CNext]_cvars PROVE AtomicStep
  OBVIOUS
<1>1. CASE UNCHANGED cvars
  BY <1>1 DEF AtomicStep, Atomic!vars, cvars, vars, tables, locals, Account, Stored, DrawnTokens,
              DrawnObjectIds
<1>2. CASE CNext
  BY <1>2, CarefulStartSays, CarefulStepSays, OthersSay DEF CNext, CRequest
<1>3. QED
  BY <1>1, <1>2

(* AccountClients implements Accounts: to a careful client each call takes  *)
(* effect at one instant, on an account nobody else touches, and answers    *)
(* with what the account then is.                                           *)
THEOREM AccountsCorrect == CSpec => ImplementsAccounts
  BY ClientInit, ClientStep, AtomicInit, ClientsImplement, PTL
     DEF CSpec, ImplementsAccounts, AtomicStep, Atomic!Spec

-----------------------------------------------------------------------------
(* The webhook.  A call of a careful client that ends without an event is a *)
(* delete that stopped before it touched the account; until then the        *)
(* webhook knows the account as it is.                                      *)

Shown(a) == IF a = None THEN None ELSE EventUser(a)

Quiet(o) == \A r \in Requests : Caller(r) = o => pc[r] = "del_saves"

MirrorInv ==
  /\ DOMAIN mirror = Careful
  /\ \A o \in Careful : Quiet(o) => mirror[o] = Shown(Account(o))

LEMMA MirrorInit == EInit => ClientInv /\ MirrorInv
<1> SUFFICES ASSUME EInit PROVE ClientInv /\ MirrorInv
  OBVIOUS
<1>1. ClientInv /\ AccountsShown
  BY ClientInit, ClientAccounts DEF EInit
<1>2. \A o \in Careful : cred[o] = None /\ ~Busy(o)
  BY CarefulAreKnown, NobodyIsCareful DEF EInit, CInit, Init, Busy, Caller
<1>3. \A o \in Careful : Account(o) = None
  BY <1>1, <1>2 DEF AccountsShown
<1>4. QED
  BY <1>1, <1>3 DEF EInit, MirrorInv, Shown

(* A careful client whose call does not move keeps its account, and the     *)
(* webhook its view of it.                                                  *)
LEMMA MirrorKept ==
  ASSUME ClientInv, ClientInv', MirrorInv, NEW r \in Requests, OthersKept(r), NEW p \in Careful,
         OwnKept(p), cred'[p] = cred[p], Caller(r) # p, Caller(r)' # p, mirror'[p] = mirror[p],
         Quiet(p)'
  PROVE  mirror'[p] = Shown(Account(p)')
<1>1. \A q \in Requests \ {r} : Caller(q)' = Caller(q) /\ pc'[q] = pc[q]
  BY CallersKept DEF OthersKept, ClientInv
<1>2. Quiet(p)
  BY <1>1 DEF Quiet
<1>3. Account(p)' = Account(p)
  BY AccountsKept
<1>4. QED
  BY <1>2, <1>3 DEF MirrorInv

LEMMA MirrorStepOK ==
  ASSUME ClientInv, ClientInv', MirrorInv, NEW r \in Requests, CRequest(r),
         mirror' = Notified(r) \/ (Caller(r) \notin Careful /\ mirror' = mirror)
  PROVE  MirrorInv'
<1>0. /\ SessionInv /\ CarefulInv /\ CredOK /\ TypeOK /\ LocalsReady /\ LocalsClean
      /\ AccountsShown /\ None \notin Careful
  BY AccountsAre, NobodyIsCareful DEF ClientInv, CarefulInv, SessionInv, TypeInv, IdentityInv
<1>1. AccountsShown'
  BY ClientAccounts, PTL
<1>2. pc[r] \in {"reply", "del_reply"} => session[r] # None /\ Caller(r) = session[r].openid
  BY <1>0 DEF LocalsReady, Holding, Labels, Caller
<1>3. DOMAIN mirror' = Careful
  BY DEF MirrorInv, Notified
<1>4. Caller(r) \notin Careful => mirror' = mirror
  BY <1>2 DEF Notified
<1>5. \A p \in Careful : Caller(r) # p => mirror'[p] = mirror[p]
  BY <1>2, <1>4 DEF Notified, MirrorInv
<1>6. ASSUME UNCHANGED cvars, mirror' = mirror PROVE MirrorInv'
  <2>1. \A p \in Careful : Account(p)' = Account(p) /\ Quiet(p)' = Quiet(p)
    BY <1>6 DEF cvars, vars, tables, locals, Account, Stored, Quiet, Caller
  <2>2. QED
    BY <1>6, <2>1 DEF MirrorInv
<1>7. ASSUME NEW o \in Careful, CarefulStart(r, o) PROVE MirrorInv'
  <2>1. /\ UNCHANGED <<tables, cred>> /\ OthersKept(r) /\ pc[r] = "idle" /\ ~Busy(o)
        /\ UNCHANGED cvars \/ (pc'[r] # "idle" /\ Caller(r)' = o)
    BY <1>0, <1>7, CarefulStarts
  <2>2. Caller(r) = None /\ mirror' = mirror
    BY <1>0, <1>4, <2>1 DEF LocalsClean, Caller
  <2>3. CASE UNCHANGED cvars
    BY <1>6, <2>2, <2>3
  <2>4. CASE pc'[r] # "idle" /\ Caller(r)' = o
    <3>1. ASSUME NEW p \in Careful \ {o}, Quiet(p)' PROVE mirror'[p] = Shown(Account(p)')
      <4>1. OwnKept(p) /\ cred'[p] = cred[p] /\ Caller(r) # p /\ Caller(r)' # p
        BY <1>0, <2>1, <2>2, <2>4, SameTables
      <4>2. QED
        BY <2>1, <2>2, <3>1, <4>1, MirrorKept
    <3>2. ASSUME Quiet(o)' PROVE mirror'[o] = Shown(Account(o)')
      <4>1. pc'[r] = "del_saves"
        BY <2>4, <3>2 DEF Quiet
      <4>2. /\ cred[o] # None /\ session'[r] = sessions[cred[o].session_token]
        <5>1. cred[o] # None /\ DeleteLookup(r, cred[o].session_token, cred[o].object_id)
          BY <1>0, <1>7, <2>1, <4>1
             DEF CarefulStart, RegisterKnown, RegisterKnownReading, RegisterNew, RegisterNewReading,
                 UpdateLookup, UpdateLookupReading, RefreshLookup, RefreshLookupReading, Rejected,
                 Goto, TypeOK, vars
        <5>2. QED
          BY <1>0, <2>1, <4>1, <5>1
             DEF DeleteLookup, DeleteLookupReading, Rejected, Goto, TypeOK, vars
      <4>3. Account(o) = AccountOf(sessions[cred[o].session_token])
        BY <1>0, <2>1, <4>2 DEF AccountsShown, AccountOf
      <4>4. Account(o)' = Shows(r, o)'
        BY <1>1, <2>4 DEF AccountsShown
      <4>5. Account(o)' = Account(o)
        BY <4>1, <4>2, <4>3, <4>4 DEF Shows, AccountOf
      <4>6. Quiet(o)
        BY <2>1 DEF Busy, Quiet
      <4>7. QED
        BY <2>2, <4>5, <4>6 DEF MirrorInv
    <3>3. QED
      BY <1>3, <3>1, <3>2 DEF MirrorInv
  <2>5. QED
    BY <2>1, <2>3, <2>4
<1>8. ASSUME OtherStart(r) PROVE MirrorInv'
  <2>1. /\ UNCHANGED <<tables, cred>> /\ OthersKept(r) /\ pc[r] = "idle"
        /\ UNCHANGED cvars \/ Caller(r)' \notin Careful
    BY <1>0, <1>8, OthersStart
  <2>2. Caller(r) = None /\ mirror' = mirror
    BY <1>0, <1>4, <2>1 DEF LocalsClean, Caller
  <2>3. CASE UNCHANGED cvars
    BY <1>6, <2>2, <2>3
  <2>4. CASE Caller(r)' \notin Careful
    <3>1. ASSUME NEW p \in Careful, Quiet(p)' PROVE mirror'[p] = Shown(Account(p)')
      <4>1. OwnKept(p) /\ cred'[p] = cred[p] /\ Caller(r) # p /\ Caller(r)' # p
        BY <1>0, <2>1, <2>2, <2>4, SameTables
      <4>2. QED
        BY <2>1, <2>2, <3>1, <4>1, MirrorKept
    <3>2. QED
      BY <1>3, <3>1 DEF MirrorInv
  <2>5. QED
    BY <2>1, <2>3, <2>4
<1>9. ASSUME NEW o \in Careful, CarefulStep(r, o) PROVE MirrorInv'
  <2>1. Caller(r) = o /\ Step(r) /\ CallOK(r, o) /\ mirror' = Notified(r) /\ o \in OpenIds
    BY <1>0, <1>9, CarefulAreKnown DEF CarefulStep, CarefulInv
  <2>2. Caller(r)' = (IF pc'[r] = "idle" THEN None ELSE o) /\ OthersKept(r)
    BY <1>0, <2>1, CallerStep
  <2>3. /\ Account(o) = Shows(r, o)
        /\ pc'[r] = "idle" => Account(o)' = IF cred'[o] = None THEN None
                                           ELSE AccountOf(sessions'[cred'[o].session_token])
        /\ OthersAccounts(o)
    BY <1>9, OwnAccount
  <2>4. ASSUME NEW p \in Careful \ {o}, Quiet(p)' PROVE mirror'[p] = Shown(Account(p)')
    <3>1. OwnKept(p)
      BY <1>0, <2>1, OwnStep, CarefulAreKnown
    <3>2. cred'[p] = cred[p]
      BY <1>0, <1>9 DEF CarefulStep, CredOK
    <3>3. Caller(r) # p /\ Caller(r)' # p
      BY <1>0, <2>1, <2>2
    <3>4. QED
      BY <1>5, <2>2, <2>4, <3>1, <3>2, <3>3, MirrorKept
  <2>5. ASSUME Quiet(o)' PROVE mirror'[o] = Shown(Account(o)')
    <3>1. pc'[r] \in {"idle", "del_saves"}
      BY <2>2, <2>5 DEF Quiet
    <3> USE DEF TypeOK, Goto, MoveOn, Finish
    <3>2. DeleteSaves(r) \/ Respond(r)
      <4>1. ~RefreshDelete(r) /\ ~UpdateSave(r) /\ ~DeleteSession(r) /\ ~DeleteOpenId(r) /\ ~DeleteObjId(r)
        BY <1>0, <3>1 DEF RefreshDelete, UpdateSave, DeleteSession, DeleteOpenId, DeleteObjId
      <4>2. /\ ~RegisterPutSession(r) /\ ~RegisterPutOpenId(r) /\ ~RegisterPutObjId(r)
            /\ ~RefreshPutSession(r) /\ ~RefreshPutObjId(r) /\ ~RefreshPutOpenId(r)
        BY <1>0, <3>1
           DEF RegisterPutSession, RegisterPutOpenId, RegisterPutObjId,
               RefreshPutSession, RefreshPutObjId, RefreshPutOpenId
      <4>3. ~Login(r) /\ ~UpdateReadSession(r)
        <5>1. pc[r] \in {"login", "upd_session"} => sessions[held[r]] # None
          BY <2>1 DEF CallOK, Intact
        <5>2. QED
          BY <1>0, <3>1, <5>1 DEF Login, LoginReading, UpdateReadSession, UpdateReadSessionReading
      <4>4. QED
        BY <2>1, <4>1, <4>2, <4>3 DEF Step
    <3>3. CASE DeleteSaves(r)
      <4>1. pc[r] = "del_saves" /\ pc'[r] = "idle" /\ sessions' = sessions
        BY <1>0, <3>1, <3>3 DEF DeleteSaves, tables
      <4>2. cred' = cred /\ mirror' = mirror
        BY <1>9, <2>1, <4>1 DEF CarefulStep, Notified
      <4>3. cred[o] # None /\ sessions[cred[o].session_token] = session[r]
        BY <2>1, <4>1 DEF CallOK, Intact, Filed, CredOf
      <4>4. Account(o)' = Account(o)
        BY <2>3, <4>1, <4>2, <4>3 DEF Shows, AccountOf
      <4>5. Quiet(o)
        BY <1>0, <2>1, <4>1 DEF CarefulInv, OneCall, Quiet
      <4>6. QED
        BY <4>2, <4>4, <4>5 DEF MirrorInv
    <3>4. CASE Respond(r)
      <4>1. pc'[r] = "idle" /\ sessions' = sessions /\ session[r] # None /\ session[r] \in Session
            /\ session[r].openid = o
        BY <1>0, <1>2, <2>1, <3>4 DEF Respond, tables
      <4>2. CASE pc[r] = "reply"
        <5>1. cred' = [cred EXCEPT ![o] = CredOf(session[r])]
          BY <1>9, <4>2 DEF CarefulStep
        <5>2. cred'[o] = CredOf(session[r]) /\ CredOf(session[r]) # None
          BY <1>0, <4>1, <5>1, NoneIsNoRecord DEF CredOK
        <5>3. sessions[session[r].session_token] = session[r]
          BY <2>1, <4>2 DEF CallOK, Filed
        <5>4. Account(o)' = AccountOf(session[r]) /\ AccountOf(session[r]) # None
          BY <2>3, <4>1, <5>2, <5>3, NoneIsNoRecord DEF CredOf
        <5>5. mirror'[o] = EventUser(session[r])
          BY <2>1, <4>1, <4>2 DEF Notified, MirrorInv
        <5>6. QED
          BY <5>4, <5>5 DEF Shown, EventUser, AccountOf
      <4>3. CASE pc[r] = "del_reply"
        <5>1. cred' = [cred EXCEPT ![o] = None]
          BY <1>9, <4>3 DEF CarefulStep
        <5>2. cred'[o] = None
          BY <1>0, <5>1 DEF CredOK
        <5>3. mirror'[o] = None
          BY <2>1, <4>1, <4>3 DEF Notified, MirrorInv
        <5>4. QED
          BY <2>3, <4>1, <5>2, <5>3 DEF Shown
      <4>4. QED
        BY <3>4, <4>2, <4>3 DEF Respond
    <3>5. QED
      BY <3>2, <3>3, <3>4
  <2>6. QED
    BY <1>3, <2>4, <2>5 DEF MirrorInv
<1>10. ASSUME OtherStep(r) PROVE MirrorInv'
  <2>1. Caller(r) \notin Careful /\ (Step(r) \/ Abort(r)) /\ cred' = cred
    BY <1>10 DEF OtherStep
  <2>2. Caller(r)' = (IF pc'[r] = "idle" THEN None ELSE Caller(r)) /\ OthersKept(r)
    BY <1>0, <2>1, CallerStep
  <2>3. ASSUME NEW p \in Careful, Quiet(p)' PROVE mirror'[p] = Shown(Account(p)')
    <3>1. OwnKept(p) /\ cred'[p] = cred[p] /\ Caller(r) # p /\ Caller(r)' # p
      BY <1>0, <2>1, <2>2, OwnStep, CarefulAreKnown
    <3>2. QED
      BY <1>4, <2>1, <2>2, <2>3, <3>1, MirrorKept
  <2>4. QED
    BY <1>3, <2>3 DEF MirrorInv
<1>11. QED
  BY <1>7, <1>8, <1>9, <1>10 DEF CRequest

LEMMA MirrorStep == ClientInv /\ ClientInv' /\ MirrorInv /\ [ENext]_evars => MirrorInv'
<1> SUFFICES ASSUME ClientInv, ClientInv', MirrorInv, [ENext]_evars PROVE MirrorInv'
  OBVIOUS
<1>1. CASE ENext
  BY <1>1, MirrorStepOK DEF ENext
<1>2. CASE UNCHANGED evars
  <2>1. \A p \in Careful : Account(p)' = Account(p) /\ Quiet(p)' = Quiet(p)
    BY <1>2 DEF evars, cvars, vars, tables, locals, Account, Stored, Quiet, Caller
  <2>2. QED
    BY <1>2, <2>1 DEF MirrorInv, evars
<1>3. QED
  BY <1>1, <1>2

(* The webhook changes nothing for the clients: what they are promised      *)
(* holds beside it.                                                         *)
THEOREM EventsOnlyWatch ==
  ESpec => CSpec /\ []CredentialsWork /\ CarefulNeverRefused /\ ImplementsAccounts
<1>1. EInit => CInit
  BY DEF EInit
<1>2. [ENext]_evars => [CNext]_cvars
  BY DEF ENext, CNext, evars
<1>3. ESpec => CSpec
  BY <1>1, <1>2, PTL DEF ESpec, CSpec
<1>4. QED
  BY <1>3, CredentialsCorrect, NeverRefused, AccountsCorrect, PTL

(* Between the calls of a careful client the webhook knows its account as   *)
(* the tables have it, whatever others do and whatever of theirs is cut     *)
(* off.                                                                     *)
THEOREM MirrorCorrect == ESpec => []MirrorFollows
<1>1. ClientInv /\ MirrorInv => MirrorFollows
  BY DEF MirrorInv, MirrorFollows, Quiet, Busy, Shown
<1>2. [ENext]_evars => [CNext]_cvars
  BY DEF ENext, CNext, evars
<1>3. QED
  BY MirrorInit, ClientStep, MirrorStep, <1>1, <1>2, PTL DEF ESpec
=============================================================================
